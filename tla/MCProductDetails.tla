-------------------------- MODULE MCProductDetails --------------------------
(* Instances of ProductDetails for TLC. *)
EXTENDS ProductDetails

CONSTANTS r1, r2, l1, w1, w2, k1, k2
=============================================================================
