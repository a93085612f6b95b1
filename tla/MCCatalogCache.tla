--------------------------- MODULE MCCatalogCache ---------------------------
(* Instances of CatalogCache for TLC. *)
EXTENDS CatalogCache

CONSTANTS r1, r2, l1, w1, w2, k1, k2
=============================================================================
