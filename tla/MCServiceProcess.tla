-------------------------- MODULE MCServiceProcess --------------------------
(* Instances of ServiceProcess for TLC. *)
EXTENDS ServiceProcess

CONSTANTS h1, h2, g1
=============================================================================
