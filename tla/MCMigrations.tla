---------------------------- MODULE MCMigrations ----------------------------
(* Instances of Migrations for TLC. *)
EXTENDS Migrations

CONSTANTS p1, p2, p3, r1, r2, r3

\* A rollout: one pod of the release before, two of the latest.
FilesOfPods == [p \in {p1, p2, p3} |-> IF p = p1 THEN 2 ELSE 3]
=============================================================================
