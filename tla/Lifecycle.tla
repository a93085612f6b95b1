------------------------------ MODULE Lifecycle ------------------------------
(***************************************************************************)
(* The product lifecycle of internal/core/domain/lifecycle.go: three       *)
(* stored states, three commands, and the table of legal edges.  This is a *)
(* pure module; CatalogAdmin applies it under a row lock.                  *)
(***************************************************************************)

\* The stored lifecycle states (StatusDraft, StatusActive, StatusArchived).
ProductStatus == {"DRAFT", "ACTIVE", "ARCHIVED"}

\* The three transition commands.
LifecycleAction == {"PUBLISH", "ARCHIVE", "RESTORE"}

\* The illegal-edge error, as a value outside ProductStatus.
ErrInvalidTransition == "InvalidTransition"

\* Faulty variant: a repeated command is a no-op that succeeds.
NextStatusIdempotent(from, action) ==
  CASE action = "PUBLISH" /\ from \in {"DRAFT", "ACTIVE"}   -> "ACTIVE"
    [] action = "ARCHIVE"                                  -> "ARCHIVED"
    [] action = "RESTORE" /\ from \in {"ARCHIVED", "ACTIVE"} -> "ACTIVE"
    [] OTHER                                               -> ErrInvalidTransition

\* The state an action leads to, or ErrInvalidTransition where the edge does
\* not exist.  A repeated command is an illegal edge, not a no-op.
NextStatus(from, action) ==
  CASE action = "PUBLISH" /\ from = "DRAFT"               -> "ACTIVE"
    [] action = "ARCHIVE" /\ from \in {"DRAFT", "ACTIVE"} -> "ARCHIVED"
    [] action = "RESTORE" /\ from = "ARCHIVED"            -> "ACTIVE"
    [] OTHER                                              -> ErrInvalidTransition

\* The edges of the table, as pairs of states.
LegalEdge(from, to) ==
  \E action \in LifecycleAction : to = NextStatus(from, action) /\ to \in ProductStatus
=============================================================================
