----------------------------- MODULE PublicRow -----------------------------
(***************************************************************************)
(* What the public reads see of a products row, joined with its category,  *)
(* and what the operators' commands do to it.  CatalogCache runs these     *)
(* changes as single steps; CatalogAdmin, whose commands are interleaved   *)
(* transactions over two tables, makes no other ones.                      *)
(*                                                                         *)
(* A row is [status, version, label]: label is the name of its category,   *)
(* and version stands for the name, price and description that change      *)
(* with it.                                                                *)
(***************************************************************************)
EXTENDS Naturals, Lifecycle

\* An edit: any name, price, description and category; the status stays.
EditedRow(row, label) ==
  [status |-> row.status, version |-> row.version + 1, label |-> label]

\* A lifecycle command: the status and the version, nothing else.
TransitionedRow(row, action) ==
  [status |-> NextStatus(row.status, action), version |-> row.version + 1,
   label |-> row.label]

\* The rename of the row's category, which leaves every version as it is.
RelabelledRow(row, label) ==
  [status |-> row.status, version |-> row.version, label |-> label]

\* One command leads from `row` to `next`.
OneCommand(row, next, labels) ==
  \/ \E label \in labels : next = EditedRow(row, label)
  \/ \E action \in LifecycleAction :
       /\ NextStatus(row.status, action) # ErrInvalidTransition
       /\ next = TransitionedRow(row, action)
  \/ \E label \in labels : next = RelabelledRow(row, label)
=============================================================================
