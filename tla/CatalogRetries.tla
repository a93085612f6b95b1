--------------------------- MODULE CatalogRetries ---------------------------
(***************************************************************************)
(* Commands that are sent again.  There is no idempotency store            *)
(* (internal/web/v1/protected.go): an operator whose answer was an error   *)
(* does not know whether the command took effect, and what a second        *)
(* sending does is up to the guards of CatalogAdmin alone.                 *)
(*                                                                         *)
(* The module adds the history those guards do not keep.                   *)
(***************************************************************************)
EXTENDS CatalogAdmin

VARIABLES
  tookEffect,  \* the row the command in hand has changed already, or NoTarget
  overtaken    \* whether another command has changed that row since

retryVars == <<vars, tookEffect, overtaken>>

\* A commit, and nothing else, extends the audit.
Effect == audit' # audit

\* What o's step says about the commands in hand.
Note(o) ==
  /\ tookEffect' = [tookEffect EXCEPT ![o] =
       IF Effect THEN request[o].id ELSE IF pc'[o] = "idle" THEN NoTarget ELSE @]
  /\ overtaken' = [x \in Operators |->
       IF x = o THEN ~Effect /\ pc'[o] # "idle" /\ overtaken[o]
       ELSE overtaken[x] \/ (Effect /\ tookEffect[x] = request[o].id)]

RetryInit ==
  /\ Init
  /\ tookEffect = [o \in Operators |-> NoTarget]
  /\ overtaken = [o \in Operators |-> FALSE]

RetryNext == \E o \in Operators :
  /\ Submit(o) \/ Step(o) \/ Fail(o) \/ DeadlockVictim(o) \/ Respond(o)
  /\ Note(o)

RetrySpec == RetryInit /\ [][RetryNext]_retryVars

-----------------------------------------------------------------------------
\* What the guards do achieve.  An edit or a PUBLISH never takes effect twice; a
\* create, ARCHIVE or RESTORE only after another command changed the row in between;
\* the rename of a category, which carries no version and meets no guard, is the one
\* command that simply happens again.
RepeatsAreOvertaken ==
  [][\A o \in Operators :
       Commit(o) /\ tookEffect[o] # NoTarget
         => \/ request[o].op = "UPDATE CATEGORY"
            \/ /\ request[o].op \in {"CREATE", "CREATE CATEGORY", "ARCHIVE", "RESTORE"}
               /\ overtaken[o]]_retryVars

\* What the comment promises: "a retried request cannot duplicate an effect".
RetriesHaveNoEffect ==
  [][\A o \in Operators : Commit(o) => tookEffect[o] = NoTarget]_retryVars
=============================================================================
