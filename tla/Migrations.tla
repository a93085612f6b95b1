----------------------------- MODULE Migrations -----------------------------
(***************************************************************************)
(* The schema changes of db/migrations/sql: each pod has an init container *)
(* that runs the `migrate` subcommand of cmd/main.go, with the files its   *)
(* release embeds, to its end before the pod serves; while a rollout lasts *)
(* pods of two releases start and restart side by side, and others read    *)
(* the products table.                                                     *)
(*                                                                         *)
(* golang-migrate is external: under an advisory lock it marks the next    *)
(* version dirty, runs its file as one transaction and unmarks it, and it  *)
(* refuses to start on a dirty ledger, or on a version its release has no  *)
(* file of.  PostgreSQL's lock queue on products is external too: whoever  *)
(* wants ACCESS EXCLUSIVE waits for the readers that are there, and every  *)
(* later reader waits behind it.                                           *)
(***************************************************************************)
EXTENDS Naturals

CONSTANTS
  Pods,        \* the pods of all releases
  Readers,     \* read transactions on products
  Stuck,       \* readers that never end
  NoPod,       \* nobody holds the advisory lock
  Latest,      \* the files are 1..Latest, in the order of their numbers
  Files,       \* the last file each pod's release embeds
  Exclusive,   \* files that take ACCESS EXCLUSIVE on products
  Rerunnable   \* files that succeed on a schema that has their change

ASSUME MigrationsAssumption ==
  /\ NoPod \notin Pods
  /\ Stuck \subseteq Readers
  /\ Latest \in Nat \ {0}
  /\ Files \in [Pods -> 1..Latest]
  /\ Exclusive \subseteq 1..Latest
  /\ Rerunnable \subseteq 1..Latest

VARIABLES
  version, dirty,  \* the row of schema_migrations
  schema,          \* the last file whose transaction has committed
  pc,              \* where each pod is
  advisory,        \* the pod that holds the advisory lock
  target,          \* the file its holder is at
  reader           \* where each read transaction is

ledger == <<version, dirty>>
vars == <<ledger, schema, pc, advisory, target, reader>>

-----------------------------------------------------------------------------
\* "backoff" is a container that has not run yet or has ended by itself, with an error;
\* "killed" is one that something else has ended.
Locations == {"backoff", "killed", "lock", "check", "mark", "run", "queued", "unmark", "serving"}

\* Between the advisory lock and its release.
Migrating == {"check", "mark", "run", "queued", "unmark"}

TypeOK ==
  /\ version \in 0..Latest /\ dirty \in BOOLEAN
  /\ schema \in 0..Latest
  /\ pc \in [Pods -> Locations]
  /\ advisory \in Pods \cup {NoPod}
  /\ target \in 0..Latest
  /\ reader \in [Readers -> {"idle", "waiting", "reading"}]

\* Any earlier release has left a clean ledger; without one there is no table.
Init ==
  /\ version \in 0..Latest /\ dirty = FALSE
  /\ schema = version
  /\ pc = [p \in Pods |-> "backoff"]
  /\ advisory = NoPod
  /\ target = 0
  /\ reader = [r \in Readers |-> "idle"]

Goto(p, step) == pc' = [pc EXCEPT ![p] = step]

-----------------------------------------------------------------------------
(* The lock queue of products. *)

SomeoneIsQueued == \E p \in Pods : pc[p] = "queued"

NobodyReads == \A r \in Readers : reader[r] # "reading"

\* The exclusive request is granted and released, or withdrawn: PostgreSQL wakes
\* up everybody behind it.
WakeReaders ==
  reader' = [r \in Readers |-> IF reader[r] = "waiting" THEN "reading" ELSE reader[r]]

\* A read transaction's first statement: beside other readers, behind an exclusive
\* request that waits.
Read(r) ==
  /\ reader[r] = "idle" /\ schema > 0
  /\ reader' = [reader EXCEPT ![r] = IF SomeoneIsQueued THEN "waiting" ELSE "reading"]
  /\ UNCHANGED <<ledger, schema, pc, advisory, target>>

ReadEnds(r) ==
  /\ reader[r] = "reading"
  /\ reader' = [reader EXCEPT ![r] = "idle"]
  /\ UNCHANGED <<ledger, schema, pc, advisory, target>>

-----------------------------------------------------------------------------
(* The init container. *)

\* kubelet starts the container, again after a back-off.
StartContainer(p) ==
  /\ pc[p] \in {"backoff", "killed"} /\ Goto(p, "lock")
  /\ UNCHANGED <<ledger, schema, advisory, target, reader>>

Lock(p) ==
  /\ pc[p] = "lock" /\ advisory = NoPod
  /\ advisory' = p
  /\ Goto(p, "check")
  /\ UNCHANGED <<ledger, schema, target, reader>>

\* The subcommand is over, the advisory lock with its session.
Exit(p, step) ==
  /\ Goto(p, step)
  /\ advisory' = IF advisory = p THEN NoPod ELSE advisory

\* Somebody else has held the lock for too long: Fatal.
LockUnavailable(p) ==
  /\ pc[p] = "lock" /\ advisory # NoPod
  /\ Exit(p, "backoff")
  /\ UNCHANGED <<ledger, schema, target, reader>>

\* The version is the last one this release has a file of: the pod goes on to serve.
\* It has files beyond it: the next one is marked.
UpToDateOrNext(p) ==
  \/ version = Files[p] /\ Exit(p, "serving") /\ UNCHANGED target
  \/ version < Files[p] /\ target' = version + 1 /\ Goto(p, "mark") /\ UNCHANGED advisory

\* Faulty variant: a dirty version counts as one that was applied.
CheckVersionOnly(p) ==
  /\ pc[p] = "check"
  /\ \/ version > Files[p] /\ Exit(p, "backoff") /\ UNCHANGED target
     \/ UpToDateOrNext(p)
  /\ UNCHANGED <<ledger, schema, reader>>

\* Up on a dirty ledger, or on the version of a later release, is an error and so Fatal:
\* nothing has failed, and the next container is refused in the same way.
Check(p) ==
  /\ pc[p] = "check"
  /\ \/ (dirty \/ version > Files[p]) /\ Exit(p, "backoff") /\ UNCHANGED target
     \/ ~dirty /\ UpToDateOrNext(p)
  /\ UNCHANGED <<ledger, schema, reader>>

\* Faulty variant: the version is recorded as applied before its file runs.
MarkClean(p) ==
  /\ pc[p] = "mark"
  /\ version' = target /\ dirty' = FALSE
  /\ Goto(p, "run")
  /\ UNCHANGED <<schema, advisory, target, reader>>

\* SetVersion(target, dirty).
Mark(p) ==
  /\ pc[p] = "mark"
  /\ version' = target /\ dirty' = TRUE
  /\ Goto(p, "run")
  /\ UNCHANGED <<schema, advisory, target, reader>>

\* The file is at its exclusive lock, and somebody reads.
Queue(p) ==
  /\ pc[p] = "run" /\ target \in Exclusive /\ ~NobodyReads
  /\ Goto(p, "queued")
  /\ UNCHANGED <<ledger, schema, advisory, target, reader>>

MayRun(p) ==
  \/ pc[p] = "run" /\ (target \in Exclusive => NobodyReads)
  \/ pc[p] = "queued" /\ NobodyReads

\* The file commits as one transaction.
RunFile(p) ==
  /\ MayRun(p)
  /\ schema < target \/ target \in Rerunnable
  /\ schema' = target
  /\ Goto(p, "unmark")
  /\ WakeReaders
  /\ UNCHANGED <<ledger, advisory, target>>

\* The file raises (an undocumented grant, an object that is there already), or its
\* statement times out: nothing of it stays, and the version stays dirty.
FileFails(p) ==
  /\ MayRun(p)
  /\ Exit(p, "backoff")
  /\ WakeReaders
  /\ UNCHANGED <<ledger, schema, target>>

\* Faulty variant: no lock_timeout.
LockNeverTimesOut(p) == FALSE /\ UNCHANGED <<vars, p>>

\* lock_timeout, 3 s behind a reader: the same failure.
LockTimeout(p) ==
  /\ pc[p] = "queued" /\ ~NobodyReads
  /\ Exit(p, "backoff")
  /\ WakeReaders
  /\ UNCHANGED <<ledger, schema, target>>

\* Faulty variant: Up does not look where the files end.
UnmarkPastTheEnd(p) ==
  /\ pc[p] = "unmark"
  /\ version' = target /\ dirty' = FALSE
  /\ target' = target + 1 /\ Goto(p, "mark")
  /\ UNCHANGED <<schema, advisory, reader>>

\* SetVersion(target, clean), then the next file, or the end of Up.
Unmark(p) ==
  /\ pc[p] = "unmark"
  /\ version' = target /\ dirty' = FALSE
  /\ \/ target = Files[p] /\ Exit(p, "serving") /\ UNCHANGED target
     \/ target < Files[p] /\ target' = target + 1 /\ Goto(p, "mark") /\ UNCHANGED advisory
  /\ UNCHANGED <<schema, reader>>

\* The pod dies or is rescheduled; its sessions end, and an open transaction with them.
Crash(p) ==
  /\ pc[p] \notin {"backoff", "killed"}
  /\ Exit(p, "killed")
  /\ IF pc[p] = "queued" THEN WakeReaders ELSE UNCHANGED reader
  /\ UNCHANGED <<ledger, schema, target>>

\* Between the start of a file and its clean mark.
MidFile == \E p \in Pods : pc[p] \in {"run", "queued", "unmark"}

\* Faulty variant: nobody looks after it, since the init container runs again.
NobodyRepairs == FALSE /\ UNCHANGED vars

\* While no file is being run, a human removes the cause and corrects the row of a dirty
\* ledger: back to the version before, so that the file runs again, or to its own version
\* if it has committed and does not run twice.
Repair ==
  /\ dirty /\ ~MidFile
  /\ dirty' = FALSE
  /\ version' = IF schema = version /\ version \notin Rerunnable THEN version ELSE version - 1
  /\ UNCHANGED <<schema, pc, advisory, target, reader>>

Step(p) ==
  \/ StartContainer(p) \/ Lock(p) \/ Check(p) \/ Mark(p) \/ Queue(p) \/ RunFile(p)
  \/ Unmark(p)

Fault(p) == LockUnavailable(p) \/ FileFails(p) \/ LockTimeout(p) \/ Crash(p)

Next ==
  \/ \E p \in Pods : Step(p) \/ Fault(p)
  \/ \E r \in Readers : Read(r) \/ ReadEnds(r)
  \/ Repair

Spec == Init /\ [][Next]_vars

\* Containers are restarted and go on, the queue of the advisory lock is served in
\* turn, timeouts fire, somebody repairs a dirty ledger, and all reads end but the stuck
\* ones.
Fairness ==
  /\ \A p \in Pods : WF_vars(Step(p)) /\ SF_vars(Lock(p)) /\ WF_vars(LockTimeout(p))
  /\ \A r \in Readers \ Stuck : WF_vars(ReadEnds(r))
  /\ WF_vars(Repair)

FairSpec == Spec /\ Fairness

-----------------------------------------------------------------------------
(* What the migrations promise. *)

\* A pod serves only on a schema that has all its release was written for, whatever
\* crashed, timed out, was refused or was repaired on the way, and in whatever order the
\* releases start.
ServingPodsHaveTheirSchema ==
  \A p \in Pods : pc[p] = "serving" => schema >= Files[p]

\* The ledger never claims a file that has not run: a clean version is applied, and a
\* dirty one is at most one file ahead; and a repair never forgets more than one.
LedgerIsTrue ==
  /\ ~dirty => version \in {schema, schema - 1}
  /\ dirty => version \in {schema, schema + 1}

\* A migration that waits for one open transaction does not stall the catalog: every
\* read gets its turn, though another one never ends.
ReadsAreNotStarved ==
  \A r \in Readers : reader[r] = "waiting" ~> reader[r] = "reading"

\* A file that has failed, on its lock_timeout or otherwise, or that was cut off from its
\* clean mark, stops the rollout: whatever containers start, of whatever release, no file
\* runs and no further pod serves before a human has repaired the ledger.  The comments
\* on lock_timeout count on the retry of the init container instead.
OnlyARepairEndsTheStop ==
  [][dirty /\ ~MidFile =>
       \/ Repair
       \/ /\ UNCHANGED <<ledger, schema>>
          /\ \A p \in Pods : pc'[p] = "serving" => pc[p] = "serving"]_vars

\* Once the faults are over and dirty ledgers are repaired, the rollout comes to its end:
\* every pod of the latest release serves for good, though pods of the release before are
\* refused for ever and keep taking the advisory lock.
RolloutEnds ==
  <>[][\A p \in Pods : ~Fault(p)]_vars
    => <>[](\A p \in Pods : Files[p] = Latest => pc[p] = "serving")
=============================================================================
