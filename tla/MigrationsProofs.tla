-------------------------- MODULE MigrationsProofs --------------------------
(***************************************************************************)
(* What Migrations promises of the ledger and of the pods that serve, for  *)
(* any number of pods, releases, files and readers.                        *)
(***************************************************************************)
EXTENDS Migrations, TLAPS

\* What the holder of the advisory lock knows at each place.
HolderIsAlone == \A p \in Pods : pc[p] \in Migrating => advisory = p

HolderIsOnTrack ==
  \A p \in Pods :
    /\ pc[p] \in {"mark", "run", "queued", "unmark"} => target <= Files[p]
    /\ pc[p] = "mark" => ~dirty /\ target = version + 1
    /\ pc[p] \in {"run", "queued"} => dirty /\ target = version
    /\ pc[p] = "unmark" => dirty /\ target = version /\ schema = version

Inv ==
  /\ TypeOK
  /\ HolderIsAlone
  /\ HolderIsOnTrack
  /\ LedgerIsTrue
  /\ ServingPodsHaveTheirSchema

-----------------------------------------------------------------------------
LEMMA InitInv == Init => Inv
<1> SUFFICES ASSUME Init PROVE Inv
  OBVIOUS
<1> USE MigrationsAssumption DEF Init
<1>1. TypeOK
  <2>1. version \in 0..Latest /\ schema \in 0..Latest /\ target \in 0..Latest
    OBVIOUS
  <2>2. dirty \in BOOLEAN
    OBVIOUS
  <2>3. pc \in [Pods -> Locations]
    BY DEF Locations
  <2>4. reader \in [Readers -> {"idle", "waiting", "reading"}]
    OBVIOUS
  <2> QED
    BY <2>1, <2>2, <2>3, <2>4 DEF TypeOK
<1>2. HolderIsAlone /\ HolderIsOnTrack
  BY DEF HolderIsAlone, HolderIsOnTrack, Migrating
<1>3. LedgerIsTrue /\ ServingPodsHaveTheirSchema
  BY DEF LedgerIsTrue, ServingPodsHaveTheirSchema
<1> QED
  BY <1>1, <1>2, <1>3 DEF Inv

\* The end of a subcommand leaves the lock to nobody but those who hold it.
LEMMA ExitInv ==
  ASSUME Inv, NEW p \in Pods, NEW step \in {"backoff", "killed", "serving"}, Exit(p, step),
         UNCHANGED <<ledger, schema, target>>,
         reader' \in [Readers -> {"idle", "waiting", "reading"}],
         step = "serving" => schema >= Files[p]
  PROVE  Inv'
<1> USE MigrationsAssumption DEF Inv, Exit, Goto, ledger
<1>1. TypeOK'
  BY DEF TypeOK, Locations
<1>2. HolderIsAlone' /\ HolderIsOnTrack'
  BY DEF TypeOK, HolderIsAlone, HolderIsOnTrack, Migrating
<1>3. LedgerIsTrue' /\ ServingPodsHaveTheirSchema'
  BY DEF TypeOK, LedgerIsTrue, ServingPodsHaveTheirSchema
<1> QED
  BY <1>1, <1>2, <1>3

\* Waking up the readers keeps them readers.
LEMMA WakeReadersType ==
  ASSUME TypeOK, WakeReaders
  PROVE  reader' \in [Readers -> {"idle", "waiting", "reading"}]
BY DEF TypeOK, WakeReaders

LEMMA StepInv ==
  ASSUME Inv, NEW p \in Pods, Step(p)
  PROVE  Inv'
<1> USE MigrationsAssumption DEF Inv, ledger
<1>1. CASE StartContainer(p)
  BY <1>1 DEF StartContainer, Goto, TypeOK, HolderIsAlone, HolderIsOnTrack, LedgerIsTrue,
              ServingPodsHaveTheirSchema, Migrating, Locations
<1>2. CASE Lock(p)
  BY <1>2 DEF Lock, Goto, TypeOK, HolderIsAlone, HolderIsOnTrack, LedgerIsTrue,
              ServingPodsHaveTheirSchema, Migrating, Locations
<1>3. CASE Check(p)
  <2>1. CASE Exit(p, "backoff") /\ UNCHANGED target
    BY <1>3, <2>1, ExitInv DEF Check, TypeOK
  <2>2. CASE /\ ~dirty /\ version = Files[p]
             /\ Exit(p, "serving") /\ UNCHANGED target
    BY <1>3, <2>2, ExitInv DEF Check, TypeOK, LedgerIsTrue
  <2>3. CASE /\ ~dirty /\ version < Files[p]
             /\ target' = version + 1 /\ Goto(p, "mark") /\ UNCHANGED advisory
    BY <1>3, <2>3
    DEF Check, Goto, TypeOK, HolderIsAlone, HolderIsOnTrack, LedgerIsTrue,
        ServingPodsHaveTheirSchema, Migrating, Locations
  <2> QED
    BY <1>3, <2>1, <2>2, <2>3 DEF Check, UpToDateOrNext
<1>4. CASE Mark(p)
  BY <1>4 DEF Mark, Goto, TypeOK, HolderIsAlone, HolderIsOnTrack, LedgerIsTrue,
              ServingPodsHaveTheirSchema, Migrating, Locations
<1>5. CASE Queue(p)
  BY <1>5 DEF Queue, Goto, TypeOK, HolderIsAlone, HolderIsOnTrack, LedgerIsTrue,
              ServingPodsHaveTheirSchema, Migrating, Locations
<1>6. CASE RunFile(p)
  <2>1. reader' \in [Readers -> {"idle", "waiting", "reading"}]
    BY <1>6, WakeReadersType DEF RunFile
  <2>2. TypeOK'
    BY <1>6, <2>1 DEF RunFile, Goto, TypeOK, Locations
  <2>5. HolderIsAlone'
    BY <1>6 DEF RunFile, MayRun, Goto, TypeOK, HolderIsAlone, Migrating
  <2>3. HolderIsOnTrack'
    BY <1>6 DEF RunFile, MayRun, Goto, TypeOK, HolderIsAlone, HolderIsOnTrack, Migrating
  <2>4. LedgerIsTrue' /\ ServingPodsHaveTheirSchema'
    BY <1>6 DEF RunFile, MayRun, Goto, TypeOK, HolderIsOnTrack, LedgerIsTrue,
                ServingPodsHaveTheirSchema
  <2> QED
    BY <2>2, <2>3, <2>4, <2>5
<1>7. CASE Unmark(p)
  <2>1. target \in 0..Latest /\ target' \in 0..Latest
    BY <1>7 DEF Unmark, TypeOK, HolderIsOnTrack
  <2>4. TypeOK'
    BY <1>7, <2>1 DEF Unmark, Exit, Goto, TypeOK, Locations
  <2>5. HolderIsAlone'
    BY <1>7 DEF Unmark, Exit, Goto, TypeOK, HolderIsAlone, Migrating
  <2>2. HolderIsOnTrack'
    BY <1>7 DEF Unmark, Exit, Goto, TypeOK, HolderIsAlone, HolderIsOnTrack, Migrating
  <2>3. LedgerIsTrue' /\ ServingPodsHaveTheirSchema'
    BY <1>7 DEF Unmark, Exit, Goto, TypeOK, HolderIsOnTrack, LedgerIsTrue,
                ServingPodsHaveTheirSchema
  <2> QED
    BY <2>2, <2>3, <2>4, <2>5
<1> QED
  BY <1>1, <1>2, <1>3, <1>4, <1>5, <1>6, <1>7 DEF Step

LEMMA FaultInv ==
  ASSUME Inv, NEW p \in Pods, Fault(p)
  PROVE  Inv'
<1> USE DEF Inv, ledger
<1>1. PICK step \in {"backoff", "killed"} : Exit(p, step) /\ UNCHANGED <<ledger, schema, target>>
  BY DEF Fault, LockUnavailable, FileFails, LockTimeout, Crash
<1>2. reader' \in [Readers -> {"idle", "waiting", "reading"}]
  BY WakeReadersType DEF Fault, LockUnavailable, FileFails, LockTimeout, Crash, TypeOK
<1> QED
  BY <1>1, <1>2, ExitInv

LEMMA ReaderInv ==
  ASSUME Inv, NEW r \in Readers, Read(r) \/ ReadEnds(r)
  PROVE  Inv'
BY DEF Inv, Read, ReadEnds, ledger, TypeOK, HolderIsAlone, HolderIsOnTrack, LedgerIsTrue,
       ServingPodsHaveTheirSchema

LEMMA RepairInv ==
  ASSUME Inv, Repair
  PROVE  Inv'
<1> USE MigrationsAssumption DEF Inv, Repair, MidFile
<1>1. TypeOK'
  <2>1. version' \in 0..Latest
    BY DEF TypeOK, LedgerIsTrue
  <2>2. dirty' \in BOOLEAN
    OBVIOUS
  <2> QED
    BY <2>1, <2>2 DEF TypeOK
<1>4. HolderIsAlone'
  BY DEF HolderIsAlone
<1>2. HolderIsOnTrack'
  BY DEF HolderIsOnTrack
<1>3. LedgerIsTrue' /\ ServingPodsHaveTheirSchema'
  BY DEF TypeOK, LedgerIsTrue, ServingPodsHaveTheirSchema
<1> QED
  BY <1>1, <1>2, <1>3, <1>4

LEMMA NextInv == Inv /\ [Next]_vars => Inv'
<1> SUFFICES ASSUME Inv, [Next]_vars PROVE Inv'
  OBVIOUS
<1>1. CASE UNCHANGED vars
  BY <1>1 DEF vars, ledger, Inv, TypeOK, HolderIsAlone, HolderIsOnTrack, LedgerIsTrue,
              ServingPodsHaveTheirSchema
<1>2. CASE Next
  BY <1>2, StepInv, FaultInv, ReaderInv, RepairInv DEF Next
<1> QED
  BY <1>1, <1>2

LEMMA Invariance == Spec => []Inv
BY InitInv, NextInv, PTL DEF Spec

-----------------------------------------------------------------------------
\* The variables keep their types: `up` never runs a file its release does not embed,
\* and a repair never takes the ledger below the first version.
THEOREM TypeCorrect == Spec => []TypeOK
<1>1. Inv => TypeOK
  BY DEF Inv
<1> QED
  BY <1>1, Invariance, PTL

\* The ledger names what has been applied, to within the one file that is in doubt.
THEOREM LedgerNamesTheSchema == Spec => []LedgerIsTrue
<1>1. Inv => LedgerIsTrue
  BY DEF Inv
<1> QED
  BY <1>1, Invariance, PTL

\* No pod serves on a schema older than its release.
THEOREM SchemaBeforeServing == Spec => []ServingPodsHaveTheirSchema
<1>1. Inv => ServingPodsHaveTheirSchema
  BY DEF Inv
<1> QED
  BY <1>1, Invariance, PTL

\* On a dirty ledger that no container is about to clean, a container does nothing but come
\* and go.
LEMMA ContainersAreRefused ==
  ASSUME Inv, dirty, ~MidFile, NEW p \in Pods, Step(p) \/ Fault(p)
  PROVE  /\ UNCHANGED <<ledger, schema>>
         /\ \A q \in Pods : pc'[q] = "serving" => pc[q] = "serving"
<1>1. pc[p] \notin {"mark", "run", "queued", "unmark"}
  BY DEF Inv, HolderIsOnTrack, MidFile
<1>2. StartContainer(p) \/ Lock(p) \/ Check(p) \/ Fault(p)
  BY <1>1 DEF Step, Mark, Queue, RunFile, MayRun, Unmark
<1>3. UNCHANGED <<ledger, schema>>
  BY <1>2 DEF StartContainer, Lock, Check, Fault, LockUnavailable, FileFails, LockTimeout, Crash
<1>4. PICK step \in {"lock", "check", "backoff", "killed"} : Goto(p, step)
  BY <1>2 DEF StartContainer, Lock, Check, Fault, LockUnavailable, FileFails, LockTimeout, Crash,
              Exit
<1> QED
  BY <1>3, <1>4 DEF Goto, Inv, TypeOK

\* A failed file stops the rollout until a human repairs the ledger, for any number of
\* pods and releases: no retry of an init container ever gets past it.
THEOREM FailuresStopTheRollout == Spec => OnlyARepairEndsTheStop
<1>1. ASSUME Inv, [Next]_vars
      PROVE  [dirty /\ ~MidFile =>
                \/ Repair
                \/ /\ UNCHANGED <<ledger, schema>>
                   /\ \A p \in Pods : pc'[p] = "serving" => pc[p] = "serving"]_vars
  <2>1. ASSUME NEW r \in Readers, Read(r) \/ ReadEnds(r) PROVE UNCHANGED <<ledger, schema, pc>>
    BY <2>1 DEF Read, ReadEnds
  <2> QED
    BY <1>1, <2>1, ContainersAreRefused DEF Next
<1> QED
  BY <1>1, Invariance, PTL DEF Spec, OnlyARepairEndsTheStop
=============================================================================
