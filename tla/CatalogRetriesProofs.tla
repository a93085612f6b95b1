------------------------ MODULE CatalogRetriesProofs ------------------------
(***************************************************************************)
(* What the guards achieve for commands that are sent again, for any       *)
(* number of operators and of sendings.                                    *)
(*                                                                         *)
(* The history of CatalogRetries says which row a command has changed      *)
(* already.  The invariant says what can be seen of it in that row: some   *)
(* of it (a version, a status that is no longer DRAFT) for ever, the rest  *)
(* until another command changes the row.                                  *)
(***************************************************************************)
EXTENDS CatalogRetries, CatalogRefinementProofs

Creates == {"CREATE", "CREATE CATEGORY"}

\* The row a command has changed is one of its table, and the one it still asks for
\* (a create asks for a new one each time).
TargetFits(o) ==
  /\ pc[o] \in {"idle", "editing"} => tookEffect[o] = NoTarget
  /\ tookEffect[o] # NoTarget =>
       /\ request[o].op \in ProductCommands
            => tookEffect[o] \in Products /\ Exists(tookEffect[o])
       /\ request[o].op \in CategoryCommands => tookEffect[o] \in Categories
       /\ request[o].op \notin Creates => request[o].id = tookEffect[o]

\* What no later command takes back.
LeavesItsMark(o) ==
  tookEffect[o] # NoTarget =>
    /\ request[o].op = "UPDATE" => product[tookEffect[o]].version > request[o].version
    /\ request[o].op \in LifecycleAction => product[tookEffect[o]].status # "DRAFT"

\* What stays until the row is changed again.
StaysUntilOvertaken(o) ==
  tookEffect[o] # NoTarget /\ ~overtaken[o] =>
    /\ request[o].op = "ARCHIVE" => product[tookEffect[o]].status = "ARCHIVED"
    /\ request[o].op = "RESTORE" => product[tookEffect[o]].status = "ACTIVE"
    /\ request[o].op = "CREATE" => product[tookEffect[o]].name = request[o].name
    /\ request[o].op = "CREATE CATEGORY" => category[tookEffect[o]] = request[o].category

\* A create writes the name it was asked for.
CreatesByName(o) ==
  request[o].op = "CREATE" /\ (pc[o] = "indexNewRow" \/ HasWritten(o))
    => txn[o].after.name = request[o].name

History(o) ==
  TargetFits(o) /\ LeavesItsMark(o) /\ StaysUntilOvertaken(o) /\ CreatesByName(o)

RetryInv ==
  /\ tookEffect \in [Operators -> Targets \cup {NoTarget}]
  /\ overtaken \in [Operators -> BOOLEAN]
  /\ \A o \in Operators : History(o)

AllInv == Inv /\ NamesInv /\ ReadyInv

-----------------------------------------------------------------------------
(* The writers' own invariants hold, whatever is remembered of their steps. *)

LEMMA RetryStepIsNext == [RetryNext]_retryVars => [Next]_vars
BY DEF RetryNext, Next, retryVars

LEMMA RetriesAreCommands == RetrySpec => Spec
BY RetryStepIsNext, PTL DEF RetrySpec, RetryInit, Spec

-----------------------------------------------------------------------------
(* What a COMMIT does, and that nothing else does it. *)

LEMMA CommitIsNext ==
  ASSUME NEW o \in Operators, Commit(o)
  PROVE  [Next]_vars
BY DEF Next, Step

LEMMA CommitIsAudited ==
  ASSUME Inv, NEW o \in Operators, Commit(o)
  PROVE  audit' # audit
<1> DEFINE id == request[o].id
<1>1. /\ id \in Targets /\ txn[o].entries = <<EntryOf(o)>> /\ EntryOf(o) \in AuditEntry
  BY AtCommit DEF Inv, Targets
<1>2. audit[id] \in Seq(AuditEntry)
  BY <1>1 DEF Inv, TypeOK
<1>3. audit'[id] = audit[id] \o <<EntryOf(o)>>
  BY <1>1 DEF Commit, Inv, TypeOK
<1>4. Len(audit[id] \o <<EntryOf(o)>>) # Len(audit[id])
  BY <1>1, <1>2
<1> QED
  BY <1>3, <1>4

\* Where a legal transition leads depends on the action alone.
LEMMA LegalMove ==
  ASSUME NEW from, NEW action \in LifecycleAction,
         NextStatus(from, action) # ErrInvalidTransition
  PROVE  NextStatus(from, action) = IF action = "ARCHIVE" THEN "ARCHIVED" ELSE "ACTIVE"
BY DEF NextStatus, LifecycleAction

\* What the command of o, committed, has made of its row.
LEMMA CommitLeavesItsMark ==
  ASSUME AllInv, NEW o \in Operators, Commit(o), CreatesByName(o)
  PROVE  LET t == request[o].id
         IN /\ t \in Targets
            /\ request[o].op \in ProductCommands => t \in Products /\ product'[t].version > 0
            /\ request[o].op \in CategoryCommands => t \in Categories
            /\ request[o].op = "UPDATE" => product'[t].version > request[o].version
            /\ request[o].op \in LifecycleAction =>
                 product'[t].status = IF request[o].op = "ARCHIVE" THEN "ARCHIVED" ELSE "ACTIVE"
            /\ request[o].op = "CREATE" => product'[t].name = request[o].name
            /\ request[o].op = "CREATE CATEGORY" => category'[t] = request[o].category
<1> DEFINE t == request[o].id
<1> USE DEF AllInv, Inv
<1>1. CASE request[o].op \in ProductCommands
  <2>1. /\ t \in Products /\ txn[o].before = product[t] /\ txn[o].after \in Row
        /\ txn[o].after.version = txn[o].before.version + 1 /\ product[t] \in Row
        /\ request[o].op \notin CategoryCommands
    BY <1>1, AtCommit DEF TypeOK, ProductCommands, CategoryCommands, LifecycleAction
  <2>2. product'[t] = txn[o].after
    BY <1>1, <2>1 DEF Commit, TypeOK
  <2>3. WriteIsOneStep(o) /\ HasWritten(o)
    BY <1>1 DEF TransactionsAreSound, HasWritten, Commit, At
  <2>4. product'[t].version = product[t].version + 1 /\ product[t].version \in Nat
    BY <2>1, <2>2 DEF Row
  <2>5. request[o].op = "UPDATE" => product'[t].version > request[o].version
    BY <2>1, <2>3, <2>4 DEF WriteIsOneStep
  <2>6. ASSUME request[o].op \in LifecycleAction
        PROVE  product'[t].status = IF request[o].op = "ARCHIVE" THEN "ARCHIVED" ELSE "ACTIVE"
    <3>1. /\ NextStatus(product[t].status, request[o].op) # ErrInvalidTransition
          /\ product'[t] = MovedRow(product[t], NextStatus(product[t].status, request[o].op))
      BY <2>1, <2>2, <2>3, <2>6 DEF WriteIsOneStep
    <3>2. product'[t].status = NextStatus(product[t].status, request[o].op)
      BY <3>1 DEF MovedRow
    <3>3. NextStatus(product[t].status, request[o].op)
            = IF request[o].op = "ARCHIVE" THEN "ARCHIVED" ELSE "ACTIVE"
      BY <2>6, <3>1, LegalMove
    <3> QED
      BY <3>2, <3>3
  <2>7. request[o].op = "CREATE" => product'[t].name = request[o].name
    BY <2>2, <2>3 DEF CreatesByName
  <2>8. product'[t].version > 0
    BY <2>4
  <2>9. t \in Targets /\ request[o].op # "CREATE CATEGORY"
    BY <1>1, <2>1 DEF Targets, CategoryCommands
  <2> QED
    BY <2>1, <2>5, <2>6, <2>7, <2>8, <2>9
<1>2. CASE request[o].op \notin ProductCommands
  <2>1. /\ t \in Categories /\ request[o].op \in CategoryCommands
        /\ category' = [category EXCEPT ![t] = request[o].category]
    BY <1>2, ReadyToCommit
  <2> QED
    BY <1>2, <2>1 DEF TypeOK, Targets, ProductCommands, CategoryCommands
<1> QED
  BY <1>1, <1>2

\* What the COMMIT of o leaves of the other rows, and of its own.
LEMMA CommitLeavesTheRest ==
  ASSUME AllInv, NEW o \in Operators, Commit(o)
  PROVE  /\ \A p \in Products : p # request[o].id => product'[p] = product[p]
         /\ \A c \in Categories : c # request[o].id => category'[c] = category[c]
         /\ \A p \in Products : Exists(p) =>
              /\ product'[p].version >= product[p].version /\ product'[p].version > 0
              /\ product[p].status # "DRAFT" => product'[p].status # "DRAFT"
<1> USE DEF AllInv, Inv
<1>1. \A p \in Products : p # request[o].id => product'[p] = product[p]
  BY CommitStep
<1>2. \A c \in Categories : c # request[o].id => category'[c] = category[c]
  BY DEF Commit, TypeOK
<1>3. ASSUME NEW p \in Products, Exists(p), product'[p] # product[p]
      PROVE  /\ product'[p].version = product[p].version + 1
             /\ product[p].status # "DRAFT" => product'[p].status # "DRAFT"
  <2>1. /\ product'[p].version = product[p].version + 1
        /\ \/ request[o].op = "CREATE" /\ product[p].version = 0
           \/ product'[p].status = product[p].status
           \/ /\ NextStatus(product[p].status, request[o].op) # ErrInvalidTransition
              /\ product'[p].status = NextStatus(product[p].status, request[o].op)
    BY <1>3, CommitStep
  <2>2. product[p].version # 0
    BY <1>3 DEF Exists
  <2> QED
    BY <2>1, <2>2 DEF NextStatus
<1>4. \A p \in Products : product[p].version \in Nat
  BY DEF TypeOK, Row
<1> QED
  BY <1>1, <1>2, <1>3, <1>4 DEF Exists

-----------------------------------------------------------------------------
(* The commands that are refused the second time. *)

\* A command that has taken effect and is at its COMMIT again.
LEMMA SecondEffect ==
  ASSUME AllInv, NEW o \in Operators, History(o), Commit(o), tookEffect[o] # NoTarget
  PROVE  \/ request[o].op = "UPDATE CATEGORY"
         \/ /\ request[o].op \in {"CREATE", "CREATE CATEGORY", "ARCHIVE", "RESTORE"}
            /\ overtaken[o]
<1> DEFINE t == tookEffect[o]
           op == request[o].op
           id == request[o].id
<1> USE DEF AllInv, Inv
<1>1. TargetFits(o) /\ LeavesItsMark(o) /\ StaysUntilOvertaken(o) /\ CreatesByName(o)
  BY DEF History
<1>2. op \in ProductCommands \cup CategoryCommands
  BY AtCommit
<1>3. op \in ProductCommands =>
        /\ id \in Products /\ t \in Products /\ Exists(t) /\ txn[o].before = product[id]
        /\ WriteIsOneStep(o) /\ HasWritten(o)
  BY <1>1, AtCommit
  DEF TargetFits, TransactionsAreSound, HasWritten, Commit, At, ProductCommands,
      CategoryCommands, LifecycleAction
<1>4. op # "UPDATE"
  <2> SUFFICES ASSUME op = "UPDATE" PROVE FALSE
    OBVIOUS
  <2>1. id = t /\ product[t].version > request[o].version
    BY <1>1 DEF TargetFits, LeavesItsMark, Creates
  <2>2. product[id].version = request[o].version
    BY <1>3 DEF WriteIsOneStep, ProductCommands
  <2>3. request[o].version \in Nat
    BY DEF TypeOK, Request
  <2> QED
    BY <2>1, <2>2, <2>3
<1>5. ASSUME op \in LifecycleAction PROVE op # "PUBLISH" /\ overtaken[o]
  <2>1. id = t /\ product[t].status # "DRAFT" /\ op \in ProductCommands
    BY <1>1, <1>5 DEF TargetFits, LeavesItsMark, Creates, LifecycleAction, ProductCommands
  <2>2. NextStatus(product[t].status, op) # ErrInvalidTransition
    BY <1>3, <1>5, <2>1 DEF WriteIsOneStep
  <2>3. op # "PUBLISH" /\ product[t].status # IF op = "ARCHIVE" THEN "ARCHIVED" ELSE "ACTIVE"
    BY <1>5, <2>1, <2>2 DEF NextStatus, LifecycleAction
  <2> QED
    BY <1>1, <1>5, <2>3 DEF StaysUntilOvertaken, LifecycleAction
<1>6. ASSUME op = "CREATE" PROVE overtaken[o]
  <2>1. op \in ProductCommands
    BY <1>6 DEF ProductCommands
  <2>2. product[id] = NoRow /\ txn[o].after.name = request[o].name
    BY <1>1, <1>3, <1>6, <2>1 DEF WriteIsOneStep, CreatesByName
  <2>3. t # id
    BY <1>3, <2>1, <2>2 DEF Exists, NoRow
  <2>4. product[t].name # request[o].name
    BY <1>3, <2>1, <2>2, <2>3 DEF NamesInv, ProductNamesInv, ProductNamesAreClaimed
  <2> QED
    BY <1>1, <1>6, <2>4 DEF StaysUntilOvertaken
<1>7. ASSUME op = "CREATE CATEGORY" PROVE overtaken[o]
  <2>1. op \in CategoryCommands /\ op \notin ProductCommands
    BY <1>7 DEF CategoryCommands, ProductCommands, LifecycleAction
  <2>2. category[id] = NoName /\ request[o].category \in CategoryNames /\ t \in Categories
    BY <1>1, <1>7, <2>1, ReadyToCommit DEF TargetFits
  <2>3. t # id => category[t] # request[o].category
    BY <2>1, <2>2
    DEF NamesInv, CategoryNamesInv, CategoryNamesAreClaimed, HasNamedCategory, Commit, At
  <2>4. request[o].category # NoName
    BY <2>2, DataAssumption
  <2>5. category[t] # request[o].category
    BY <2>2, <2>3, <2>4
  <2> QED
    BY <1>1, <1>7, <2>5 DEF StaysUntilOvertaken
<1> QED
  BY <1>2, <1>4, <1>5, <1>6, <1>7 DEF ProductCommands, CategoryCommands, LifecycleAction

-----------------------------------------------------------------------------
(* The invariant. *)

\* Nothing has been sent.
LEMMA RetryInvInit == RetryInit => RetryInv
BY DEF RetryInit, Init, RetryInv, History, TargetFits, LeavesItsMark, StaysUntilOvertaken,
       CreatesByName, HasWritten

\* A step of o that commits nothing leaves the others' history as it is.
LEMMA HistoryStays ==
  ASSUME NEW x \in Operators, History(x), UNCHANGED <<product, category>>,
         pc'[x] = pc[x], request'[x] = request[x], txn'[x] = txn[x],
         tookEffect'[x] = tookEffect[x], overtaken'[x] = overtaken[x]
  PROVE  History(x)'
BY DEF History, TargetFits, LeavesItsMark, StaysUntilOvertaken, CreatesByName, HasWritten,
       Exists

\* The COMMIT of another operator.
LEMMA OthersCommit ==
  ASSUME AllInv, NEW o \in Operators, Commit(o), NEW x \in Operators, x # o, History(x),
         tookEffect'[x] = tookEffect[x],
         overtaken'[x] = (overtaken[x] \/ tookEffect[x] = request[o].id)
  PROVE  History(x)'
<1> DEFINE t == tookEffect[x]
<1>1. pc'[x] = pc[x] /\ request'[x] = request[x] /\ txn'[x] = txn[x]
  BY DEF Commit, AllInv, Inv, TypeOK
<1>2. /\ \A p \in Products : p # request[o].id => product'[p] = product[p]
      /\ \A c \in Categories : c # request[o].id => category'[c] = category[c]
      /\ \A p \in Products : Exists(p) =>
           /\ product'[p].version >= product[p].version /\ product'[p].version > 0
           /\ product[p].status # "DRAFT" => product'[p].status # "DRAFT"
  BY CommitLeavesTheRest
<1>3. TargetFits(x) /\ LeavesItsMark(x) /\ StaysUntilOvertaken(x) /\ CreatesByName(x)
  BY DEF History
<1>4. TargetFits(x)'
  BY <1>1, <1>2, <1>3 DEF TargetFits, Exists
<1>5. t # NoTarget /\ request[x].op \in ProductCommands => t \in Products /\ Exists(t)
  BY <1>3 DEF TargetFits
<1>6. LeavesItsMark(x)'
  <2>1. t # NoTarget /\ request[x].op = "UPDATE" => product'[t].version > request[x].version
    <3> SUFFICES ASSUME t # NoTarget, request[x].op = "UPDATE"
                 PROVE  product'[t].version > request[x].version
      OBVIOUS
    <3>1. t \in Products /\ Exists(t) /\ product[t].version > request[x].version
      BY <1>3, <1>5 DEF LeavesItsMark, ProductCommands
    <3>2. product'[t].version >= product[t].version
      BY <1>2, <3>1
    <3>3. product[t].version \in Nat /\ request[x].version \in Nat /\ product'[t].version \in Nat
      BY <3>1, StepInv, CommitIsNext DEF AllInv, Inv, TypeOK, Row, Request
    <3> QED
      BY <3>1, <3>2, <3>3
  <2>2. t # NoTarget /\ request[x].op \in LifecycleAction => product'[t].status # "DRAFT"
    BY <1>2, <1>3, <1>5 DEF LeavesItsMark, ProductCommands
  <2> QED
    BY <1>1, <2>1, <2>2 DEF LeavesItsMark
<1>7. StaysUntilOvertaken(x)'
  <2> SUFFICES ASSUME t # NoTarget, ~overtaken'[x] PROVE StaysUntilOvertaken(x)'
    BY DEF StaysUntilOvertaken
  <2>1. t # request[o].id /\ ~overtaken[x]
    OBVIOUS
  <2>2. /\ request[x].op \in ProductCommands => product'[t] = product[t]
        /\ request[x].op \in CategoryCommands => category'[t] = category[t]
    BY <1>2, <1>3, <1>5, <2>1 DEF TargetFits
  <2> QED
    BY <1>1, <1>3, <2>1, <2>2
    DEF StaysUntilOvertaken, ProductCommands, CategoryCommands, LifecycleAction
<1>8. CreatesByName(x)'
  BY <1>1, <1>3 DEF CreatesByName, HasWritten
<1> QED
  BY <1>4, <1>6, <1>7, <1>8 DEF History

\* The COMMIT of its own command.
LEMMA OwnCommit ==
  ASSUME AllInv, NEW o \in Operators, Commit(o), History(o),
         tookEffect'[o] = request[o].id, overtaken'[o] = FALSE
  PROVE  History(o)'
<1>1. pc'[o] = "answered" /\ request' = request
  BY DEF Commit, AllInv, Inv, TypeOK
<1>2. CreatesByName(o)
  BY DEF History
<1>3. CreatesByName(o)'
  BY <1>1 DEF CreatesByName, HasWritten
<1> QED
  BY <1>1, <1>2, <1>3, CommitLeavesItsMark
  DEF History, TargetFits, LeavesItsMark, StaysUntilOvertaken, Exists, ProductCommands,
      CategoryCommands, LifecycleAction

\* A step of o leaves what the others have in hand.
LEMMA OneOperator ==
  ASSUME TypeOK, NEW o \in Operators, NEW x \in Operators, x # o,
         Submit(o) \/ Step(o) \/ Fail(o) \/ DeadlockVictim(o) \/ Respond(o)
  PROVE  pc'[x] = pc[x] /\ request'[x] = request[x] /\ txn'[x] = txn[x]
<1> USE DEF TypeOK
<1>1. CASE Submit(o)
  BY <1>1 DEF Submit, Begin, OpenProduct, SubmitUpdate, SubmitCreate, SubmitTransition,
              SubmitCreateCategory, SubmitUpdateCategory, Resend
<1>2. CASE Step(o)
  <2>1. CASE InsertProduct(o) \/ IndexNewRow(o) \/ InsertCategory(o)
    BY <2>1 DEF InsertProduct, IndexNewRow, InsertCategory, Rollback, Continue
  <2>2. CASE JoinRead(o) \/ LockRow(o) \/ UpdateProduct(o) \/ UniqueName(o)
    BY <2>2 DEF JoinRead, LockRow, UpdateProduct, UniqueName, Rollback, Continue
  <2>3. CASE SelectForUpdate(o) \/ ApplyTransition(o) \/ ForeignKey(o)
    BY <2>3 DEF SelectForUpdate, ApplyTransition, ForeignKey, Rollback, Continue
  <2>4. CASE LockCategory(o) \/ UpdateCategory(o) \/ UniqueCategoryName(o) \/ InsertAudit(o)
    BY <2>4 DEF LockCategory, UpdateCategory, UniqueCategoryName, InsertAudit, Rollback, Continue
  <2>5. CASE Commit(o)
    BY <2>5 DEF Commit
  <2> QED
    BY <1>2, <2>1, <2>2, <2>3, <2>4, <2>5 DEF Step
<1>3. CASE Fail(o) \/ DeadlockVictim(o) \/ Respond(o)
  BY <1>3 DEF Fail, DeadlockVictim, Respond, Rollback
<1> QED
  BY <1>1, <1>2, <1>3

\* The command stays what it is while it runs and when it is sent again; only a create
\* gets a new row.
SameCommand(o) ==
  /\ pc'[o] \notin {"idle", "editing"}
  /\ \A field \in {"op", "name", "category", "version"} :
       request'[o][field] = request[o][field]
  /\ request[o].op \notin Creates => request'[o].id = request[o].id

LEMMA CommandsStay ==
  ASSUME Inv, NEW o \in Operators,
         Resend(o) \/ (Step(o) /\ ~Commit(o)) \/ Fail(o) \/ DeadlockVictim(o)
  PROVE  SameCommand(o)
<1> USE DEF Inv, TypeOK
<1>1. request[o] \in Request
  OBVIOUS
<1>2. CASE Resend(o)
  <2>1. PICK s \in Statements, req \in {request[o], [request[o] EXCEPT !.id = NoTarget]} :
          Begin(o, req, s) /\ (request[o].op \in Creates \/ req = request[o])
    BY <1>2 DEF Resend, Statements, Creates
  <2>2. pc'[o] = s /\ request'[o] = req
    BY <2>1 DEF Begin
  <2> QED
    BY <1>1, <2>1, <2>2 DEF SameCommand, Statements, Request
<1>3. CASE IndexNewRow(o)
  <2>1. request[o].op \in Creates
    BY <1>3 DEF IndexNewRow, At, TransactionsAreSound, CommandFits, Creates
  <2>2. request' = request \/ \E p \in Products : request' = [request EXCEPT ![o].id = p]
    BY <1>3 DEF IndexNewRow, Rollback
  <2>3. pc'[o] \in {"answered", "foreignKey"}
    BY <1>3 DEF IndexNewRow, Rollback, Continue
  <2> QED
    BY <1>1, <2>1, <2>2, <2>3 DEF SameCommand, Request
<1>4. CASE InsertCategory(o)
  <2>1. request[o].op \in Creates
    BY <1>4 DEF InsertCategory, At, TransactionsAreSound, CommandFits, Creates
  <2>2. request' = request \/ \E c \in Categories : request' = [request EXCEPT ![o].id = c]
    BY <1>4 DEF InsertCategory, Rollback
  <2>3. pc'[o] \in {"answered", "insertAudit"}
    BY <1>4 DEF InsertCategory, Rollback, Continue
  <2> QED
    BY <1>1, <2>1, <2>2, <2>3 DEF SameCommand, Request
<1>5. CASE \/ InsertProduct(o) \/ JoinRead(o) \/ LockRow(o) \/ UpdateProduct(o)
           \/ UniqueName(o) \/ SelectForUpdate(o) \/ ApplyTransition(o) \/ ForeignKey(o)
  BY <1>5 DEF SameCommand, InsertProduct, JoinRead, LockRow, UpdateProduct, UniqueName, SelectForUpdate,
              ApplyTransition, ForeignKey, Rollback, Continue
<1>6. CASE \/ LockCategory(o) \/ UpdateCategory(o) \/ UniqueCategoryName(o) \/ InsertAudit(o)
           \/ Fail(o) \/ DeadlockVictim(o)
  BY <1>6 DEF SameCommand, LockCategory, UpdateCategory, UniqueCategoryName, InsertAudit,
              Fail, DeadlockVictim, Rollback, Continue
<1> QED
  BY <1>2, <1>3, <1>4, <1>5, <1>6 DEF Step

\* The row of a create is written under the name it was asked for.
LEMMA CreatesStayNamed ==
  ASSUME Inv, NEW o \in Operators, CreatesByName(o), SameCommand(o),
         Resend(o) \/ (Step(o) /\ ~Commit(o)) \/ Fail(o) \/ DeadlockVictim(o)
  PROVE  CreatesByName(o)'
<1> USE DEF Inv, TypeOK
<1> SUFFICES ASSUME request'[o].op = "CREATE", pc'[o] = "indexNewRow" \/ HasWritten(o)'
             PROVE  txn'[o].after.name = request'[o].name
  BY DEF CreatesByName
<1>1. /\ request[o].op = "CREATE" /\ request'[o].name = request[o].name
      /\ pc'[o] \in {"indexNewRow", "foreignKey", "insertAudit", "commit"}
  BY DEF SameCommand, HasWritten
<1>2. CommandFits(o) /\ txn[o] \in Transaction
  BY DEF TransactionsAreSound
<1>3. CASE InsertProduct(o)
  <2>1. txn'[o].after = [name |-> request[o].name, category |-> CategoryIdOf(request[o].category),
                         status |-> "DRAFT", version |-> 1]
    BY <1>2, <1>3 DEF InsertProduct, Continue, Transaction
  <2> QED
    BY <1>1, <2>1
<1>i. CASE IndexNewRow(o)
  <2>1. pc[o] = "indexNewRow" /\ txn'[o] = txn[o]
    BY <1>1, <1>2, <1>i DEF IndexNewRow, At, Rollback, Continue
  <2> QED
    BY <1>1, <2>1 DEF CreatesByName
<1>4. CASE ForeignKey(o) \/ InsertAudit(o)
  <2>1. HasWritten(o)
    BY <1>1, <1>4 DEF ForeignKey, InsertAudit, At, HasWritten, ProductCommands
  <2>2. txn'[o].after = txn[o].after
    BY <1>2, <1>4 DEF ForeignKey, InsertAudit, Continue, Transaction
  <2> QED
    BY <1>1, <2>1, <2>2 DEF CreatesByName
<1>5. ~(Resend(o) \/ Fail(o) \/ DeadlockVictim(o))
  BY <1>1 DEF Resend, Begin, Fail, DeadlockVictim, Rollback
<1>6. ~(JoinRead(o) \/ LockRow(o) \/ UpdateProduct(o) \/ UniqueName(o)
        \/ SelectForUpdate(o) \/ ApplyTransition(o))
  BY <1>1, <1>2 DEF CommandFits, JoinRead, LockRow, UpdateProduct, UniqueName,
                    SelectForUpdate, ApplyTransition, At, LifecycleAction
<1>7. ~(InsertCategory(o) \/ LockCategory(o) \/ UpdateCategory(o) \/ UniqueCategoryName(o))
  BY <1>1, <1>2 DEF CommandFits, InsertCategory, LockCategory, UpdateCategory,
                    UniqueCategoryName, At
<1> QED
  BY <1>3, <1>i, <1>4, <1>5, <1>6, <1>7 DEF Step

\* A step that commits nothing: the history of its own command.
LEMMA OwnStep ==
  ASSUME Inv, NEW o \in Operators, History(o), UNCHANGED <<product, category>>,
         Submit(o) \/ Step(o) \/ Fail(o) \/ DeadlockVictim(o) \/ Respond(o), ~Commit(o),
         tookEffect'[o] = IF pc'[o] = "idle" THEN NoTarget ELSE tookEffect[o],
         overtaken'[o] = (pc'[o] # "idle" /\ overtaken[o]), overtaken[o] \in BOOLEAN
  PROVE  History(o)'
<1>1. CASE Resend(o) \/ Step(o) \/ Fail(o) \/ DeadlockVictim(o)
  <2>1. SameCommand(o)
    BY <1>1, CommandsStay
  <2>2. CreatesByName(o)'
    BY <1>1, <2>1, CreatesStayNamed DEF History
  <2>3. tookEffect'[o] = tookEffect[o] /\ overtaken'[o] = overtaken[o]
    <3>1. pc'[o] # "idle"
      BY <2>1 DEF SameCommand
    <3> QED
      BY <3>1
  <2>4. /\ request'[o].op = request[o].op /\ request'[o].name = request[o].name
        /\ request'[o].category = request[o].category
        /\ request'[o].version = request[o].version
    BY <2>1 DEF SameCommand
  <2>5. TargetFits(o)'
    BY <2>1, <2>3, <2>4 DEF History, TargetFits, SameCommand, Exists
  <2>6. LeavesItsMark(o)' /\ StaysUntilOvertaken(o)'
    BY <2>3, <2>4 DEF History, LeavesItsMark, StaysUntilOvertaken
  <2> QED
    BY <2>2, <2>5, <2>6 DEF History
<1>2. CASE Respond(o) \/ (Submit(o) /\ ~Resend(o))
  <2>1. tookEffect'[o] = NoTarget
    BY <1>2 DEF Submit, OpenProduct, SubmitUpdate, SubmitCreate, SubmitTransition,
                SubmitCreateCategory, SubmitUpdateCategory, Respond, History, TargetFits,
                Inv, TypeOK
  <2>2. pc'[o] \notin {"indexNewRow", "foreignKey", "insertAudit", "commit"}
    BY <1>2 DEF Submit, OpenProduct, SubmitUpdate, SubmitCreate, SubmitTransition,
                SubmitCreateCategory, SubmitUpdateCategory, Respond, Begin, Inv, TypeOK
  <2> QED
    BY <2>1, <2>2
    DEF History, TargetFits, LeavesItsMark, StaysUntilOvertaken, CreatesByName, HasWritten
<1> QED
  BY <1>1, <1>2

LEMMA RetryInvStep == AllInv /\ RetryInv /\ [RetryNext]_retryVars => RetryInv'
<1> SUFFICES ASSUME AllInv, RetryInv, [RetryNext]_retryVars PROVE RetryInv'
  OBVIOUS
<1> USE DEF AllInv
<1>1. CASE UNCHANGED retryVars
  BY <1>1 DEF retryVars, vars, RetryInv, History, TargetFits, LeavesItsMark,
              StaysUntilOvertaken, CreatesByName, HasWritten, Exists
<1>2. ASSUME NEW o \in Operators, Note(o),
             Submit(o) \/ Step(o) \/ Fail(o) \/ DeadlockVictim(o) \/ Respond(o)
      PROVE  RetryInv'
  <2>1. tookEffect \in [Operators -> Targets \cup {NoTarget}] /\ overtaken \in [Operators -> BOOLEAN]
    BY DEF RetryInv
  <2>2. \A x \in Operators : History(x)
    BY DEF RetryInv
  <2>3. overtaken' \in [Operators -> BOOLEAN]
    BY <1>2, <2>1 DEF Note
  <2>4. [Next]_vars
    BY <1>2 DEF Next
  <2>5. \A x \in Operators : x # o =>
          pc'[x] = pc[x] /\ request'[x] = request[x] /\ txn'[x] = txn[x]
    BY <1>2, OneOperator DEF Inv
  <2>6. CASE Commit(o)
    <3>1. Effect
      BY <2>6, CommitIsAudited DEF Effect
    <3>2. request[o].id \in Targets
      BY <2>6, AtCommit DEF Inv, Targets
    <3>3. /\ tookEffect' = [tookEffect EXCEPT ![o] = request[o].id]
          /\ overtaken'[o] = FALSE
          /\ \A x \in Operators : x # o =>
               overtaken'[x] = (overtaken[x] \/ tookEffect[x] = request[o].id)
      BY <1>2, <3>1 DEF Note
    <3>4. tookEffect' \in [Operators -> Targets \cup {NoTarget}]
      BY <2>1, <3>2, <3>3
    <3>5. History(o)'
      BY <2>1, <2>2, <2>6, <3>3, OwnCommit
    <3>6. ASSUME NEW x \in Operators, x # o PROVE History(x)'
      BY <2>1, <2>2, <2>6, <3>3, <3>6, OthersCommit
    <3> QED
      BY <2>3, <3>4, <3>5, <3>6 DEF RetryInv
  <2>7. CASE ~Commit(o)
    <3>1. \A x \in Operators : ~Commit(x)
      <4> SUFFICES ASSUME NEW x \in Operators, x # o, Commit(x) PROVE FALSE
        BY <2>7
      <4>1. pc[x] = "commit" /\ pc'[x] = "answered"
        BY DEF Commit, At, Inv, TypeOK
      <4> QED
        BY <2>5, <4>1
    <3>2. UNCHANGED <<product, category, audit>>
      BY <2>4, <3>1, OnlyCommitsWrite, OnlyCommitsName
    <3>3. /\ tookEffect' = [tookEffect EXCEPT ![o] = IF pc'[o] = "idle" THEN NoTarget ELSE @]
          /\ overtaken'[o] = (pc'[o] # "idle" /\ overtaken[o])
          /\ \A x \in Operators : x # o => overtaken'[x] = overtaken[x]
      BY <1>2, <2>1, <3>2 DEF Note, Effect
    <3>4. tookEffect' \in [Operators -> Targets \cup {NoTarget}]
      BY <2>1, <3>3
    <3>5. History(o)'
      BY <1>2, <2>1, <2>2, <2>7, <3>2, <3>3, OwnStep
    <3>6. ASSUME NEW x \in Operators, x # o PROVE History(x)'
      BY <2>1, <2>2, <2>5, <3>2, <3>3, <3>6, HistoryStays
    <3> QED
      BY <2>3, <3>4, <3>5, <3>6 DEF RetryInv
  <2> QED
    BY <2>6, <2>7
<1> QED
  BY <1>1, <1>2 DEF RetryNext

\* The invariant holds in every reachable state.
THEOREM RetryInvariance == RetrySpec => [](AllInv /\ RetryInv)
<1>1. RetrySpec => []AllInv
  BY RetriesAreCommands, ReadyInvariance, PTL DEF AllInv
<1> QED
  BY <1>1, RetryInvInit, RetryInvStep, PTL DEF RetrySpec

\* A command sent again after an error takes effect a second time only where another
\* command has changed the row in between, and an edit or a PUBLISH never; the rename of
\* a category alone happens again unguarded.
THEOREM SecondEffectsAreOvertaken == RetrySpec => RepeatsAreOvertaken
<1>1. AllInv /\ RetryInv
        => \A o \in Operators :
             Commit(o) /\ tookEffect[o] # NoTarget
               => \/ request[o].op = "UPDATE CATEGORY"
                  \/ /\ request[o].op \in {"CREATE", "CREATE CATEGORY", "ARCHIVE", "RESTORE"}
                     /\ overtaken[o]
  BY SecondEffect DEF RetryInv
<1> QED
  BY <1>1, RetryInvariance, PTL DEF RepeatsAreOvertaken
=============================================================================
