------------------------- MODULE CatalogAdminProofs -------------------------
(***************************************************************************)
(* Theorems about CatalogAdmin, for every set of operators, products,      *)
(* names and categories and every bound on the requests.                   *)
(***************************************************************************)
EXTENDS CatalogAdmin, SequenceTheorems, TLAPS

-----------------------------------------------------------------------------
(* Type correctness. *)

\* The lifecycle table returns a stored state or the error.
LEMMA NextStatusType ==
  ASSUME NEW from, NEW action
  PROVE  NextStatus(from, action) \in ProductStatus \cup {ErrInvalidTransition}
BY DEF NextStatus, ProductStatus, ErrInvalidTransition

\* The sub-select on a category name gives a category's id or NULL.
LEMMA CategoryIdOfType ==
  ASSUME NEW name
  PROVE  CategoryIdOf(name) \in Categories \cup {NoCategory}
BY DEF CategoryIdOf

\* The join gives a category's name or the empty string.
LEMMA CategoryNameOfType ==
  ASSUME TypeOK, NEW c \in Categories \cup {NoCategory}
  PROVE  CategoryNameOf(c) \in CategoryNames \cup {NoName}
BY DEF CategoryNameOf, TypeOK

\* The values with nothing in them are well typed.
LEMMA NothingType ==
  /\ NoRow \in Row
  /\ NoRequest \in Request
  /\ NoTransaction \in Transaction
<1>1. NoRow \in Row
  BY DEF NoRow, Row
<1>2. NoRequest \in Request
  BY DEF NoRequest, Request
<1>3. <<>> \in Seq(AuditEntry)
  OBVIOUS
<1>4. NoTransaction \in Transaction
  BY <1>1, <1>3 DEF NoTransaction, Transaction
<1> QED
  BY <1>1, <1>2, <1>4

\* A row moved to another status is a row.
LEMMA MovedRowType ==
  ASSUME NEW row \in Row, NEW status \in ProductStatus
  PROVE  MovedRow(row, status) \in Row
BY DEF MovedRow, Row

\* A rolled back transaction keeps the types.
LEMMA RollbackType ==
  ASSUME TypeOK, NEW o \in Operators, NEW err \in Answers, Rollback(o, err)
  PROVE  TypeOK'
BY NothingType DEF TypeOK, Rollback, Locations

\* A statement that stays in its transaction keeps the types.
LEMMA ContinueType ==
  ASSUME TypeOK, NEW o \in Operators, NEW t \in Transaction, NEW next \in Statements,
         Continue(o, t, next), request' \in [Operators -> Request]
  PROVE  TypeOK'
BY DEF TypeOK, Continue, Locations

\* The start of a transaction keeps the types.
LEMMA BeginType ==
  ASSUME TypeOK, NEW o \in Operators, NEW req \in Request, NEW s \in Statements,
         Begin(o, req, s)
  PROVE  TypeOK'
<1>1. [NoTransaction EXCEPT !.start = clock] \in Transaction
  BY NothingType DEF TypeOK, Transaction
<1> QED
  BY <1>1 DEF TypeOK, Begin, Locations

\* The audit row of a command is well typed.
LEMMA EntryOfType ==
  ASSUME TypeOK, NEW o \in Operators,
         request[o].op \in ProductCommands \cup CategoryCommands,
         request[o].op \in LifecycleAction
           => NextStatus(txn[o].before.status, request[o].op) # ErrInvalidTransition
  PROVE  EntryOf(o) \in AuditEntry
<1>1. txn[o] \in Transaction /\ txn[o].before \in Row
  BY DEF TypeOK, Transaction
<1>2. ChangedFields(o) \in SUBSET {"name", "category", "status"}
  BY DEF ChangedFields
<1>3. request[o].op \in LifecycleAction
        => NextStatus(txn[o].before.status, request[o].op) \in ProductStatus
  BY NextStatusType
<1> QED
  BY <1>1, <1>2, <1>3 DEF EntryOf, AuditEntry, Row, Transaction, NoStatus

-----------------------------------------------------------------------------
(* Type correctness of each action. *)

\* The facts about control that the types of the next state depend on.
Control == TypeOK /\ \A o \in Operators : CommandFits(o) /\ WriteIsOneStep(o)

\* Statements at which nothing is held and nothing has been read or written.
Unstarted == {"insertProduct", "joinRead", "selectForUpdate", "insertCategory", "lockCategory"}

\* A request of any kind keeps the types.
LEMMA SubmitType ==
  ASSUME TypeOK, NEW o \in Operators, Submit(o)
  PROVE  TypeOK'
<1>1. CASE OpenProduct(o)
  <2>1. PICK p \in Products : request' = [request EXCEPT ![o] =
            [NoRequest EXCEPT !.op = "UPDATE", !.id = p, !.name = product[p].name,
                              !.category = CategoryNameOf(product[p].category),
                              !.version = product[p].version]]
    BY <1>1 DEF OpenProduct
  <2>2. product[p] \in Row
    BY DEF TypeOK
  <2>3. CategoryNameOf(product[p].category) \in CategoryNames \cup {NoName}
    BY <2>2, CategoryNameOfType DEF Row
  <2>4. request'[o] \in Request
    BY <2>1, <2>2, <2>3 DEF TypeOK, Request, NoRequest, Row, ProductCommands, Targets
  <2> QED
    BY <1>1, <2>1, <2>4 DEF OpenProduct, TypeOK, Locations
<1>2. CASE SubmitUpdate(o)
  <2>1. PICK name \in Names, label \in CategoryNames \cup {NoName} :
          Begin(o, [request[o] EXCEPT !.name = name, !.category = label], "joinRead")
    BY <1>2 DEF SubmitUpdate
  <2>2. [request[o] EXCEPT !.name = name, !.category = label] \in Request
    BY DEF TypeOK, Request
  <2>3. "joinRead" \in Statements
    BY DEF Statements
  <2> QED
    BY <2>1, <2>2, <2>3, BeginType
<1>3. CASE SubmitCreate(o)
  <2>1. PICK name \in Names, label \in CategoryNames \cup {NoName} :
          Begin(o, [NoRequest EXCEPT !.op = "CREATE", !.name = name, !.category = label],
                "insertProduct")
    BY <1>3 DEF SubmitCreate
  <2>2. [NoRequest EXCEPT !.op = "CREATE", !.name = name, !.category = label] \in Request
    BY DEF Request, NoRequest, ProductCommands
  <2>3. "insertProduct" \in Statements
    BY DEF Statements
  <2> QED
    BY <2>1, <2>2, <2>3, BeginType
<1>4. CASE SubmitTransition(o)
  <2>1. PICK p \in Products, action \in LifecycleAction :
          Begin(o, [NoRequest EXCEPT !.op = action, !.id = p], "selectForUpdate")
    BY <1>4 DEF SubmitTransition
  <2>2. [NoRequest EXCEPT !.op = action, !.id = p] \in Request
    BY DEF Request, NoRequest, ProductCommands, Targets
  <2>3. "selectForUpdate" \in Statements
    BY DEF Statements
  <2> QED
    BY <2>1, <2>2, <2>3, BeginType
<1>5. CASE SubmitCreateCategory(o)
  <2>1. PICK name \in CategoryNames :
          Begin(o, [NoRequest EXCEPT !.op = "CREATE CATEGORY", !.category = name],
                "insertCategory")
    BY <1>5 DEF SubmitCreateCategory
  <2>2. [NoRequest EXCEPT !.op = "CREATE CATEGORY", !.category = name] \in Request
    BY DEF Request, NoRequest, CategoryCommands
  <2>3. "insertCategory" \in Statements
    BY DEF Statements
  <2> QED
    BY <2>1, <2>2, <2>3, BeginType
<1>6. CASE SubmitUpdateCategory(o)
  <2>1. PICK c \in Categories, name \in CategoryNames :
          Begin(o, [NoRequest EXCEPT !.op = "UPDATE CATEGORY", !.id = c, !.category = name],
                "lockCategory")
    BY <1>6 DEF SubmitUpdateCategory
  <2>2. [NoRequest EXCEPT !.op = "UPDATE CATEGORY", !.id = c, !.category = name] \in Request
    BY DEF Request, NoRequest, CategoryCommands, Targets
  <2>3. "lockCategory" \in Statements
    BY DEF Statements
  <2> QED
    BY <2>1, <2>2, <2>3, BeginType
<1>7. CASE Resend(o)
  <2>1. request[o] \in Request /\ [request[o] EXCEPT !.id = NoTarget] \in Request
    BY DEF TypeOK, Request
  <2>2. PICK req \in Request, s \in Unstarted : Begin(o, req, s)
    BY <1>7, <2>1 DEF Resend, Unstarted
  <2> QED
    BY <2>2, BeginType DEF Unstarted, Statements
<1> QED
  BY <1>1, <1>2, <1>3, <1>4, <1>5, <1>6, <1>7 DEF Submit

\* Every statement of a transaction keeps the types.
LEMMA StepType ==
  ASSUME Control, NEW o \in Operators, Step(o)
  PROVE  TypeOK'
<1> USE DEF Control
<1>t. /\ txn[o] \in Transaction /\ request[o] \in Request
      /\ txn[o].before \in Row /\ txn[o].after \in Row
      /\ request \in [Operators -> Request]
  BY DEF TypeOK, Transaction
<1>a. {"NotFound", "VersionConflict", "Conflict", "InvalidTransition", "Internal", "ok"} \subseteq Answers
  BY DEF Answers
<1>s. /\ "indexNewRow" \in Statements
      /\ "lockRow" \in Statements /\ "updateProduct" \in Statements
      /\ "uniqueName" \in Statements /\ "applyTransition" \in Statements
      /\ "foreignKey" \in Statements /\ "updateCategory" \in Statements
      /\ "uniqueCategoryName" \in Statements /\ "insertAudit" \in Statements
      /\ "commit" \in Statements
  BY DEF Statements
<1>r. \A p \in Products : product[p] \in Row
  BY DEF TypeOK
<1>e. \A err \in Answers : Rollback(o, err) => TypeOK'
  BY RollbackType
<1>k. \A t \in Transaction, n \in Statements :
        Continue(o, t, n) /\ request' \in [Operators -> Request] => TypeOK'
  BY ContinueType
<1>1. CASE InsertProduct(o)
  <2> DEFINE row == [name |-> request[o].name, category |-> CategoryIdOf(request[o].category),
                     status |-> "DRAFT", version |-> 1]
             t == [txn[o] EXCEPT !.after = row]
  <2>1. row \in Row
    BY <1>t, CategoryIdOfType DEF Row, Request, ProductStatus
  <2>2. t \in Transaction
    BY <2>1, <1>t DEF Transaction
  <2>3. Continue(o, t, "indexNewRow") /\ UNCHANGED request
    BY <1>1 DEF InsertProduct
  <2> QED
    BY <2>2, <2>3, <1>s, <1>k, <1>t
<1>i. CASE IndexNewRow(o)
  <2>1. CASE Rollback(o, "Conflict") \/ Rollback(o, "Internal")
    BY <2>1, <1>a, <1>e
  <2>2. CASE ~(Rollback(o, "Conflict") \/ Rollback(o, "Internal"))
    <3>1. PICK p \in Products : request' = [request EXCEPT ![o].id = p]
      BY <1>i, <2>2 DEF IndexNewRow
    <3>2. request' \in [Operators -> Request]
      BY <3>1, <1>t DEF Request, Targets
    <3>3. Continue(o, txn[o], "foreignKey")
      BY <1>i, <2>2 DEF IndexNewRow
    <3> QED
      BY <3>2, <3>3, <1>t, <1>s, <1>k
  <2> QED
    BY <2>1, <2>2
<1>2. CASE JoinRead(o)
  <2>1. request[o].id \in Products
    BY <1>2 DEF JoinRead, At, CommandFits
  <2> DEFINE row == product[request[o].id]
             t == [txn[o] EXCEPT !.before = row, !.label = CategoryNameOf(row.category)]
  <2>2. row \in Row
    BY <2>1, <1>r
  <2>3. CategoryNameOf(row.category) \in CategoryNames \cup {NoName}
    BY <2>2, CategoryNameOfType DEF Row
  <2>4. t \in Transaction
    BY <2>2, <2>3, <1>t DEF Transaction
  <2>5. Rollback(o, "NotFound") \/ (Continue(o, t, "lockRow") /\ UNCHANGED request)
    BY <1>2 DEF JoinRead
  <2> QED
    BY <2>4, <2>5, <1>a, <1>s, <1>e, <1>k, <1>t
<1>3. CASE LockRow(o)
  <2>1. request[o].id \in Products
    BY <1>3 DEF LockRow, At, CommandFits
  <2> DEFINE row == product[request[o].id]
             label == IF row.category = txn[o].before.category THEN txn[o].label ELSE NoName
             t == [txn[o] EXCEPT !.before = row, !.label = label]
  <2>2. row \in Row /\ label \in CategoryNames \cup {NoName}
    BY <2>1, <1>r, <1>t DEF Transaction
  <2>4. t \in Transaction
    BY <2>2, <1>t DEF Transaction
  <2>5. Rollback(o, "VersionConflict") \/ (Continue(o, t, "updateProduct") /\ UNCHANGED request)
    BY <1>3 DEF LockRow
  <2> QED
    BY <2>4, <2>5, <1>a, <1>s, <1>e, <1>k, <1>t
<1>4. CASE UpdateProduct(o)
  <2>1. request[o].id \in Products
    BY <1>4 DEF UpdateProduct, At, CommandFits
  <2> DEFINE old == product[request[o].id]
             row == [name |-> request[o].name, category |-> CategoryIdOf(request[o].category),
                     status |-> old.status, version |-> old.version + 1]
             t == [txn[o] EXCEPT !.after = row]
  <2>2. row \in Row
    BY <2>1, <1>r, <1>t, CategoryIdOfType DEF Row, Request
  <2>4. t \in Transaction
    BY <2>2, <1>t DEF Transaction
  <2>5. Rollback(o, "VersionConflict") \/ (Continue(o, t, "uniqueName") /\ UNCHANGED request)
    BY <1>4 DEF UpdateProduct
  <2> QED
    BY <2>4, <2>5, <1>a, <1>s, <1>e, <1>k, <1>t
<1>5. CASE UniqueName(o)
  <2>1. Rollback(o, "Conflict") \/ (Continue(o, txn[o], "foreignKey") /\ UNCHANGED request)
    BY <1>5 DEF UniqueName
  <2> QED
    BY <2>1, <1>a, <1>s, <1>e, <1>k, <1>t
<1>6. CASE SelectForUpdate(o)
  <2>1. request[o].id \in Products
    BY <1>6 DEF SelectForUpdate, At, CommandFits
  <2> DEFINE t == [txn[o] EXCEPT !.before = product[request[o].id]]
  <2>2. t \in Transaction
    BY <2>1, <1>r, <1>t DEF Transaction
  <2>3. \/ Rollback(o, "NotFound") \/ Rollback(o, "InvalidTransition")
        \/ Continue(o, t, "applyTransition") /\ UNCHANGED request
    BY <1>6 DEF SelectForUpdate
  <2> QED
    BY <2>2, <2>3, <1>a, <1>s, <1>e, <1>k, <1>t
<1>7. CASE ApplyTransition(o)
  <2>1. /\ request[o].id \in Products /\ request[o].op \in LifecycleAction
        /\ NextStatus(txn[o].before.status, request[o].op) # ErrInvalidTransition
    BY <1>7 DEF ApplyTransition, At, CommandFits, WriteIsOneStep
  <2> DEFINE old == product[request[o].id]
             row == MovedRow(old, NextStatus(txn[o].before.status, request[o].op))
             t == [txn[o] EXCEPT !.after = row]
  <2>2. NextStatus(txn[o].before.status, request[o].op) \in ProductStatus
    BY <2>1, NextStatusType
  <2>a. old \in Row
    BY <2>1, <1>r
  <2>3. row \in Row
    BY <2>2, <2>a, MovedRowType
  <2>4. t \in Transaction
    BY <2>3, <1>t DEF Transaction
  <2>5. Continue(o, t, "insertAudit") /\ UNCHANGED request
    BY <1>7 DEF ApplyTransition
  <2> QED
    BY <2>4, <2>5, <1>s, <1>k, <1>t
<1>8. CASE ForeignKey(o)
  BY <1>8, <1>s, <1>k, <1>t DEF ForeignKey
<1>9. CASE InsertCategory(o)
  <2>1. CASE Rollback(o, "Conflict") \/ Rollback(o, "Internal")
    BY <2>1, <1>a, <1>e
  <2>2. CASE ~(Rollback(o, "Conflict") \/ Rollback(o, "Internal"))
    <3>1. PICK c \in Categories : request' = [request EXCEPT ![o].id = c]
      BY <1>9, <2>2 DEF InsertCategory
    <3>2. request' \in [Operators -> Request]
      BY <3>1, <1>t DEF Request, Targets
    <3>3. Continue(o, txn[o], "insertAudit")
      BY <1>9, <2>2 DEF InsertCategory
    <3> QED
      BY <3>2, <3>3, <1>s, <1>k, <1>t
  <2> QED
    BY <2>1, <2>2
<1>10. CASE LockCategory(o)
  <2>1. request[o].id \in Categories
    BY <1>10 DEF LockCategory, At, CommandFits
  <2> DEFINE t == [txn[o] EXCEPT !.label = category[request[o].id]]
  <2>2. t \in Transaction
    BY <2>1, <1>t DEF Transaction, TypeOK
  <2>3. Rollback(o, "NotFound") \/ (Continue(o, t, "updateCategory") /\ UNCHANGED request)
    BY <1>10 DEF LockCategory
  <2> QED
    BY <2>2, <2>3, <1>a, <1>s, <1>e, <1>k, <1>t
<1>11. CASE UpdateCategory(o)
  BY <1>11, <1>s, <1>k, <1>t DEF UpdateCategory
<1>12. CASE UniqueCategoryName(o)
  BY <1>12, <1>a, <1>s, <1>e, <1>k, <1>t DEF UniqueCategoryName
<1>13. CASE InsertAudit(o)
  <2>1. /\ request[o].op \in ProductCommands \cup CategoryCommands
        /\ request[o].op \in LifecycleAction
             => NextStatus(txn[o].before.status, request[o].op) # ErrInvalidTransition
    BY <1>13 DEF InsertAudit, At, CommandFits, WriteIsOneStep, HasWritten, ProductCommands
  <2>2. EntryOf(o) \in AuditEntry
    BY <2>1, EntryOfType
  <2>3. Append(txn[o].entries, EntryOf(o)) \in Seq(AuditEntry)
    BY <2>2, <1>t DEF Transaction
  <2> DEFINE t == [txn[o] EXCEPT !.entries = Append(@, EntryOf(o))]
  <2>4. t \in Transaction
    BY <2>3, <1>t DEF Transaction
  <2>5. Continue(o, t, "commit") /\ UNCHANGED request
    BY <1>13 DEF InsertAudit
  <2> QED
    BY <2>4, <2>5, <1>s, <1>k, <1>t
<1>14. CASE Commit(o)
  <2>1. pc' \in [Operators -> Locations] /\ txn' \in [Operators -> Transaction]
    BY <1>14, NothingType DEF Commit, TypeOK, Locations
  <2>2. answer' \in [Operators -> Answers]
    BY <1>14, <1>a DEF Commit, TypeOK
  <2>3. product' \in [Products -> Row]
    BY <1>14, <1>t DEF Commit, TypeOK
  <2>4. category' \in [Categories -> CategoryNames \cup {NoName}]
    BY <1>14, <1>t DEF Commit, TypeOK, Request
  <2>5. txn[o].entries \in Seq(AuditEntry)
    BY <1>t DEF Transaction
  <2>6. \A t \in Targets : audit[t] \o txn[o].entries \in Seq(AuditEntry)
    BY <2>5 DEF TypeOK
  <2>7. audit' \in [Targets -> Seq(AuditEntry)]
    BY <1>14, <2>6 DEF Commit, TypeOK
  <2> QED
    BY <1>14, <2>1, <2>2, <2>3, <2>4, <2>7 DEF Commit, TypeOK
<1> QED
  BY <1>1, <1>i, <1>2, <1>3, <1>4, <1>5, <1>6, <1>7, <1>8, <1>9, <1>10, <1>11, <1>12, <1>13, <1>14
  DEF Step

\* Every step keeps the types.
LEMMA NextType ==
  ASSUME Control, [Next]_vars
  PROVE  TypeOK'
<1>1. CASE UNCHANGED vars
  BY <1>1 DEF Control, TypeOK, vars
<1>2. ASSUME NEW o \in Operators, Submit(o)
      PROVE  TypeOK'
  BY <1>2, SubmitType DEF Control
<1>3. ASSUME NEW o \in Operators, Step(o)
      PROVE  TypeOK'
  BY <1>3, StepType
<1>4. ASSUME NEW o \in Operators, Fail(o) \/ DeadlockVictim(o)
      PROVE  TypeOK'
  BY <1>4, RollbackType DEF Control, Fail, DeadlockVictim, Answers
<1>5. ASSUME NEW o \in Operators, Respond(o)
      PROVE  TypeOK'
  BY <1>5, NothingType DEF Control, Respond, TypeOK, Locations, Answers
<1> QED
  BY <1>1, <1>2, <1>3, <1>4, <1>5 DEF Next

-----------------------------------------------------------------------------
(* Soundness of the transactions: what a transaction read stays committed.  *)

\* The condition on one transaction.
Sound(o) == CommandFits(o) /\ WriteIsOneStep(o) /\ AuditIsPending(o)

\* The audit row of a transaction depends on its own state only.
LEMMA EntryOfLocal ==
  ASSUME NEW x \in Operators, request'[x] = request[x],
         txn'[x].before = txn[x].before, txn'[x].label = txn[x].label,
         txn'[x].start = txn[x].start
  PROVE  EntryOf(x)' = EntryOf(x)
<1>1. ChangedFields(x)' = ChangedFields(x)
  BY DEF ChangedFields
<1> QED
  BY <1>1 DEF EntryOf

\* A transaction that does not move stays sound.
LEMMA StillSound ==
  ASSUME NEW x \in Operators, pc'[x] = pc[x], request'[x] = request[x],
         txn'[x] = txn[x], Sound(x)
  PROVE  Sound(x)'
<1>1. EntryOf(x)' = EntryOf(x)
  BY EntryOfLocal
<1>2. CommandFits(x)'
  BY DEF Sound, CommandFits
<1>3. WriteIsOneStep(x)'
  BY DEF Sound, WriteIsOneStep, HasWritten
<1>4. AuditIsPending(x)'
  BY <1>1 DEF Sound, AuditIsPending
<1> QED
  BY <1>2, <1>3, <1>4 DEF Sound

\* Only o's transaction moves, and nothing is committed.
Local(o) ==
  /\ UNCHANGED <<product, audit>>
  /\ \A x \in Operators : x # o =>
       pc'[x] = pc[x] /\ request'[x] = request[x] /\ txn'[x] = txn[x]

\* A row o holds after its step is one it held before or one nobody held, and
\* o has read it.
LocksFairly(o) ==
  \A p \in Products : HoldsProduct(o, p)' =>
    /\ txn'[o].before = product[p]
    /\ HoldsProduct(o, p) \/ \A x \in Operators : ~HoldsProduct(x, p)

\* A local step that takes locks fairly keeps all transactions sound.
LEMMA LocalStepSound ==
  ASSUME TransactionsAreSound, NEW o \in Operators, Local(o), Sound(o)', LocksFairly(o)
  PROVE  TransactionsAreSound'
<1>1. \A x \in Operators : Sound(x)'
  BY StillSound DEF TransactionsAreSound, Sound, Local
<1>2. \A x \in Operators, p \in Products : x # o => (HoldsProduct(x, p)' <=> HoldsProduct(x, p))
  BY DEF Local, HoldsProduct
<1>3. LocksAreExclusive'
  <2> SUFFICES ASSUME NEW x \in Operators, NEW y \in Operators, NEW p \in Products,
                      HoldsProduct(x, p)', HoldsProduct(y, p)'
               PROVE  x = y
    BY DEF LocksAreExclusive
  <2> QED
    BY <1>2 DEF TransactionsAreSound, LocksAreExclusive, LocksFairly
<1>4. ReadsAreCurrent'
  <2> SUFFICES ASSUME NEW x \in Operators, NEW p \in Products, HoldsProduct(x, p)'
               PROVE  txn'[x].before = product'[p]
    BY DEF ReadsAreCurrent
  <2> QED
    BY <1>2 DEF TransactionsAreSound, ReadsAreCurrent, LocksFairly, Local
<1>5. \A p \in Products : product'[p].version = 0 => product'[p] = NoRow
  BY DEF TransactionsAreSound, Local
<1> QED
  BY <1>1, <1>3, <1>4, <1>5 DEF TransactionsAreSound, Sound

\* An operator that is between commands holds nothing.
LEMMA RollbackSound ==
  ASSUME TypeOK, TransactionsAreSound, NEW o \in Operators, NEW err \in Answers,
         Rollback(o, err)
  PROVE  TransactionsAreSound'
<1>1. Local(o)
  BY DEF Local, Rollback, TypeOK
<1>2. pc'[o] = "answered" /\ txn'[o] = NoTransaction
  BY DEF Rollback, TypeOK
<1>3. Sound(o)'
  BY <1>2 DEF Sound, CommandFits, WriteIsOneStep, HasWritten, AuditIsPending, NoTransaction
<1>4. LocksFairly(o)
  BY <1>2 DEF LocksFairly, HoldsProduct
<1> QED
  BY <1>1, <1>3, <1>4, LocalStepSound

\* The answer to a command leaves its operator holding nothing.
LEMMA RespondSound ==
  ASSUME TypeOK, TransactionsAreSound, NEW o \in Operators, Respond(o)
  PROVE  TransactionsAreSound'
<1>1. Local(o)
  BY DEF Local, Respond, TypeOK
<1>2. pc'[o] = "idle" /\ txn'[o] = txn[o] /\ pc[o] = "answered"
  BY DEF Respond, TypeOK
<1>3. Sound(o)'
  BY <1>2 DEF Sound, TransactionsAreSound, CommandFits, WriteIsOneStep, HasWritten, AuditIsPending
<1>4. LocksFairly(o)
  BY <1>2 DEF LocksFairly, HoldsProduct
<1> QED
  BY <1>1, <1>3, <1>4, LocalStepSound

\* A transaction that has just begun holds no lock and no row.
LEMMA BeginSound ==
  ASSUME TypeOK, TransactionsAreSound, NEW o \in Operators, NEW req \in Request,
         NEW s \in Unstarted, Begin(o, req, s),
         s = "insertProduct" => req.op = "CREATE",
         s = "joinRead" => req.op = "UPDATE" /\ req.id \in Products /\ req.version > 0,
         s = "selectForUpdate" => req.op \in LifecycleAction /\ req.id \in Products,
         s = "insertCategory" => req.op = "CREATE CATEGORY",
         s = "lockCategory" => req.op = "UPDATE CATEGORY" /\ req.id \in Categories
  PROVE  TransactionsAreSound'
<1>1. Local(o)
  BY DEF Local, Begin, TypeOK
<1>2. /\ pc'[o] = s /\ request'[o] = req
      /\ txn'[o] = [NoTransaction EXCEPT !.start = clock]
  BY DEF Begin, TypeOK
<1>3. txn'[o].start = clock /\ txn'[o].entries = <<>>
  BY <1>2 DEF NoTransaction
<1>4. CommandFits(o)'
  BY <1>2, <1>3 DEF CommandFits, Unstarted
<1>5. WriteIsOneStep(o)' /\ AuditIsPending(o)'
  BY <1>2, <1>3 DEF WriteIsOneStep, HasWritten, AuditIsPending, Unstarted
<1>6. LocksFairly(o)
  BY <1>2 DEF LocksFairly, HoldsProduct, Unstarted
<1> QED
  BY <1>1, <1>4, <1>5, <1>6, LocalStepSound DEF Sound

\* A request of any kind keeps all transactions sound.
LEMMA SubmitSound ==
  ASSUME TypeOK, TransactionsAreSound, RequestsFit, NEW o \in Operators, Submit(o)
  PROVE  TransactionsAreSound'
<1>1. CASE OpenProduct(o)
  <2>1. PICK p \in Products : Exists(p) /\ request' = [request EXCEPT ![o] =
            [NoRequest EXCEPT !.op = "UPDATE", !.id = p, !.name = product[p].name,
                              !.category = CategoryNameOf(product[p].category),
                              !.version = product[p].version]]
    BY <1>1 DEF OpenProduct
  <2>2. /\ pc'[o] = "editing" /\ txn'[o] = txn[o]
        /\ request'[o].op = "UPDATE" /\ request'[o].id = p
        /\ request'[o].version = product[p].version
        /\ pc[o] = "idle"
    BY <1>1, <2>1 DEF OpenProduct, TypeOK, NoRequest
  <2>3. Local(o)
    BY <1>1 DEF Local, OpenProduct, TypeOK
  <2>4. Sound(o)'
    BY <2>1, <2>2 DEF Sound, TransactionsAreSound, CommandFits, WriteIsOneStep, HasWritten,
                      AuditIsPending, Exists
  <2>5. LocksFairly(o)
    BY <2>2 DEF LocksFairly, HoldsProduct
  <2> QED
    BY <2>3, <2>4, <2>5, LocalStepSound
<1>2. CASE SubmitUpdate(o)
  <2>1. PICK name \in Names, label \in CategoryNames \cup {NoName} :
          Begin(o, [request[o] EXCEPT !.name = name, !.category = label], "joinRead")
    BY <1>2 DEF SubmitUpdate
  <2> DEFINE req == [request[o] EXCEPT !.name = name, !.category = label]
  <2>2. req \in Request
    BY DEF TypeOK, Request
  <2>3. request[o].op = "UPDATE" /\ request[o].id \in Products /\ request[o].version > 0
    BY <1>2 DEF SubmitUpdate, TransactionsAreSound, CommandFits
  <2>4. req.op = "UPDATE" /\ req.id \in Products /\ req.version > 0
    BY <2>3 DEF TypeOK, Request
  <2> QED
    BY <2>1, <2>2, <2>4, BeginSound DEF Unstarted
<1>3. CASE SubmitCreate(o)
  <2>1. PICK name \in Names, label \in CategoryNames \cup {NoName} :
          Begin(o, [NoRequest EXCEPT !.op = "CREATE", !.name = name, !.category = label],
                "insertProduct")
    BY <1>3 DEF SubmitCreate
  <2> DEFINE req == [NoRequest EXCEPT !.op = "CREATE", !.name = name, !.category = label]
  <2>2. req \in Request /\ req.op = "CREATE"
    BY DEF Request, NoRequest, ProductCommands
  <2> QED
    BY <2>1, <2>2, BeginSound DEF Unstarted
<1>4. CASE SubmitTransition(o)
  <2>1. PICK p \in Products, action \in LifecycleAction :
          Begin(o, [NoRequest EXCEPT !.op = action, !.id = p], "selectForUpdate")
    BY <1>4 DEF SubmitTransition
  <2> DEFINE req == [NoRequest EXCEPT !.op = action, !.id = p]
  <2>2. req \in Request /\ req.op \in LifecycleAction /\ req.id \in Products
    BY DEF Request, NoRequest, ProductCommands, Targets
  <2> QED
    BY <2>1, <2>2, BeginSound DEF Unstarted
<1>5. CASE SubmitCreateCategory(o)
  <2>1. PICK name \in CategoryNames :
          Begin(o, [NoRequest EXCEPT !.op = "CREATE CATEGORY", !.category = name],
                "insertCategory")
    BY <1>5 DEF SubmitCreateCategory
  <2> DEFINE req == [NoRequest EXCEPT !.op = "CREATE CATEGORY", !.category = name]
  <2>2. req \in Request /\ req.op = "CREATE CATEGORY"
    BY DEF Request, NoRequest, CategoryCommands
  <2> QED
    BY <2>1, <2>2, BeginSound DEF Unstarted
<1>6. CASE SubmitUpdateCategory(o)
  <2>1. PICK c \in Categories, name \in CategoryNames :
          Begin(o, [NoRequest EXCEPT !.op = "UPDATE CATEGORY", !.id = c, !.category = name],
                "lockCategory")
    BY <1>6 DEF SubmitUpdateCategory
  <2> DEFINE req == [NoRequest EXCEPT !.op = "UPDATE CATEGORY", !.id = c, !.category = name]
  <2>2. req \in Request /\ req.op = "UPDATE CATEGORY" /\ req.id \in Categories
    BY DEF Request, NoRequest, CategoryCommands, Targets
  <2> QED
    BY <2>1, <2>2, BeginSound DEF Unstarted
<1>7. CASE Resend(o)
  <2> DEFINE again == [request[o] EXCEPT !.id = NoTarget]
  <2>1. /\ request[o] \in Request
        /\ again \in Request /\ again.op = request[o].op
    BY DEF TypeOK, Request
  <2>2. CASE request[o].op = "CREATE" /\ Begin(o, again, "insertProduct")
    BY <2>1, <2>2, BeginSound DEF Unstarted
  <2>3. CASE request[o].op = "UPDATE" /\ Begin(o, request[o], "joinRead")
    BY <2>1, <2>3, BeginSound DEF Unstarted, RequestsFit
  <2>4. CASE request[o].op \in LifecycleAction /\ Begin(o, request[o], "selectForUpdate")
    BY <2>1, <2>4, BeginSound DEF Unstarted, RequestsFit
  <2>5. CASE request[o].op = "CREATE CATEGORY" /\ Begin(o, again, "insertCategory")
    BY <2>1, <2>5, BeginSound DEF Unstarted
  <2>6. CASE request[o].op = "UPDATE CATEGORY" /\ Begin(o, request[o], "lockCategory")
    BY <2>1, <2>6, BeginSound DEF Unstarted, RequestsFit
  <2> QED
    BY <1>7, <2>2, <2>3, <2>4, <2>5, <2>6 DEF Resend
<1> QED
  BY <1>1, <1>2, <1>3, <1>4, <1>5, <1>6, <1>7 DEF Submit

\* A statement of o moves only o.
LEMMA ContinueLocal ==
  ASSUME TypeOK, NEW o \in Operators, NEW t, NEW next, Continue(o, t, next),
         \A x \in Operators : x # o => request'[x] = request[x]
  PROVE  Local(o) /\ txn'[o] = t /\ pc'[o] = next
BY DEF TypeOK, Continue, Local

\* A statement that neither takes a lock nor reads a row again.
LEMMA KeepsLocks ==
  ASSUME TransactionsAreSound, NEW o \in Operators, request'[o] = request[o],
         txn'[o].before = txn[o].before,
         \A p \in Products : HoldsProduct(o, p)' => HoldsProduct(o, p)
  PROVE  LocksFairly(o)
BY DEF TransactionsAreSound, ReadsAreCurrent, LocksFairly

\* Every statement but the COMMIT keeps all transactions sound.
LEMMA StepSound ==
  ASSUME TypeOK, TransactionsAreSound, NEW o \in Operators, Step(o), ~Commit(o)
  PROVE  TransactionsAreSound'
<1>t. /\ txn[o] \in Transaction /\ request[o] \in Request
      /\ txn[o].before \in Row /\ txn[o].after \in Row
  BY DEF TypeOK, Transaction
<1>a. {"NotFound", "VersionConflict", "Conflict", "InvalidTransition", "Internal", "ok"} \subseteq Answers
  BY DEF Answers
<1>r. \A p \in Products : product[p] \in Row
  BY DEF TypeOK
<1>e. \A err \in Answers : Rollback(o, err) => TransactionsAreSound'
  BY RollbackSound
<1>s. CommandFits(o) /\ WriteIsOneStep(o) /\ AuditIsPending(o)
  BY DEF TransactionsAreSound
<1>l. Local(o) /\ Sound(o)' /\ LocksFairly(o) => TransactionsAreSound'
  BY LocalStepSound
<1>1. CASE InsertProduct(o)
  <2> DEFINE row == [name |-> request[o].name, category |-> CategoryIdOf(request[o].category),
                     status |-> "DRAFT", version |-> 1]
             t == [txn[o] EXCEPT !.after = row]
  <2>1. Continue(o, t, "indexNewRow") /\ UNCHANGED request /\ pc[o] = "insertProduct"
    BY <1>1 DEF InsertProduct, At
  <2>2. Local(o) /\ txn'[o] = t /\ pc'[o] = "indexNewRow" /\ request'[o] = request[o]
    BY <2>1, ContinueLocal
  <2>3. request[o].op = "CREATE" /\ txn[o].before = NoRow /\ txn[o].entries = <<>>
    BY <2>1, <1>s DEF CommandFits, NoTransaction, AuditIsPending
  <2>4. /\ txn'[o].before = NoRow /\ txn'[o].entries = <<>>
        /\ txn'[o].after.version = 1 /\ txn'[o].after.status = "DRAFT"
    BY <2>2, <2>3, <1>t DEF Transaction
  <2>5. NoRow.version = 0 /\ 0 + 1 = 1
    BY DEF NoRow
  <2>6. Sound(o)'
    BY <2>2, <2>3, <2>4, <2>5 DEF Sound, CommandFits, WriteIsOneStep, HasWritten, AuditIsPending
  <2>7. LocksFairly(o)
    BY <2>2 DEF LocksFairly, HoldsProduct
  <2> QED
    BY <2>2, <2>6, <2>7, <1>l
<1>i. CASE IndexNewRow(o)
  <2>1. CASE Rollback(o, "Conflict") \/ Rollback(o, "Internal")
    BY <2>1, <1>a, <1>e
  <2>2. CASE ~(Rollback(o, "Conflict") \/ Rollback(o, "Internal"))
    <3>1. PICK p \in Products :
            /\ request' = [request EXCEPT ![o].id = p]
            /\ ~Exists(p) /\ \A x \in Operators : ~HoldsProduct(x, p)
      BY <1>i, <2>2 DEF IndexNewRow
    <3>2. Continue(o, txn[o], "foreignKey")
      BY <1>i, <2>2 DEF IndexNewRow
    <3>3. /\ Local(o) /\ txn'[o] = txn[o] /\ pc'[o] = "foreignKey"
      BY <3>1, <3>2, ContinueLocal DEF TypeOK
    <3>4. /\ request[o].op = "CREATE" /\ txn[o].before = NoRow /\ txn[o].entries = <<>>
          /\ txn[o].after.version = NoRow.version + 1 /\ txn[o].after.status = "DRAFT"
      BY <1>i, <1>s DEF IndexNewRow, At, CommandFits, WriteIsOneStep, AuditIsPending
    <3>5. request'[o].op = "CREATE" /\ request'[o].id = p
      BY <3>1, <3>4 DEF TypeOK, Request
    <3>6. /\ txn'[o].before = NoRow /\ txn'[o].entries = <<>>
          /\ txn'[o].after.version = NoRow.version + 1 /\ txn'[o].after.status = "DRAFT"
      BY <3>3, <3>4
    <3>8. Sound(o)'
      BY <3>3, <3>5, <3>6 DEF Sound, CommandFits, WriteIsOneStep, HasWritten, AuditIsPending,
                                  LifecycleAction
    <3>9. product[p] = NoRow
      BY <3>1, <1>r DEF Exists, TransactionsAreSound, Row
    <3>10. LocksFairly(o)
      BY <3>1, <3>5, <3>6, <3>9 DEF LocksFairly, HoldsProduct
    <3> QED
      BY <3>3, <3>8, <3>10, <1>l
  <2> QED
    BY <2>1, <2>2
<1>2. CASE JoinRead(o)
  <2> DEFINE row == product[request[o].id]
             t == [txn[o] EXCEPT !.before = row, !.label = CategoryNameOf(row.category)]
  <2>1. Rollback(o, "NotFound") \/ (Continue(o, t, "lockRow") /\ UNCHANGED request)
    BY <1>2 DEF JoinRead
  <2>2. CASE Rollback(o, "NotFound")
    BY <2>2, <1>a, <1>e
  <2>3. CASE Continue(o, t, "lockRow") /\ UNCHANGED request
    <3>1. Local(o) /\ txn'[o] = t /\ pc'[o] = "lockRow" /\ request'[o] = request[o]
      BY <2>3, ContinueLocal
    <3>2. pc[o] = "joinRead" /\ txn'[o].entries = <<>>
      BY <3>1, <1>2, <1>s, <1>t DEF JoinRead, At, AuditIsPending, Transaction
    <3>3. Sound(o)'
      BY <3>1, <3>2, <1>s DEF Sound, CommandFits, WriteIsOneStep, HasWritten, AuditIsPending
    <3>4. LocksFairly(o)
      BY <3>1 DEF LocksFairly, HoldsProduct
    <3> QED
      BY <3>1, <3>3, <3>4, <1>l
  <2> QED
    BY <2>1, <2>2, <2>3
<1>3. CASE LockRow(o)
  <2> DEFINE row == product[request[o].id]
             label == IF row.category = txn[o].before.category THEN txn[o].label ELSE NoName
             t == [txn[o] EXCEPT !.before = row, !.label = label]
  <2>1. \/ Rollback(o, "VersionConflict")
        \/ /\ Continue(o, t, "updateProduct") /\ UNCHANGED request
           /\ row.version = request[o].version
    BY <1>3 DEF LockRow
  <2>2. CASE Rollback(o, "VersionConflict")
    BY <2>2, <1>a, <1>e
  <2>3. CASE /\ Continue(o, t, "updateProduct") /\ UNCHANGED request
             /\ row.version = request[o].version
    <3>1. Local(o) /\ txn'[o] = t /\ pc'[o] = "updateProduct" /\ request'[o] = request[o]
      BY <2>3, ContinueLocal
    <3>2. /\ pc[o] = "lockRow" /\ request[o].op = "UPDATE" /\ request[o].id \in Products
          /\ request[o].version > 0
      BY <1>3, <1>s DEF LockRow, At, CommandFits
    <3>3. txn'[o].before = row /\ txn'[o].entries = <<>>
      BY <3>1, <3>2, <1>s, <1>t DEF AuditIsPending, Transaction
    <3>4. Sound(o)'
      BY <3>1, <3>2, <3>3, <2>3 DEF Sound, CommandFits, WriteIsOneStep, HasWritten, AuditIsPending
    <3>5. \A x \in Operators : ~HoldsProduct(x, request[o].id)
      BY <1>3, <3>2, <2>3 DEF LockRow, At, WaitsFor, Exists, HoldsProduct
    <3>6. LocksFairly(o)
      BY <3>1, <3>3, <3>5 DEF LocksFairly, HoldsProduct
    <3> QED
      BY <3>1, <3>4, <3>6, <1>l
  <2> QED
    BY <2>1, <2>2, <2>3
<1>4. CASE UpdateProduct(o)
  <2> DEFINE old == product[request[o].id]
             row == [name |-> request[o].name, category |-> CategoryIdOf(request[o].category),
                     status |-> old.status, version |-> old.version + 1]
             t == [txn[o] EXCEPT !.after = row]
  <2>1. Rollback(o, "VersionConflict") \/ (Continue(o, t, "uniqueName") /\ UNCHANGED request)
    BY <1>4 DEF UpdateProduct
  <2>2. CASE Rollback(o, "VersionConflict")
    BY <2>2, <1>a, <1>e
  <2>3. CASE Continue(o, t, "uniqueName") /\ UNCHANGED request
    <3>1. Local(o) /\ txn'[o] = t /\ pc'[o] = "uniqueName" /\ request'[o] = request[o]
      BY <2>3, ContinueLocal
    <3>2. /\ pc[o] = "updateProduct" /\ request[o].op = "UPDATE" /\ request[o].id \in Products
          /\ request[o].version > 0
      BY <1>4, <1>s DEF UpdateProduct, At, CommandFits
    <3>3. HoldsProduct(o, request[o].id)
      BY <3>2 DEF HoldsProduct, ProductCommands
    <3>4. txn[o].before = old
      BY <3>2, <3>3 DEF TransactionsAreSound, ReadsAreCurrent
    <3>5. /\ txn'[o].before = txn[o].before /\ txn'[o].entries = <<>>
          /\ txn'[o].after = row
      BY <3>1, <3>2, <1>s, <1>t DEF AuditIsPending, Transaction
    <3>6. txn'[o].after.version = old.version + 1 /\ txn'[o].after.status = old.status
      BY <3>5
    <3>7. Sound(o)'
      BY <3>1, <3>2, <3>4, <3>5, <3>6, <1>s
      DEF Sound, CommandFits, WriteIsOneStep, HasWritten, AuditIsPending
    <3>8. LocksFairly(o)
      BY <3>1, <3>2, <3>3, <3>5, KeepsLocks DEF HoldsProduct
    <3> QED
      BY <3>1, <3>7, <3>8, <1>l
  <2> QED
    BY <2>1, <2>2, <2>3
<1>5. CASE UniqueName(o)
  <2>1. Rollback(o, "Conflict") \/ (Continue(o, txn[o], "foreignKey") /\ UNCHANGED request)
    BY <1>5 DEF UniqueName
  <2>2. CASE Rollback(o, "Conflict")
    BY <2>2, <1>a, <1>e
  <2>3. CASE Continue(o, txn[o], "foreignKey") /\ UNCHANGED request
    <3>1. Local(o) /\ txn'[o] = txn[o] /\ pc'[o] = "foreignKey" /\ request'[o] = request[o]
      BY <2>3, ContinueLocal
    <3>2. pc[o] = "uniqueName" /\ request[o].op = "UPDATE" /\ request[o].id \in Products
      BY <1>5, <1>s DEF UniqueName, At, CommandFits
    <3>3. Sound(o)'
      BY <3>1, <3>2, <1>s
      DEF Sound, CommandFits, WriteIsOneStep, HasWritten, AuditIsPending, LifecycleAction
    <3>4. LocksFairly(o)
      BY <3>1, <3>2, KeepsLocks DEF HoldsProduct
    <3> QED
      BY <3>1, <3>3, <3>4, <1>l
  <2> QED
    BY <2>1, <2>2, <2>3
<1>6. CASE SelectForUpdate(o)
  <2> DEFINE row == product[request[o].id]
             t == [txn[o] EXCEPT !.before = row]
  <2>1. \/ Rollback(o, "NotFound") \/ Rollback(o, "InvalidTransition")
        \/ /\ Continue(o, t, "applyTransition") /\ UNCHANGED request
           /\ row.version # 0 /\ NextStatus(row.status, request[o].op) # ErrInvalidTransition
    BY <1>6 DEF SelectForUpdate
  <2>2. CASE Rollback(o, "NotFound") \/ Rollback(o, "InvalidTransition")
    BY <2>2, <1>a, <1>e
  <2>3. CASE /\ Continue(o, t, "applyTransition") /\ UNCHANGED request
             /\ row.version # 0 /\ NextStatus(row.status, request[o].op) # ErrInvalidTransition
    <3>1. Local(o) /\ txn'[o] = t /\ pc'[o] = "applyTransition" /\ request'[o] = request[o]
      BY <2>3, ContinueLocal
    <3>2. /\ pc[o] = "selectForUpdate" /\ request[o].op \in LifecycleAction
          /\ request[o].id \in Products
      BY <1>6, <1>s DEF SelectForUpdate, At, CommandFits
    <3>3. txn'[o].before = row /\ txn'[o].entries = <<>>
      BY <3>1, <3>2, <1>s, <1>t DEF AuditIsPending, Transaction
    <3>4. row.version > 0
      BY <2>3, <3>2, <1>r DEF Row
    <3>5. Sound(o)'
      BY <3>1, <3>2, <3>3, <3>4, <2>3
      DEF Sound, CommandFits, WriteIsOneStep, HasWritten, AuditIsPending, LifecycleAction
    <3>6. \A x \in Operators : ~HoldsProduct(x, request[o].id)
      BY <1>6, <3>2, <3>4 DEF SelectForUpdate, At, WaitsFor, Exists, HoldsProduct
    <3>7. LocksFairly(o)
      BY <3>1, <3>3, <3>6 DEF LocksFairly, HoldsProduct
    <3> QED
      BY <3>1, <3>5, <3>7, <1>l
  <2> QED
    BY <2>1, <2>2, <2>3
<1>7. CASE ApplyTransition(o)
  <2> DEFINE old == product[request[o].id]
             row == MovedRow(old, NextStatus(txn[o].before.status, request[o].op))
             t == [txn[o] EXCEPT !.after = row]
  <2>1. /\ pc[o] = "applyTransition" /\ request[o].id \in Products
        /\ request[o].op \in LifecycleAction /\ txn[o].before.version > 0
        /\ NextStatus(txn[o].before.status, request[o].op) # ErrInvalidTransition
    BY <1>7, <1>s DEF ApplyTransition, At, CommandFits, WriteIsOneStep
  <2>2. Continue(o, t, "insertAudit") /\ UNCHANGED request
    BY <1>7 DEF ApplyTransition
  <2>3. Local(o) /\ txn'[o] = t /\ pc'[o] = "insertAudit" /\ request'[o] = request[o]
    BY <2>2, ContinueLocal
  <2>4. HoldsProduct(o, request[o].id)
    BY <2>1 DEF HoldsProduct, ProductCommands
  <2>5. txn[o].before = old
    BY <2>1, <2>4 DEF TransactionsAreSound, ReadsAreCurrent
  <2>6. /\ txn'[o].before = txn[o].before /\ txn'[o].entries = <<>>
        /\ txn'[o].after = row
    BY <2>1, <2>3, <1>s, <1>t DEF AuditIsPending, Transaction
  <2>7. /\ txn'[o].after = MovedRow(txn'[o].before, NextStatus(txn'[o].before.status, request'[o].op))
        /\ txn'[o].after.version = txn'[o].before.version + 1
    BY <2>3, <2>5, <2>6 DEF MovedRow
  <2>8. CommandFits(o)' /\ AuditIsPending(o)'
    BY <2>1, <2>3, <2>6 DEF CommandFits, AuditIsPending, ProductCommands
  <2>9. WriteIsOneStep(o)'
    BY <2>1, <2>3, <2>6, <2>7 DEF WriteIsOneStep, HasWritten, LifecycleAction
  <2>10. LocksFairly(o)
    BY <2>1, <2>3, <2>4, <2>6, KeepsLocks DEF HoldsProduct
  <2> QED
    BY <2>3, <2>8, <2>9, <2>10, <1>l DEF Sound
<1>8. CASE ForeignKey(o)
  <2>1. Continue(o, txn[o], "insertAudit") /\ UNCHANGED request /\ pc[o] = "foreignKey"
    BY <1>8 DEF ForeignKey, At
  <2>2. Local(o) /\ txn'[o] = txn[o] /\ pc'[o] = "insertAudit" /\ request'[o] = request[o]
    BY <2>1, ContinueLocal
  <2>3. request[o].op \in {"CREATE", "UPDATE"} /\ request[o].id \in Products
    BY <2>1, <1>s DEF CommandFits
  <2>4. CommandFits(o)' /\ AuditIsPending(o)'
    BY <2>1, <2>2, <2>3, <1>s DEF CommandFits, AuditIsPending, ProductCommands
  <2>5. WriteIsOneStep(o)'
    BY <2>1, <2>2, <2>3, <1>s DEF WriteIsOneStep, HasWritten, LifecycleAction, ProductCommands
  <2>6. LocksFairly(o)
    BY <2>1, <2>2, KeepsLocks DEF HoldsProduct
  <2> QED
    BY <2>2, <2>4, <2>5, <2>6, <1>l DEF Sound
<1>c. \A op \in CategoryCommands : op \notin ProductCommands /\ op # "CREATE" /\ op # "UPDATE" /\ op \notin LifecycleAction
  BY DEF CategoryCommands, ProductCommands, LifecycleAction
<1>9. CASE InsertCategory(o)
  <2>1. CASE Rollback(o, "Conflict") \/ Rollback(o, "Internal")
    BY <2>1, <1>a, <1>e
  <2>2. CASE ~(Rollback(o, "Conflict") \/ Rollback(o, "Internal"))
    <3>1. PICK c \in Categories : request' = [request EXCEPT ![o].id = c]
      BY <1>9, <2>2 DEF InsertCategory
    <3>2. Continue(o, txn[o], "insertAudit") /\ pc[o] = "insertCategory"
      BY <1>9, <2>2 DEF InsertCategory, At
    <3>3. Local(o) /\ txn'[o] = txn[o] /\ pc'[o] = "insertAudit"
      BY <3>1, <3>2, ContinueLocal DEF TypeOK
    <3>4. /\ request'[o].op = "CREATE CATEGORY" /\ request'[o].id = c
          /\ request'[o].op \in CategoryCommands
      BY <3>1, <3>2, <1>s DEF CommandFits, TypeOK, Request, CategoryCommands
    <3>5. CommandFits(o)' /\ AuditIsPending(o)'
      BY <3>2, <3>3, <3>4, <1>s DEF CommandFits, AuditIsPending
    <3>6. WriteIsOneStep(o)'
      BY <3>3, <3>4, <1>c DEF WriteIsOneStep, HasWritten
    <3>7. LocksFairly(o)
      BY <3>4, <1>c DEF LocksFairly, HoldsProduct
    <3> QED
      BY <3>3, <3>5, <3>6, <3>7, <1>l DEF Sound
  <2> QED
    BY <2>1, <2>2
<1>10. CASE LockCategory(o)
  <2> DEFINE t == [txn[o] EXCEPT !.label = category[request[o].id]]
  <2>1. Rollback(o, "NotFound") \/ (Continue(o, t, "updateCategory") /\ UNCHANGED request)
    BY <1>10 DEF LockCategory
  <2>2. CASE Rollback(o, "NotFound")
    BY <2>2, <1>a, <1>e
  <2>3. CASE Continue(o, t, "updateCategory") /\ UNCHANGED request
    <3>1. Local(o) /\ txn'[o] = t /\ pc'[o] = "updateCategory" /\ request'[o] = request[o]
      BY <2>3, ContinueLocal
    <3>2. pc[o] = "lockCategory" /\ txn'[o].entries = <<>>
      BY <3>1, <1>10, <1>s, <1>t DEF LockCategory, At, AuditIsPending, Transaction
    <3>3. Sound(o)'
      BY <3>1, <3>2, <1>s DEF Sound, CommandFits, WriteIsOneStep, HasWritten, AuditIsPending
    <3>4. LocksFairly(o)
      BY <3>1 DEF LocksFairly, HoldsProduct
    <3> QED
      BY <3>1, <3>3, <3>4, <1>l
  <2> QED
    BY <2>1, <2>2, <2>3
<1>11. CASE UpdateCategory(o)
  <2>1. /\ Continue(o, txn[o], "uniqueCategoryName") /\ UNCHANGED request
        /\ pc[o] = "updateCategory"
    BY <1>11 DEF UpdateCategory, At
  <2>2. /\ Local(o) /\ txn'[o] = txn[o] /\ pc'[o] = "uniqueCategoryName"
        /\ request'[o] = request[o]
    BY <2>1, ContinueLocal
  <2>3. Sound(o)'
    BY <2>1, <2>2, <1>s DEF Sound, CommandFits, WriteIsOneStep, HasWritten, AuditIsPending
  <2>4. LocksFairly(o)
    BY <2>2 DEF LocksFairly, HoldsProduct
  <2> QED
    BY <2>2, <2>3, <2>4, <1>l
<1>12. CASE UniqueCategoryName(o)
  <2>1. Rollback(o, "Conflict") \/ (Continue(o, txn[o], "insertAudit") /\ UNCHANGED request)
    BY <1>12 DEF UniqueCategoryName
  <2>2. CASE Rollback(o, "Conflict")
    BY <2>2, <1>a, <1>e
  <2>3. CASE Continue(o, txn[o], "insertAudit") /\ UNCHANGED request
    <3>1. Local(o) /\ txn'[o] = txn[o] /\ pc'[o] = "insertAudit" /\ request'[o] = request[o]
      BY <2>3, ContinueLocal
    <3>2. /\ pc[o] = "uniqueCategoryName" /\ request[o].op = "UPDATE CATEGORY"
          /\ request[o].op \in CategoryCommands /\ request[o].id \in Categories
      BY <1>12, <1>s DEF UniqueCategoryName, At, CommandFits, CategoryCommands
    <3>3. CommandFits(o)' /\ AuditIsPending(o)'
      BY <3>1, <3>2, <1>s DEF CommandFits, AuditIsPending
    <3>4. WriteIsOneStep(o)' /\ LocksFairly(o)
      BY <3>1, <3>2, <1>c DEF WriteIsOneStep, HasWritten, LocksFairly, HoldsProduct
    <3> QED
      BY <3>1, <3>3, <3>4, <1>l DEF Sound
  <2> QED
    BY <2>1, <2>2, <2>3
<1>13. CASE InsertAudit(o)
  <2> DEFINE t == [txn[o] EXCEPT !.entries = Append(@, EntryOf(o))]
  <2>1. Continue(o, t, "commit") /\ UNCHANGED request /\ pc[o] = "insertAudit"
    BY <1>13 DEF InsertAudit, At
  <2>2. Local(o) /\ txn'[o] = t /\ pc'[o] = "commit" /\ request'[o] = request[o]
    BY <2>1, ContinueLocal
  <2>3. /\ txn'[o].before = txn[o].before /\ txn'[o].label = txn[o].label
        /\ txn'[o].start = txn[o].start /\ txn'[o].after = txn[o].after
        /\ txn'[o].entries = Append(txn[o].entries, EntryOf(o))
    BY <2>2, <1>t DEF Transaction
  <2>4. txn[o].entries = <<>>
    BY <2>1, <1>s DEF AuditIsPending
  <2>5. EntryOf(o)' = EntryOf(o)
    BY <2>2, <2>3, EntryOfLocal
  <2>6. AuditIsPending(o)'
    BY <2>2, <2>3, <2>4, <2>5 DEF AuditIsPending
  <2>7. CommandFits(o)'
    BY <2>1, <2>2, <1>s DEF CommandFits
  <2>8. WriteIsOneStep(o)'
    BY <2>1, <2>2, <2>3, <1>s DEF WriteIsOneStep, HasWritten
  <2>9. LocksFairly(o)
    BY <2>1, <2>2, <2>3, KeepsLocks DEF HoldsProduct
  <2> QED
    BY <2>2, <2>6, <2>7, <2>8, <2>9, <1>l DEF Sound
<1> QED
  BY <1>1, <1>i, <1>2, <1>3, <1>4, <1>5, <1>6, <1>7, <1>8, <1>9, <1>10, <1>11, <1>12, <1>13 DEF Step

\* What a transaction that is about to commit has in hand.
LEMMA AtCommit ==
  ASSUME TypeOK, TransactionsAreSound, NEW o \in Operators, Commit(o)
  PROVE  /\ txn[o].entries = <<EntryOf(o)>> /\ EntryOf(o) \in AuditEntry
         /\ \/ /\ request[o].op \in ProductCommands /\ request[o].id \in Products
               /\ HoldsProduct(o, request[o].id)
               /\ txn[o].before = product[request[o].id]
               /\ txn[o].after \in Row
               /\ txn[o].after.version = txn[o].before.version + 1
            \/ /\ request[o].op \in CategoryCommands /\ request[o].op \notin ProductCommands
               /\ request[o].id \in Categories /\ request[o].id \notin Products
<1>1. pc[o] = "commit" /\ CommandFits(o) /\ WriteIsOneStep(o) /\ AuditIsPending(o)
  BY DEF Commit, At, TransactionsAreSound
<1>2. txn[o].entries = <<EntryOf(o)>>
  BY <1>1 DEF AuditIsPending
<1>3. /\ request[o].op \in ProductCommands \cup CategoryCommands
      /\ request[o].op \in LifecycleAction
           => NextStatus(txn[o].before.status, request[o].op) # ErrInvalidTransition
  BY <1>1 DEF CommandFits, WriteIsOneStep, HasWritten, ProductCommands
<1>4. EntryOf(o) \in AuditEntry
  BY <1>3, EntryOfType
<1>5. CASE request[o].op \in ProductCommands /\ request[o].id \in Products
  <2>1. HoldsProduct(o, request[o].id) /\ HasWritten(o)
    BY <1>1, <1>5 DEF HoldsProduct, HasWritten
  <2>2. txn[o].before = product[request[o].id]
    BY <1>5, <2>1 DEF TransactionsAreSound, ReadsAreCurrent
  <2>3. txn[o].after \in Row /\ txn[o].after.version = txn[o].before.version + 1
    BY <1>1, <2>1 DEF WriteIsOneStep, TypeOK, Transaction
  <2> QED
    BY <1>2, <1>4, <1>5, <2>1, <2>2, <2>3
<1>6. CASE request[o].op \in CategoryCommands /\ request[o].id \in Categories
  BY <1>2, <1>4, <1>6, DataAssumption DEF CategoryCommands, ProductCommands, LifecycleAction
<1> QED
  BY <1>1, <1>5, <1>6 DEF CommandFits

\* A COMMIT changes a row that nobody else holds, so what the others read stays true.
LEMMA CommitSound ==
  ASSUME TypeOK, TransactionsAreSound, NEW o \in Operators, Commit(o)
  PROVE  TransactionsAreSound'
<1>1. \A x \in Operators : x # o =>
        pc'[x] = pc[x] /\ request'[x] = request[x] /\ txn'[x] = txn[x]
  BY DEF Commit, TypeOK
<1>2. pc'[o] = "answered" /\ txn'[o] = NoTransaction
  BY DEF Commit, TypeOK
<1>3. Sound(o)'
  BY <1>2 DEF Sound, CommandFits, WriteIsOneStep, HasWritten, AuditIsPending, NoTransaction
<1>4. \A x \in Operators : Sound(x)'
  BY <1>1, <1>3, StillSound DEF TransactionsAreSound, Sound
<1>5. \A x \in Operators, p \in Products : HoldsProduct(x, p)' => x # o /\ HoldsProduct(x, p)
  BY <1>1, <1>2 DEF HoldsProduct
<1>6. LocksAreExclusive'
  <2> SUFFICES ASSUME NEW x \in Operators, NEW y \in Operators, NEW p \in Products,
                      HoldsProduct(x, p)', HoldsProduct(y, p)'
               PROVE  x = y
    BY DEF LocksAreExclusive
  <2> QED
    BY <1>5 DEF TransactionsAreSound, LocksAreExclusive
<1>7. \A p \in Products : product'[p] # product[p] =>
        HoldsProduct(o, p) /\ product'[p].version = product[p].version + 1
  <2> SUFFICES ASSUME NEW p \in Products, product'[p] # product[p]
               PROVE  HoldsProduct(o, p) /\ product'[p].version = product[p].version + 1
    OBVIOUS
  <2>1. request[o].op \in ProductCommands /\ p = request[o].id /\ product'[p] = txn[o].after
    BY DEF Commit, TypeOK
  <2> QED
    BY <2>1, AtCommit
<1>8. ReadsAreCurrent'
  <2> SUFFICES ASSUME NEW x \in Operators, NEW p \in Products, HoldsProduct(x, p)'
               PROVE  txn'[x].before = product'[p]
    BY DEF ReadsAreCurrent
  <2>1. x # o /\ HoldsProduct(x, p) /\ txn'[x] = txn[x]
    BY <1>1, <1>5
  <2>2. ~HoldsProduct(o, p)
    BY <2>1 DEF TransactionsAreSound, LocksAreExclusive
  <2> QED
    BY <2>1, <2>2, <1>7 DEF TransactionsAreSound, ReadsAreCurrent
<1>9. \A p \in Products : product'[p].version = 0 => product'[p] = NoRow
  <2> SUFFICES ASSUME NEW p \in Products, product'[p].version = 0
               PROVE  product'[p] = NoRow
    OBVIOUS
  <2>1. product[p].version \in Nat
    BY DEF TypeOK, Row
  <2> QED
    BY <2>1, <1>7 DEF TransactionsAreSound
<1> QED
  BY <1>4, <1>6, <1>8, <1>9 DEF TransactionsAreSound, Sound

-----------------------------------------------------------------------------
(* The audit trails. *)

\* One more audit row, for the version after the last one.
LEMMA AppendVersion ==
  ASSUME NEW trail \in Seq(AuditEntry), NEW e \in AuditEntry, NEW v \in Nat,
         LeadsToVersion(trail, v), e.versionBefore = v, e.versionAfter = v + 1
  PROVE  LeadsToVersion(Append(trail, e), v + 1)
<1> DEFINE new == Append(trail, e)
<1>1. /\ Len(new) = Len(trail) + 1 /\ Len(trail) \in Nat
      /\ new[Len(trail) + 1] = e
      /\ \A i \in 1..Len(trail) : new[i] = trail[i]
  OBVIOUS
<1>2. \A i \in 1..Len(new) : new[i].versionAfter = new[i].versionBefore + 1
  BY <1>1 DEF LeadsToVersion
<1>3. ASSUME NEW i \in 1..Len(new) - 1
      PROVE  new[i + 1].versionBefore = new[i].versionAfter
  <2>1. CASE i = Len(trail)
    BY <1>1, <2>1 DEF LeadsToVersion
  <2>2. CASE i < Len(trail)
    <3>1. i \in 1..Len(trail) - 1 /\ i \in 1..Len(trail) /\ i + 1 \in 1..Len(trail)
      BY <1>1, <2>2
    <3> QED
      BY <1>1, <3>1 DEF LeadsToVersion
  <2> QED
    BY <1>1, <2>1, <2>2
<1> HIDE DEF new
<1>4. LeadsToVersion(new, v + 1)
  BY <1>1, <1>2, <1>3 DEF LeadsToVersion
<1> QED
  BY <1>4 DEF new

\* The transitions of a longer trail.
LEMMA AppendMoves ==
  ASSUME NEW trail \in Seq(AuditEntry), NEW e \in AuditEntry
  PROVE  /\ Len(trail) \in Nat
         /\ Append(trail, e)[Len(trail) + 1] = e
         /\ Moves(trail) \subseteq 1..Len(trail)
         /\ \A i \in Moves(trail) : Append(trail, e)[i] = trail[i]
         /\ Moves(Append(trail, e)) = IF e.action \in LifecycleAction
                                     THEN Moves(trail) \cup {Len(trail) + 1}
                                     ELSE Moves(trail)
<1> DEFINE new == Append(trail, e)
<1>1. /\ Len(new) = Len(trail) + 1 /\ Len(trail) \in Nat
      /\ new[Len(trail) + 1] = e
      /\ \A i \in 1..Len(trail) : new[i] = trail[i]
  OBVIOUS
<1> HIDE DEF new
<1>2. \A i : i \in Moves(new) <=>
        \/ i \in Moves(trail)
        \/ i = Len(trail) + 1 /\ e.action \in LifecycleAction
  <2> SUFFICES ASSUME NEW i
               PROVE  i \in Moves(new) <=>
                        \/ i \in Moves(trail)
                        \/ i = Len(trail) + 1 /\ e.action \in LifecycleAction
    OBVIOUS
  <2>1. i \in 1..Len(new) <=> i \in 1..Len(trail) \/ i = Len(trail) + 1
    BY <1>1
  <2>2. Len(trail) + 1 \notin 1..Len(trail)
    BY <1>1
  <2> QED
    BY <1>1, <2>1, <2>2 DEF Moves
<1> QED
  BY <1>1, <1>2 DEF Moves, new

\* One more transition, from the status the trail led to.
LEMMA AppendMove ==
  ASSUME NEW trail \in Seq(AuditEntry), NEW e \in AuditEntry, NEW status,
         LeadsToStatus(trail, status), e.action \in LifecycleAction, e.statusBefore = status
  PROVE  LeadsToStatus(Append(trail, e), e.statusAfter)
<1> DEFINE new == Append(trail, e)
           last == Len(trail) + 1
<1>1. /\ Moves(new) = Moves(trail) \cup {last} /\ new[last] = e /\ Len(trail) \in Nat
      /\ \A i \in Moves(trail) : new[i] = trail[i] /\ i \in 1..Len(trail)
  BY AppendMoves
<1> HIDE DEF new
<1>2. ASSUME NEW i \in Moves(new), \A k \in Moves(new) : k <= i
      PROVE  new[i].statusAfter = e.statusAfter
  BY <1>1, <1>2
<1>3. ASSUME NEW i \in Moves(new), NEW j \in Moves(new), i < j,
             \A k \in Moves(new) : k <= i \/ k >= j
      PROVE  new[j].statusBefore = new[i].statusAfter
  <2>1. i \in Moves(trail)
    BY <1>1, <1>3
  <2>2. CASE j = last
    <3>1. \A k \in Moves(trail) : k <= i
      BY <1>1, <1>3, <2>2
    <3> QED
      BY <1>1, <2>1, <2>2, <3>1 DEF LeadsToStatus
  <2>3. CASE j \in Moves(trail)
    BY <1>1, <1>3, <2>1, <2>3 DEF LeadsToStatus
  <2> QED
    BY <1>1, <2>2, <2>3
<1>4. LeadsToStatus(new, e.statusAfter)
  BY <1>2, <1>3 DEF LeadsToStatus
<1> QED
  BY <1>4 DEF new

\* One more audit row of another kind leaves the status where it was.
LEMMA AppendOther ==
  ASSUME NEW trail \in Seq(AuditEntry), NEW e \in AuditEntry, NEW status,
         LeadsToStatus(trail, status), e.action \notin LifecycleAction
  PROVE  LeadsToStatus(Append(trail, e), status)
<1>1. /\ Moves(Append(trail, e)) = Moves(trail)
      /\ \A i \in Moves(trail) : Append(trail, e)[i] = trail[i]
  BY AppendMoves
<1> QED
  BY <1>1 DEF LeadsToStatus

\* A version 0 row has no audit rows.
LEMMA NoVersionNoTrail ==
  ASSUME NEW trail \in Seq(AuditEntry), LeadsToVersion(trail, 0)
  PROVE  Len(trail) = 0
<1> SUFFICES ASSUME Len(trail) > 0
             PROVE  FALSE
  OBVIOUS
<1>1. Len(trail) \in 1..Len(trail)
  OBVIOUS
<1>2. trail[Len(trail)].versionBefore \in Nat
  <2>1. trail[Len(trail)] \in AuditEntry
    BY <1>1
  <2> QED
    BY <2>1 DEF AuditEntry
<1>3. trail[Len(trail)].versionAfter = trail[Len(trail)].versionBefore + 1
  BY <1>1 DEF LeadsToVersion
<1>4. trail[Len(trail)].versionAfter = 0
  BY DEF LeadsToVersion
<1> QED
  BY <1>2, <1>3, <1>4

\* What a commit does to one product: nothing, or one command.
LEMMA CommitStep ==
  ASSUME TypeOK, TransactionsAreSound, NEW o \in Operators, Commit(o), NEW p \in Products,
         product'[p] # product[p] \/ audit'[p] # audit[p]
  PROVE  /\ p = request[o].id /\ request[o].op \in ProductCommands
         /\ product'[p].version = product[p].version + 1
         /\ EntryOf(o) \in AuditEntry /\ audit'[p] = Append(audit[p], EntryOf(o))
         /\ EntryOf(o).versionBefore = product[p].version
         /\ EntryOf(o).versionAfter = product[p].version + 1
         /\ EntryOf(o).action = request[o].op
         /\ \/ request[o].op = "CREATE" /\ product[p].version = 0
            \/ /\ request[o].op = "UPDATE" /\ product'[p].status = product[p].status
               /\ product[p].version = request[o].version
            \/ /\ request[o].op \in LifecycleAction
               /\ NextStatus(product[p].status, request[o].op) # ErrInvalidTransition
               /\ product'[p].status = NextStatus(product[p].status, request[o].op)
               /\ EntryOf(o).statusBefore = product[p].status
               /\ EntryOf(o).statusAfter = product'[p].status
<1>1. audit' = [audit EXCEPT ![request[o].id] = @ \o txn[o].entries]
  BY DEF Commit
<1>2. p = request[o].id
  <2>1. audit \in [Targets -> Seq(AuditEntry)] /\ p \in Targets
    BY DEF TypeOK, Targets
  <2>2. audit'[p] # audit[p] => p = request[o].id
    BY <1>1, <2>1
  <2>3. product'[p] # product[p] => p = request[o].id
    BY DEF Commit, TypeOK
  <2> QED
    BY <2>2, <2>3
<1>3. request[o].op \in ProductCommands
  BY <1>2, AtCommit
<1>4. product'[p] = txn[o].after
  BY <1>2, <1>3 DEF Commit, TypeOK
<1>5. /\ txn[o].entries = <<EntryOf(o)>> /\ EntryOf(o) \in AuditEntry
      /\ txn[o].before = product[p]
      /\ txn[o].after.version = txn[o].before.version + 1
  BY <1>2, <1>3, AtCommit
<1>6. audit'[p] = Append(audit[p], EntryOf(o))
  <2>1. audit[p] \in Seq(AuditEntry) /\ p \in Targets
    BY DEF TypeOK, Targets
  <2>2. audit'[p] = audit[p] \o <<EntryOf(o)>>
    BY <1>1, <1>2, <1>5, <2>1 DEF TypeOK
  <2> QED
    BY <1>5, <2>1, <2>2, AppendIsConcat
<1>7. /\ EntryOf(o).versionBefore = product[p].version
      /\ EntryOf(o).versionAfter = product[p].version + 1
      /\ EntryOf(o).action = request[o].op
      /\ request[o].op \in LifecycleAction =>
           /\ EntryOf(o).statusBefore = product[p].status
           /\ EntryOf(o).statusAfter = NextStatus(product[p].status, request[o].op)
  BY <1>3, <1>5 DEF EntryOf
<1>8. WriteIsOneStep(o) /\ HasWritten(o)
  BY <1>3 DEF TransactionsAreSound, HasWritten, Commit, At
<1>9. CASE request[o].op = "CREATE"
  <2>1. product[p] = NoRow
    BY <1>5, <1>8, <1>9 DEF WriteIsOneStep
  <2>2. product[p].version = 0
    BY <2>1 DEF NoRow
  <2> QED
    BY <1>2, <1>3, <1>4, <1>5, <1>6, <1>7, <1>9, <2>2
<1>10. CASE request[o].op = "UPDATE"
  BY <1>2, <1>3, <1>4, <1>5, <1>6, <1>7, <1>8, <1>10 DEF WriteIsOneStep
<1>11. CASE request[o].op \in LifecycleAction
  <2>1. /\ NextStatus(product[p].status, request[o].op) # ErrInvalidTransition
        /\ product'[p].status = NextStatus(product[p].status, request[o].op)
    BY <1>4, <1>5, <1>8, <1>11 DEF WriteIsOneStep, MovedRow
  <2> QED
    BY <1>2, <1>3, <1>4, <1>5, <1>6, <1>7, <1>11, <2>1
<1> QED
  BY <1>3, <1>9, <1>10, <1>11 DEF ProductCommands

\* A COMMIT extends the trail of one target by the audit row of what it changed.
LEMMA CommitTrails ==
  ASSUME TypeOK, TransactionsAreSound, VersionTrail, StatusTrail,
         NEW o \in Operators, Commit(o)
  PROVE  VersionTrail' /\ StatusTrail'
<1> SUFFICES ASSUME NEW p \in Products
             PROVE  /\ LeadsToVersion(audit'[p], product'[p].version)
                    /\ LeadsToStatus(audit'[p], product'[p].status)
  BY DEF VersionTrail, StatusTrail
<1>1. CASE product'[p] = product[p] /\ audit'[p] = audit[p]
  BY <1>1 DEF VersionTrail, StatusTrail
<1>2. CASE product'[p] # product[p] \/ audit'[p] # audit[p]
  <2> DEFINE e == EntryOf(o)
  <2>1. audit[p] \in Seq(AuditEntry) /\ product[p].version \in Nat
    BY DEF TypeOK, Targets, Row
  <2>2. /\ e \in AuditEntry /\ audit'[p] = Append(audit[p], e)
        /\ e.versionBefore = product[p].version /\ e.versionAfter = product[p].version + 1
        /\ product'[p].version = product[p].version + 1 /\ e.action = request[o].op
    BY <1>2, CommitStep
  <2>3. LeadsToVersion(audit[p], product[p].version) /\ LeadsToStatus(audit[p], product[p].status)
    BY DEF VersionTrail, StatusTrail
  <2> HIDE DEF e
  <2>4. LeadsToVersion(audit'[p], product'[p].version)
    BY <2>1, <2>2, <2>3, AppendVersion
  <2>5. CASE request[o].op = "CREATE" /\ product[p].version = 0
    <3>1. Len(audit[p]) = 0
      BY <2>1, <2>3, <2>5, NoVersionNoTrail
    <3>2. Moves(audit[p]) = {}
      BY <3>1 DEF Moves
    <3>3. e.action \notin LifecycleAction
      BY <2>2, <2>5 DEF LifecycleAction
    <3>4. LeadsToStatus(audit[p], product'[p].status)
      BY <3>2 DEF LeadsToStatus
    <3> QED
      BY <2>1, <2>2, <2>4, <3>3, <3>4, AppendOther
  <2>6. CASE request[o].op = "UPDATE" /\ product'[p].status = product[p].status
    <3>1. e.action \notin LifecycleAction
      BY <2>2, <2>6 DEF LifecycleAction
    <3> QED
      BY <2>1, <2>2, <2>3, <2>4, <2>6, <3>1, AppendOther
  <2>7. CASE /\ request[o].op \in LifecycleAction
             /\ e.statusBefore = product[p].status /\ e.statusAfter = product'[p].status
    BY <2>1, <2>2, <2>3, <2>4, <2>7, AppendMove
  <2> QED
    BY <1>2, <2>5, <2>6, <2>7, CommitStep DEF e
<1> QED
  BY <1>1, <1>2

-----------------------------------------------------------------------------
(* What is in hand may be sent again.  *)

\* The condition on one command.
Fits(req) ==
  /\ req.op = "UPDATE" => req.id \in Products /\ req.version > 0
  /\ req.op \in LifecycleAction => req.id \in Products
  /\ req.op = "UPDATE CATEGORY" => req.id \in Categories

\* A step of o that puts a command that fits into o's hand.
LEMMA OneFits ==
  ASSUME TypeOK, RequestsFit, NEW o \in Operators, NEW req, Fits(req),
         request' = [request EXCEPT ![o] = req]
  PROVE  RequestsFit'
BY DEF TypeOK, RequestsFit, Fits

\* A request of any kind fits.
LEMMA SubmitFits ==
  ASSUME TypeOK, TransactionsAreSound, RequestsFit, NEW o \in Operators, Submit(o)
  PROVE  RequestsFit'
<1> USE DEF LifecycleAction
<1>1. CASE OpenProduct(o)
  <2>1. PICK p \in Products : Exists(p) /\ request' = [request EXCEPT ![o] =
            [NoRequest EXCEPT !.op = "UPDATE", !.id = p, !.name = product[p].name,
                              !.category = CategoryNameOf(product[p].category),
                              !.version = product[p].version]]
    BY <1>1 DEF OpenProduct
  <2> QED
    BY <2>1, OneFits DEF Fits, NoRequest, Exists
<1>2. CASE SubmitUpdate(o)
  <2>1. PICK name \in Names, label \in CategoryNames \cup {NoName} :
          request' = [request EXCEPT ![o] =
            [request[o] EXCEPT !.name = name, !.category = label]]
    BY <1>2 DEF SubmitUpdate, Begin
  <2>2. request[o].op = "UPDATE" /\ request[o].id \in Products /\ request[o].version > 0
    BY <1>2 DEF SubmitUpdate, TransactionsAreSound, CommandFits
  <2>3. Fits([request[o] EXCEPT !.name = name, !.category = label])
    BY <2>2 DEF Fits, TypeOK, Request
  <2> QED
    BY <2>1, <2>3, OneFits
<1>3. CASE SubmitCreate(o)
  BY <1>3, OneFits DEF SubmitCreate, Begin, Fits, NoRequest
<1>4. CASE SubmitTransition(o)
  <2>1. PICK p \in Products, action \in LifecycleAction :
          request' = [request EXCEPT ![o] = [NoRequest EXCEPT !.op = action, !.id = p]]
    BY <1>4 DEF SubmitTransition, Begin
  <2>2. Fits([NoRequest EXCEPT !.op = action, !.id = p])
    BY DEF Fits, NoRequest
  <2> QED
    BY <2>1, <2>2, OneFits
<1>5. CASE SubmitCreateCategory(o)
  BY <1>5, OneFits DEF SubmitCreateCategory, Begin, Fits, NoRequest
<1>6. CASE SubmitUpdateCategory(o)
  BY <1>6, OneFits DEF SubmitUpdateCategory, Begin, Fits, NoRequest
<1>7. CASE Resend(o)
  <2>1. Fits(request[o])
    BY DEF RequestsFit, Fits
  <2>2. request[o].op \in {"CREATE", "CREATE CATEGORY"}
          => Fits([request[o] EXCEPT !.id = NoTarget])
    BY DEF TypeOK, Request, Fits
  <2>3. \/ request' = [request EXCEPT ![o] = request[o]]
        \/ /\ request[o].op \in {"CREATE", "CREATE CATEGORY"}
           /\ request' = [request EXCEPT ![o] = [request[o] EXCEPT !.id = NoTarget]]
    BY <1>7 DEF Resend, Begin
  <2> QED
    BY <2>1, <2>2, <2>3, OneFits
<1> QED
  BY <1>1, <1>2, <1>3, <1>4, <1>5, <1>6, <1>7 DEF Submit

\* A statement gives an id to a create at most.
LEMMA StepFits ==
  ASSUME TypeOK, TransactionsAreSound, RequestsFit, NEW o \in Operators, Step(o)
  PROVE  RequestsFit'
<1>1. CASE request' = request
  BY <1>1 DEF RequestsFit
<1>2. ASSUME NEW t, request' = [request EXCEPT ![o].id = t],
             request[o].op = "CREATE" \/ request[o].op = "CREATE CATEGORY"
      PROVE  RequestsFit'
  BY <1>2 DEF TypeOK, Request, RequestsFit, LifecycleAction
<1>3. CASE IndexNewRow(o)
  <2>1. request[o].op = "CREATE"
    BY <1>3 DEF IndexNewRow, At, TransactionsAreSound, CommandFits
  <2>2. request' = request \/ \E t \in Products : request' = [request EXCEPT ![o].id = t]
    BY <1>3, Zenon DEF IndexNewRow, Rollback
  <2> QED
    BY <1>1, <1>2, <2>1, <2>2
<1>4. CASE InsertCategory(o)
  <2>1. request[o].op = "CREATE CATEGORY"
    BY <1>4 DEF InsertCategory, At, TransactionsAreSound, CommandFits
  <2>2. request' = request \/ \E t \in Categories : request' = [request EXCEPT ![o].id = t]
    BY <1>4, Zenon DEF InsertCategory, Rollback
  <2> QED
    BY <1>1, <1>2, <2>1, <2>2
<1>5. IndexNewRow(o) \/ InsertCategory(o) \/ request' = request
  BY DEF Step, Rollback, Continue, InsertProduct, JoinRead, LockRow, UpdateProduct, UniqueName,
         SelectForUpdate, ApplyTransition, ForeignKey, LockCategory, UpdateCategory,
         UniqueCategoryName, InsertAudit, Commit
<1> QED
  BY <1>1, <1>3, <1>4, <1>5

\* Every step leaves commands in hand that may be sent again.
LEMMA NextFits ==
  ASSUME TypeOK, TransactionsAreSound, RequestsFit, [Next]_vars
  PROVE  RequestsFit'
<1>1. CASE UNCHANGED vars
  BY <1>1 DEF vars, RequestsFit
<1>2. ASSUME NEW o \in Operators, Submit(o) PROVE RequestsFit'
  BY <1>2, SubmitFits
<1>3. ASSUME NEW o \in Operators, Step(o) PROVE RequestsFit'
  BY <1>3, StepFits
<1>4. ASSUME NEW o \in Operators, Fail(o) \/ DeadlockVictim(o) PROVE RequestsFit'
  BY <1>4 DEF Fail, DeadlockVictim, Rollback, RequestsFit
<1>5. ASSUME NEW o \in Operators, Respond(o) PROVE RequestsFit'
  BY <1>5, OneFits DEF Respond, Fits, NoRequest, NoCommand, LifecycleAction
<1> QED
  BY <1>1, <1>2, <1>3, <1>4, <1>5 DEF Next

-----------------------------------------------------------------------------
(* The inductive invariant and its consequences. *)

Inv == TypeOK /\ TransactionsAreSound /\ RequestsFit /\ VersionTrail /\ StatusTrail

\* The migrated tables satisfy the invariant: no command has run, no trail has begun.
LEMMA InitInv == Init => Inv
<1> SUFFICES ASSUME Init
             PROVE  Inv
  OBVIOUS
<1>1. product \in [Products -> Row]
  BY NothingType DEF Init, SeedRow, Row, ProductStatus
<1>2. audit \in [Targets -> Seq(AuditEntry)]
  BY DEF Init
<1>3. TypeOK
  BY <1>1, <1>2, NothingType DEF Init, TypeOK, Locations, Answers
<1>4. \A o \in Operators : CommandFits(o) /\ WriteIsOneStep(o) /\ AuditIsPending(o)
  BY DEF Init, CommandFits, WriteIsOneStep, HasWritten, AuditIsPending, NoTransaction
<1>5. LocksAreExclusive /\ ReadsAreCurrent
  BY DEF Init, LocksAreExclusive, ReadsAreCurrent, HoldsProduct
<1>6. \A p \in Products : product[p] = NoRow \/ product[p].version = 1
  BY DEF Init, SeedRow
<1>7. \A p \in Products : audit[p] = <<>>
  BY DEF Init, Targets
<1>8. VersionTrail
  BY <1>6, <1>7 DEF VersionTrail, LeadsToVersion, NoRow
<1>9. StatusTrail
  <2>1. \A p \in Products : Moves(audit[p]) = {}
    BY <1>7 DEF Moves
  <2> QED
    BY <2>1 DEF StatusTrail, LeadsToStatus
<1>10. RequestsFit
  BY DEF Init, RequestsFit, NoRequest, NoCommand, LifecycleAction
<1> QED
  BY <1>3, <1>4, <1>5, <1>6, <1>8, <1>9, <1>10 DEF Inv, TransactionsAreSound

\* A step other than a COMMIT changes no row and no trail.
LEMMA OnlyCommitsWrite ==
  ASSUME [Next]_vars, \A o \in Operators : ~Commit(o)
  PROVE  UNCHANGED <<product, audit>>
<1>1. ASSUME NEW o \in Operators, Submit(o)
      PROVE  UNCHANGED <<product, audit>>
  BY <1>1 DEF Submit, Begin, OpenProduct, SubmitUpdate, SubmitCreate, SubmitTransition,
              SubmitCreateCategory, SubmitUpdateCategory, Resend
<1>2. ASSUME NEW o \in Operators, Step(o), ~Commit(o)
      PROVE  UNCHANGED <<product, audit>>
  BY <1>2 DEF Step, Rollback, Continue, InsertProduct, IndexNewRow, JoinRead, LockRow,
              UpdateProduct, UniqueName, SelectForUpdate, ApplyTransition, ForeignKey, InsertCategory,
              LockCategory, UpdateCategory, UniqueCategoryName, InsertAudit
<1>3. ASSUME NEW o \in Operators, Fail(o) \/ DeadlockVictim(o) \/ Respond(o)
      PROVE  UNCHANGED <<product, audit>>
  BY <1>3 DEF Fail, DeadlockVictim, Respond, Rollback
<1> QED
  BY <1>1, <1>2, <1>3 DEF Next, vars

\* Every step keeps the invariant: types, soundness, then the two trails.
LEMMA StepInv == Inv /\ [Next]_vars => Inv'
<1> SUFFICES ASSUME Inv, [Next]_vars
             PROVE  Inv'
  OBVIOUS
<1> USE DEF Inv
<1>1. TypeOK'
  BY NextType DEF Control, TransactionsAreSound
<1>2. TransactionsAreSound'
  <2>1. CASE UNCHANGED vars
    <3>1. \A x \in Operators : Sound(x)'
      BY <2>1, StillSound DEF vars, TransactionsAreSound, Sound
    <3>2. LocksAreExclusive' /\ ReadsAreCurrent'
      BY <2>1 DEF vars, TransactionsAreSound, LocksAreExclusive, ReadsAreCurrent, HoldsProduct
    <3> QED
      BY <2>1, <3>1, <3>2 DEF vars, TransactionsAreSound, Sound
  <2>2. ASSUME NEW o \in Operators, Submit(o)
        PROVE  TransactionsAreSound'
    BY <2>2, SubmitSound
  <2>3. ASSUME NEW o \in Operators, Step(o)
        PROVE  TransactionsAreSound'
    BY <2>3, StepSound, CommitSound
  <2>4. ASSUME NEW o \in Operators, Fail(o) \/ DeadlockVictim(o)
        PROVE  TransactionsAreSound'
    BY <2>4, RollbackSound DEF Fail, DeadlockVictim, Answers
  <2>5. ASSUME NEW o \in Operators, Respond(o)
        PROVE  TransactionsAreSound'
    BY <2>5, RespondSound
  <2> QED
    BY <2>1, <2>2, <2>3, <2>4, <2>5 DEF Next
<1>3. VersionTrail' /\ StatusTrail'
  <2>1. CASE \E o \in Operators : Commit(o)
    BY <2>1, CommitTrails
  <2>2. CASE \A o \in Operators : ~Commit(o)
    <3>1. UNCHANGED <<product, audit>>
      BY <2>2, OnlyCommitsWrite
    <3> QED
      BY <3>1 DEF VersionTrail, StatusTrail
  <2> QED
    BY <2>1, <2>2
<1>4. RequestsFit'
  BY NextFits
<1> QED
  BY <1>1, <1>2, <1>3, <1>4

\* The inductive invariant holds in every reachable state.
THEOREM Invariance == Spec => []Inv
BY InitInv, StepInv, PTL DEF Spec

\* The types of the tables and of every transaction are kept.
THEOREM TypeCorrect == Spec => []TypeOK
<1>1. Inv => TypeOK
  BY DEF Inv
<1> QED
  BY <1>1, Invariance, PTL

\* Row locks keep what every transaction read true until its COMMIT.
THEOREM Soundness == Spec => []TransactionsAreSound
<1>1. Inv => TransactionsAreSound
  BY DEF Inv
<1> QED
  BY <1>1, Invariance, PTL

\* Every committed version of a product has its audit row, and the reverse.
THEOREM AuditCoversVersions == Spec => []VersionTrail
<1>1. Inv => VersionTrail
  BY DEF Inv
<1> QED
  BY <1>1, Invariance, PTL

\* The audit trail of a product reconstructs its lifecycle.
THEOREM AuditCoversStatuses == Spec => []StatusTrail
<1>1. Inv => StatusTrail
  BY DEF Inv
<1> QED
  BY <1>1, Invariance, PTL

\* No edit overwrites a version its operator has not seen.
THEOREM NoLostUpdate == Spec => EditReplacesWhatWasRead
<1>1. Inv /\ [Next]_vars =>
        [\A o \in Operators : Commit(o) /\ request[o].op = "UPDATE"
           => product[request[o].id].version = request[o].version]_vars
  <2> SUFFICES ASSUME Inv, NEW o \in Operators, Commit(o), request[o].op = "UPDATE"
               PROVE  product[request[o].id].version = request[o].version
    OBVIOUS
  <2>1. request[o].op \in ProductCommands /\ request[o].op \notin CategoryCommands
    BY DEF ProductCommands, CategoryCommands
  <2>2. txn[o].before = product[request[o].id]
    BY <2>1, AtCommit DEF Inv
  <2>3. WriteIsOneStep(o) /\ HasWritten(o)
    BY <2>1 DEF Inv, TransactionsAreSound, HasWritten, Commit, At
  <2> QED
    BY <2>2, <2>3 DEF WriteIsOneStep
<1> QED
  BY <1>1, Invariance, PTL DEF Spec, EditReplacesWhatWasRead

\* Whatever runs concurrently, a product moves along the lifecycle's edges only.
THEOREM LegalEdgesOnly == Spec => OnlyLegalEdges
<1>1. Inv /\ [Next]_vars =>
        [\A p \in Products : Exists(p) /\ product'[p].status # product[p].status
           => LegalEdge(product[p].status, product'[p].status)]_vars
  <2> SUFFICES ASSUME Inv, [Next]_vars, NEW p \in Products, Exists(p),
                      product'[p].status # product[p].status
               PROVE  LegalEdge(product[p].status, product'[p].status)
    OBVIOUS
  <2>1. PICK o \in Operators : Commit(o)
    BY OnlyCommitsWrite
  <2>2. product'[p] # product[p] /\ product[p].version # 0
    BY DEF Inv, TypeOK, Exists
  <2>3. /\ request[o].op \in LifecycleAction
        /\ NextStatus(product[p].status, request[o].op) # ErrInvalidTransition
        /\ product'[p].status = NextStatus(product[p].status, request[o].op)
    BY <2>1, <2>2, CommitStep DEF Inv
  <2> QED
    BY <2>3, NextStatusType DEF LegalEdge
<1> QED
  BY <1>1, Invariance, PTL DEF Spec, OnlyLegalEdges
=============================================================================
