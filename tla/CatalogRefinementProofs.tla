----------------------- MODULE CatalogRefinementProofs -----------------------
(***************************************************************************)
(* The interleaved transactions of CatalogAdmin implement the atomic       *)
(* catalog of Catalog, for any number of operators, products, categories   *)
(* and names.                                                              *)
(*                                                                         *)
(* A COMMIT is the one step that is not a stutter.  Most of what its       *)
(* command promises is the invariants of CatalogAdminProofs and            *)
(* CatalogNamesProofs; what is left is that the names it writes are names, *)
(* that the category it puts a product in exists, and that the category it *)
(* creates does not while the one it renames does.                         *)
(*                                                                         *)
(* From the same step by step argument follows what a reader of a product, *)
(* joined with its category, sees of the commands.  The last part is about *)
(* lock waits: a written name has one claimant, so on a cycle there would  *)
(* be more transactions to wait for than renames that want a name, unless  *)
(* all of it is renames.  That is counting, and needs finitely many        *)
(* operators.                                                              *)
(***************************************************************************)
EXTENDS CatalogNamesProofs, FiniteSetTheorems

\* A products row may refer to c.
Known(c) == c = NoCategory \/ (c \in Categories /\ category[c] # NoName)

\* What o was asked for has a name.
AskedFor(o) ==
  /\ request[o].op \in {"CREATE", "UPDATE"} => request[o].name \in Names
  /\ request[o].op \in CategoryCommands => request[o].category \in CategoryNames

\* The row an insert or an edit of o has written is one the catalog may hold.
RowInHand(o) ==
  request[o].op \in {"CREATE", "UPDATE"}
    /\ (pc[o] \in {"indexNewRow", "uniqueName"} \/ HasWritten(o))
    => txn[o].after.name \in Names /\ Known(txn[o].after.category)

\* o has inserted a category that nobody sees yet.
HasNewCategory(o) == request[o].op = "CREATE CATEGORY" /\ HasNamedCategory(o)

\* The category o renames exists, the one it creates does not, and no product is read.
CategoryInHand(o) ==
  /\ request[o].op \in CategoryCommands /\ pc[o] \in Statements => txn[o].before = NoRow
  /\ HasNewCategory(o) => category[request[o].id] = NoName
  /\ request[o].op = "UPDATE CATEGORY"
     /\ pc[o] \in {"updateCategory", "uniqueCategoryName", "insertAudit", "commit"}
       => category[request[o].id] # NoName

Ready(o) == AskedFor(o) /\ RowInHand(o) /\ CategoryInHand(o)

NewCategoriesAreDistinct ==
  \A o, x \in Operators :
    o # x /\ HasNewCategory(o) /\ HasNewCategory(x) => request[o].id # request[x].id

RowsAreNamed == \A p \in Products : Exists(p) => product[p].name \in Names

ReadyInv ==
  /\ \A o \in Operators : Ready(o)
  /\ NewCategoriesAreDistinct
  /\ RowsAreNamed

-----------------------------------------------------------------------------
(* The invariant. *)

LEMMA ReadyInit == Init => ReadyInv
<1> SUFFICES ASSUME Init PROVE ReadyInv
  OBVIOUS
<1>1. \A o \in Operators : request[o].op = NoCommand
  BY DEF Init, NoRequest
<1>2. \A o \in Operators : Ready(o)
  BY <1>1 DEF Ready, AskedFor, RowInHand, CategoryInHand, HasNewCategory, NoCommand,
              CategoryCommands
<1>3. NewCategoriesAreDistinct
  BY <1>1 DEF NewCategoriesAreDistinct, HasNewCategory, NoCommand
<1>4. RowsAreNamed
  BY DEF Init, RowsAreNamed, Exists, SeedRow, NoRow
<1> QED
  BY <1>2, <1>3, <1>4 DEF ReadyInv

\* A step of o that commits nothing and leaves o ready.
LEMMA StillReady ==
  ASSUME ReadyInv, NEW o \in Operators, Local(o), category' = category, Ready(o)',
         HasNewCategory(o)' =>
           \A x \in Operators : x # o /\ HasNewCategory(x) => request[x].id # request'[o].id
  PROVE  ReadyInv'
<1>1. \A x \in Operators : x # o => (HasNewCategory(x)' <=> HasNewCategory(x))
  BY DEF Local, HasNewCategory, HasNamedCategory
<1>2. ASSUME NEW x \in Operators, x # o PROVE Ready(x)'
  <2>1. Ready(x)
    BY DEF ReadyInv
  <2>2. /\ pc'[x] = pc[x] /\ request'[x] = request[x] /\ txn'[x] = txn[x]
        /\ category' = category
    BY <1>2 DEF Local
  <2>3. AskedFor(x)'
    BY <2>1, <2>2 DEF Ready, AskedFor
  <2>4. RowInHand(x)'
    BY <2>1, <2>2 DEF Ready, RowInHand, HasWritten, Known
  <2>5. CategoryInHand(x)'
    <3>1. CategoryInHand(x) /\ (HasNewCategory(x)' <=> HasNewCategory(x))
      BY <1>1, <1>2, <2>1 DEF Ready
    <3> QED
      BY <2>2, <3>1 DEF CategoryInHand
  <2> QED
    BY <2>3, <2>4, <2>5 DEF Ready
<1>3. NewCategoriesAreDistinct'
  BY <1>1 DEF ReadyInv, NewCategoriesAreDistinct, Local
<1>4. RowsAreNamed'
  BY DEF ReadyInv, RowsAreNamed, Exists, Local
<1> QED
  BY <1>2, <1>3, <1>4 DEF ReadyInv

\* Where nothing is written, a command that asks for names is enough.
LEMMA ReadyToStart ==
  ASSUME NEW o \in Operators, AskedFor(o)',
         \/ pc'[o] \in {"idle", "editing", "answered"}
         \/ pc'[o] \in Unstarted /\ txn'[o].before = NoRow
  PROVE  Ready(o)' /\ ~HasNewCategory(o)'
BY DEF Ready, RowInHand, CategoryInHand, HasWritten, HasNewCategory, HasNamedCategory, Unstarted,
       Statements

\* Requests, refusals, failures and answers.
LEMMA QuietStepsReady ==
  ASSUME TypeOK, TransactionsAreSound, ReadyInv, NEW o \in Operators,
         Submit(o) \/ Respond(o) \/ \E err \in Answers : Rollback(o, err)
  PROVE  ReadyInv'
<1>1. Local(o) /\ category' = category
  <2>1. CASE Submit(o)
    BY <2>1 DEF Submit, Begin, OpenProduct, SubmitUpdate, SubmitCreate, SubmitTransition,
                SubmitCreateCategory, SubmitUpdateCategory, Resend, Local, TypeOK
  <2>2. CASE Respond(o) \/ \E err \in Answers : Rollback(o, err)
    BY <2>2 DEF Respond, Rollback, Local, TypeOK
  <2> QED
    BY <2>1, <2>2
<1>2. ASSUME AskedFor(o)',
             \/ pc'[o] \in {"idle", "editing", "answered"}
             \/ pc'[o] \in Unstarted /\ txn'[o].before = NoRow
      PROVE  ReadyInv'
  <2>1. Ready(o)' /\ ~HasNewCategory(o)'
    BY <1>2, ReadyToStart
  <2> QED
    BY <1>1, <2>1, StillReady
<1>3. ASSUME NEW req, NEW s \in Unstarted, Begin(o, req, s),
             req.op \in {"CREATE", "UPDATE"} => req.name \in Names,
             req.op \in CategoryCommands => req.category \in CategoryNames
      PROVE  ReadyInv'
  <2>1. request'[o] = req /\ pc'[o] = s /\ txn'[o] = [NoTransaction EXCEPT !.start = clock]
    BY <1>3 DEF Begin, TypeOK
  <2>2. txn'[o].before = NoRow
    BY <2>1 DEF NoTransaction
  <2> QED
    BY <1>2, <1>3, <2>1, <2>2 DEF AskedFor
<1>4. request[o] \in Request /\ AskedFor(o)
  BY DEF TypeOK, ReadyInv, Ready
<1>5. CASE OpenProduct(o)
  <2>1. PICK p \in Products : Exists(p) /\ request' = [request EXCEPT ![o] =
            [NoRequest EXCEPT !.op = "UPDATE", !.id = p, !.name = product[p].name,
                              !.category = CategoryNameOf(product[p].category),
                              !.version = product[p].version]]
    BY <1>5 DEF OpenProduct
  <2>2. request'[o].op = "UPDATE" /\ request'[o].name = product[p].name
    BY <2>1 DEF TypeOK, NoRequest
  <2>3. AskedFor(o)'
    BY <2>1, <2>2 DEF AskedFor, ReadyInv, RowsAreNamed, CategoryCommands
  <2>4. pc'[o] = "editing"
    BY <1>5 DEF OpenProduct, TypeOK
  <2> QED
    BY <1>2, <2>3, <2>4
<1>6. CASE SubmitUpdate(o)
  <2>1. PICK name \in Names, label \in CategoryNames \cup {NoName} :
          Begin(o, [request[o] EXCEPT !.name = name, !.category = label], "joinRead")
    BY <1>6 DEF SubmitUpdate
  <2> DEFINE req == [request[o] EXCEPT !.name = name, !.category = label]
  <2>2. req.name \in Names /\ req.op = request[o].op
    BY <1>4 DEF Request
  <2>3. req.op = "UPDATE"
    BY <1>6, <2>2 DEF SubmitUpdate, TransactionsAreSound, CommandFits
  <2> QED
    BY <1>3, <2>1, <2>2, <2>3 DEF Unstarted, CategoryCommands
<1>7. CASE SubmitCreate(o)
  <2>1. PICK name \in Names, label \in CategoryNames \cup {NoName} :
          Begin(o, [NoRequest EXCEPT !.op = "CREATE", !.name = name, !.category = label],
                "insertProduct")
    BY <1>7 DEF SubmitCreate
  <2> DEFINE req == [NoRequest EXCEPT !.op = "CREATE", !.name = name, !.category = label]
  <2>2. req.name \in Names /\ req.op = "CREATE"
    BY DEF NoRequest
  <2> QED
    BY <1>3, <2>1, <2>2 DEF Unstarted, CategoryCommands
<1>8. CASE SubmitTransition(o)
  <2>1. PICK p \in Products, action \in LifecycleAction :
          Begin(o, [NoRequest EXCEPT !.op = action, !.id = p], "selectForUpdate")
    BY <1>8 DEF SubmitTransition
  <2> DEFINE req == [NoRequest EXCEPT !.op = action, !.id = p]
  <2>2. req.op \in LifecycleAction
    BY DEF NoRequest
  <2> QED
    BY <1>3, <2>1, <2>2 DEF Unstarted, CategoryCommands, LifecycleAction
<1>9. CASE SubmitCreateCategory(o)
  <2>1. PICK name \in CategoryNames :
          Begin(o, [NoRequest EXCEPT !.op = "CREATE CATEGORY", !.category = name],
                "insertCategory")
    BY <1>9 DEF SubmitCreateCategory
  <2> DEFINE req == [NoRequest EXCEPT !.op = "CREATE CATEGORY", !.category = name]
  <2>2. req.category \in CategoryNames /\ req.op = "CREATE CATEGORY"
    BY DEF NoRequest
  <2> QED
    BY <1>3, <2>1, <2>2 DEF Unstarted
<1>10. CASE SubmitUpdateCategory(o)
  <2>1. PICK c \in Categories, name \in CategoryNames :
          Begin(o, [NoRequest EXCEPT !.op = "UPDATE CATEGORY", !.id = c, !.category = name],
                "lockCategory")
    BY <1>10 DEF SubmitUpdateCategory
  <2> DEFINE req == [NoRequest EXCEPT !.op = "UPDATE CATEGORY", !.id = c, !.category = name]
  <2>2. req.category \in CategoryNames /\ req.op = "UPDATE CATEGORY"
    BY DEF NoRequest
  <2> QED
    BY <1>3, <2>1, <2>2 DEF Unstarted
<1>11. CASE Resend(o)
  <2> DEFINE again == [request[o] EXCEPT !.id = NoTarget]
  <2>1. /\ again.op = request[o].op /\ again.name = request[o].name
        /\ again.category = request[o].category
    BY <1>4 DEF Request
  <2>2. \/ Begin(o, again, "insertProduct") \/ Begin(o, again, "insertCategory")
        \/ Begin(o, request[o], "joinRead") \/ Begin(o, request[o], "lockCategory")
        \/ Begin(o, request[o], "selectForUpdate")
    BY <1>11 DEF Resend
  <2> HIDE DEF again
  <2>3. CASE Begin(o, again, "insertProduct") \/ Begin(o, again, "insertCategory")
    BY <1>3, <1>4, <2>1, <2>3 DEF AskedFor, Unstarted
  <2>4. CASE \/ Begin(o, request[o], "joinRead") \/ Begin(o, request[o], "lockCategory")
             \/ Begin(o, request[o], "selectForUpdate")
    BY <1>3, <1>4, <2>4 DEF AskedFor, Unstarted
  <2> QED
    BY <2>2, <2>3, <2>4
<1>12. CASE \E err \in Answers : Rollback(o, err)
  <2>1. pc'[o] = "answered" /\ request'[o] = request[o]
    BY <1>12 DEF Rollback, TypeOK
  <2> QED
    BY <1>2, <1>4, <2>1 DEF AskedFor
<1>13. CASE Respond(o)
  <2>1. pc'[o] = "idle" /\ request'[o] = NoRequest
    BY <1>13 DEF Respond, TypeOK
  <2>2. AskedFor(o)'
    BY <2>1 DEF AskedFor, NoRequest, NoCommand, CategoryCommands
  <2> QED
    BY <1>2, <2>1, <2>2
<1> QED
  BY <1>5, <1>6, <1>7, <1>8, <1>9, <1>10, <1>11, <1>12, <1>13 DEF Submit

-----------------------------------------------------------------------------
(* The statements. *)

\* A statement that goes on in its transaction, on the same request.
LEMMA ContinueReady ==
  ASSUME TypeOK, TransactionsAreSound, ReadyInv, NEW o \in Operators, UNCHANGED request,
         NEW t, NEW next, Continue(o, t, next), pc[o] \in Statements,
         request[o].op \in CategoryCommands => t.before = txn[o].before,
         request[o].op \in {"CREATE", "UPDATE"}
           /\ next \in {"indexNewRow", "uniqueName", "foreignKey", "insertAudit", "commit"}
             => \/ t.after.name \in Names /\ Known(t.after.category)
                \/ t.after = txn[o].after /\ (pc[o] = "uniqueName" \/ HasWritten(o)),
         request[o].op = "CREATE CATEGORY" /\ next \in {"insertAudit", "commit"}
           => HasNewCategory(o),
         request[o].op = "UPDATE CATEGORY"
           /\ next \in {"updateCategory", "uniqueCategoryName", "insertAudit", "commit"}
             => \/ category[request[o].id] # NoName
                \/ pc[o] \in {"updateCategory", "uniqueCategoryName", "insertAudit", "commit"}
  PROVE  ReadyInv'
<1>1. /\ Local(o) /\ txn'[o] = t /\ pc'[o] = next /\ request'[o] = request[o]
      /\ category' = category
  BY ContinueLocal DEF Continue
<1>2. AskedFor(o) /\ RowInHand(o) /\ CategoryInHand(o)
  BY DEF ReadyInv, Ready
<1>3. AskedFor(o)'
  BY <1>1, <1>2 DEF AskedFor
<1>4. RowInHand(o)'
  BY <1>1, <1>2 DEF RowInHand, HasWritten, Known
<1>5. HasNewCategory(o)' => HasNewCategory(o)
  BY <1>1 DEF HasNewCategory, HasNamedCategory
<1>6. CategoryInHand(o)'
  BY <1>1, <1>2, <1>5 DEF CategoryInHand
<1>7. HasNewCategory(o)' =>
        \A x \in Operators : x # o /\ HasNewCategory(x) => request[x].id # request'[o].id
  BY <1>1, <1>5 DEF ReadyInv, NewCategoriesAreDistinct
<1> QED
  BY <1>1, <1>3, <1>4, <1>6, <1>7, StillReady DEF Ready

\* The sub-select on a category's name finds one that exists, or none.
LEMMA CategoryIdOfKnown ==
  ASSUME NEW name
  PROVE  Known(CategoryIdOf(name))
<1>1. CASE \E c \in Categories : category[c] = name /\ name # NoName
  BY <1>1 DEF CategoryIdOf, Known
<1>2. CASE ~\E c \in Categories : category[c] = name /\ name # NoName
  BY <1>2 DEF CategoryIdOf, Known
<1> QED
  BY <1>1, <1>2

\* The unique index takes the entry of a new row.
LEMMA IndexNewRowReady ==
  ASSUME TypeOK, TransactionsAreSound, ReadyInv, NEW o \in Operators, IndexNewRow(o)
  PROVE  ReadyInv'
<1>1. CASE Rollback(o, "Conflict") \/ Rollback(o, "Internal")
  BY <1>1, QuietStepsReady DEF Answers
<1>2. CASE ~(Rollback(o, "Conflict") \/ Rollback(o, "Internal"))
  <2>1. PICK p \in Products : request' = [request EXCEPT ![o].id = p]
    BY <1>2 DEF IndexNewRow
  <2>2. Continue(o, txn[o], "foreignKey")
    BY <1>2 DEF IndexNewRow
  <2>3. Local(o) /\ txn'[o] = txn[o] /\ pc'[o] = "foreignKey" /\ category' = category
    BY <2>1, <2>2, ContinueLocal DEF TypeOK, Continue
  <2>4. /\ pc[o] = "indexNewRow" /\ request[o].op = "CREATE"
        /\ AskedFor(o) /\ RowInHand(o)
    BY DEF IndexNewRow, At, TypeOK, TransactionsAreSound, CommandFits, ReadyInv, Ready
  <2>5. request'[o].op = "CREATE" /\ request'[o].name = request[o].name
    BY <2>1, <2>4 DEF TypeOK, Request
  <2>7. AskedFor(o)'
    BY <2>4, <2>5 DEF AskedFor, CategoryCommands
  <2>8. RowInHand(o)'
    BY <2>3, <2>4 DEF RowInHand, Known
  <2>9. CategoryInHand(o)' /\ ~HasNewCategory(o)'
    BY <2>5 DEF CategoryInHand, HasNewCategory, CategoryCommands
  <2> QED
    BY <2>3, <2>7, <2>8, <2>9, StillReady DEF Ready
<1> QED
  BY <1>1, <1>2

\* INSERT INTO categories: the serial gives an id nobody has.
LEMMA InsertCategoryReady ==
  ASSUME TypeOK, TransactionsAreSound, ReadyInv, NEW o \in Operators, InsertCategory(o)
  PROVE  ReadyInv'
<1>1. CASE Rollback(o, "Conflict") \/ Rollback(o, "Internal")
  BY <1>1, QuietStepsReady DEF Answers
<1>2. CASE ~(Rollback(o, "Conflict") \/ Rollback(o, "Internal"))
  <2>1. PICK c \in Categories :
          /\ request' = [request EXCEPT ![o].id = c]
          /\ category[c] = NoName
          /\ \A x \in Operators : ~(request[x].op = "CREATE CATEGORY" /\ request[x].id = c)
    BY <1>2 DEF InsertCategory
  <2>2. Continue(o, txn[o], "insertAudit")
    BY <1>2 DEF InsertCategory
  <2>3. /\ Local(o) /\ txn'[o] = txn[o] /\ pc'[o] = "insertAudit" /\ category' = category
    BY <2>1, <2>2, ContinueLocal DEF TypeOK, Continue
  <2>4. /\ pc[o] = "insertCategory" /\ request[o].op = "CREATE CATEGORY"
        /\ AskedFor(o) /\ CategoryInHand(o)
    BY DEF InsertCategory, At, TransactionsAreSound, CommandFits, ReadyInv, Ready
  <2>5. /\ request'[o].op = "CREATE CATEGORY" /\ request'[o].id = c
        /\ request'[o].category = request[o].category
    BY <2>1, <2>4 DEF TypeOK, Request
  <2>6. AskedFor(o)'
    BY <2>4, <2>5 DEF AskedFor, CategoryCommands
  <2>7. RowInHand(o)'
    BY <2>5 DEF RowInHand
  <2>8. CategoryInHand(o)'
    BY <2>1, <2>3, <2>4, <2>5 DEF CategoryInHand, CategoryCommands, Statements
  <2>9. \A x \in Operators : x # o /\ HasNewCategory(x) => request[x].id # request'[o].id
    BY <2>1, <2>5 DEF HasNewCategory
  <2> QED
    BY <2>3, <2>6, <2>7, <2>8, <2>9, StillReady DEF Ready
<1> QED
  BY <1>1, <1>2

\* Every statement but the COMMIT.
LEMMA StepReady ==
  ASSUME TypeOK, TransactionsAreSound, ReadyInv, NEW o \in Operators, Step(o), ~Commit(o)
  PROVE  ReadyInv'
<1>a. {"NotFound", "VersionConflict", "Conflict", "InvalidTransition"} \subseteq Answers
  BY DEF Answers
<1>e. \A err \in Answers : Rollback(o, err) => ReadyInv'
  BY QuietStepsReady
<1>t. /\ txn[o] \in Transaction /\ CommandFits(o)
      /\ AskedFor(o) /\ RowInHand(o) /\ CategoryInHand(o)
  BY DEF TypeOK, TransactionsAreSound, ReadyInv, Ready
<1>k. ASSUME UNCHANGED request, NEW t, NEW next, Continue(o, t, next),
             pc[o] \in Statements, request[o].op \notin CategoryCommands,
             next \in {"lockRow", "updateProduct", "applyTransition"}
      PROVE  ReadyInv'
  BY <1>k, ContinueReady DEF CategoryCommands
<1>0. CASE InsertProduct(o)
  <2> DEFINE row == [name |-> request[o].name, category |-> CategoryIdOf(request[o].category),
                     status |-> "DRAFT", version |-> 1]
             t == [txn[o] EXCEPT !.after = row]
  <2>1. Continue(o, t, "indexNewRow") /\ UNCHANGED request
    BY <1>0 DEF InsertProduct
  <2>2. pc[o] \in Statements /\ request[o].op = "CREATE"
    BY <1>0, <1>t DEF InsertProduct, At, CommandFits, Statements
  <2>3. t.after.name \in Names /\ Known(t.after.category)
    BY <1>t, <2>2, CategoryIdOfKnown DEF Transaction, AskedFor
  <2> HIDE DEF t
  <2> QED
    BY <2>1, <2>2, <2>3, ContinueReady DEF CategoryCommands
<1>1. CASE IndexNewRow(o) \/ InsertCategory(o)
  BY <1>1, IndexNewRowReady, InsertCategoryReady
<1>2. CASE JoinRead(o)
  <2>1. pc[o] = "joinRead" /\ request[o].op \notin CategoryCommands
    BY <1>2, <1>t DEF JoinRead, At, CommandFits, CategoryCommands
  <2> QED
    BY <1>2, <1>a, <1>e, <1>k, <2>1 DEF JoinRead, Statements
<1>3. CASE LockRow(o)
  <2>1. pc[o] = "lockRow" /\ request[o].op \notin CategoryCommands
    BY <1>3, <1>t DEF LockRow, At, CommandFits, CategoryCommands
  <2> QED
    BY <1>3, <1>a, <1>e, <1>k, <2>1 DEF LockRow, Statements
<1>4. CASE UpdateProduct(o)
  <2> DEFINE row == [name |-> request[o].name, category |-> CategoryIdOf(request[o].category),
                     status |-> product[request[o].id].status,
                     version |-> product[request[o].id].version + 1]
             t == [txn[o] EXCEPT !.after = row]
  <2>1. Rollback(o, "VersionConflict") \/ (Continue(o, t, "uniqueName") /\ UNCHANGED request)
    BY <1>4 DEF UpdateProduct
  <2>2. pc[o] \in Statements /\ request[o].op = "UPDATE"
    BY <1>4, <1>t DEF UpdateProduct, At, CommandFits, Statements
  <2>3. t.after.name \in Names /\ Known(t.after.category)
    BY <1>t, <2>2, CategoryIdOfKnown DEF Transaction, AskedFor
  <2> HIDE DEF t
  <2> QED
    BY <2>1, <2>2, <2>3, <1>a, <1>e, ContinueReady DEF CategoryCommands
<1>5. CASE UniqueName(o)
  <2>1. pc[o] = "uniqueName" /\ pc[o] \in Statements /\ request[o].op = "UPDATE"
    BY <1>5, <1>t DEF UniqueName, At, CommandFits, Statements
  <2> QED
    BY <1>5, <2>1, <1>a, <1>e, ContinueReady DEF UniqueName, CategoryCommands
<1>6. CASE SelectForUpdate(o)
  <2>1. pc[o] = "selectForUpdate" /\ request[o].op \notin CategoryCommands
    BY <1>6, <1>t DEF SelectForUpdate, At, CommandFits, CategoryCommands, LifecycleAction
  <2> QED
    BY <1>6, <1>a, <1>e, <1>k, <2>1 DEF SelectForUpdate, Statements
<1>7. CASE ApplyTransition(o)
  <2>1. /\ pc[o] \in Statements
        /\ request[o].op \notin CategoryCommands \cup {"CREATE", "UPDATE"}
    BY <1>7, <1>t
    DEF ApplyTransition, At, CommandFits, CategoryCommands, LifecycleAction, Statements
  <2> QED
    BY <1>7, <2>1, ContinueReady DEF ApplyTransition, CategoryCommands
<1>8. CASE ForeignKey(o)
  <2>1. pc[o] \in Statements /\ request[o].op \in {"CREATE", "UPDATE"} /\ HasWritten(o)
    BY <1>8, <1>t DEF ForeignKey, At, CommandFits, HasWritten, ProductCommands, Statements
  <2> QED
    BY <1>8, <2>1, ContinueReady DEF ForeignKey, CategoryCommands
<1>9. CASE LockCategory(o)
  <2> DEFINE t == [txn[o] EXCEPT !.label = category[request[o].id]]
  <2>1. \/ Rollback(o, "NotFound")
        \/ /\ category[request[o].id] # NoName
           /\ Continue(o, t, "updateCategory") /\ UNCHANGED request
    BY <1>9 DEF LockCategory
  <2>2. /\ pc[o] \in Statements /\ request[o].op = "UPDATE CATEGORY"
        /\ t.before = txn[o].before
    BY <1>9, <1>t DEF LockCategory, At, CommandFits, Statements, Transaction
  <2> HIDE DEF t
  <2> QED
    BY <2>1, <2>2, <1>a, <1>e, ContinueReady
<1>10. CASE UpdateCategory(o)
  <2>1. /\ pc[o] = "updateCategory" /\ pc[o] \in Statements
        /\ request[o].op = "UPDATE CATEGORY"
    BY <1>10, <1>t DEF UpdateCategory, At, CommandFits, Statements
  <2> QED
    BY <1>10, <2>1, ContinueReady DEF UpdateCategory
<1>11. CASE UniqueCategoryName(o)
  <2>1. /\ pc[o] = "uniqueCategoryName" /\ pc[o] \in Statements
        /\ request[o].op = "UPDATE CATEGORY"
    BY <1>11, <1>t DEF UniqueCategoryName, At, CommandFits, Statements
  <2> QED
    BY <1>11, <2>1, <1>a, <1>e, ContinueReady DEF UniqueCategoryName
<1>12. CASE InsertAudit(o)
  <2> DEFINE t == [txn[o] EXCEPT !.entries = Append(@, EntryOf(o))]
  <2>1. Continue(o, t, "commit") /\ UNCHANGED request /\ pc[o] = "insertAudit"
    BY <1>12 DEF InsertAudit, At
  <2>2. t.after = txn[o].after /\ t.before = txn[o].before
    BY <1>t DEF Transaction
  <2>3. /\ request[o].op \in {"CREATE", "UPDATE"} => HasWritten(o)
        /\ request[o].op = "CREATE CATEGORY" => HasNewCategory(o)
    BY <2>1 DEF HasWritten, HasNewCategory, HasNamedCategory, ProductCommands, CategoryCommands
  <2> HIDE DEF t
  <2> QED
    BY <2>1, <2>2, <2>3, ContinueReady DEF Statements
<1> QED
  BY <1>0, <1>1, <1>2, <1>3, <1>4, <1>5, <1>6, <1>7, <1>8, <1>9, <1>10, <1>11, <1>12 DEF Step

-----------------------------------------------------------------------------
(* The COMMIT. *)

\* What o is about to commit.
LEMMA ReadyToCommit ==
  ASSUME TypeOK, TransactionsAreSound, ReadyInv, NEW o \in Operators, Commit(o)
  PROVE  \/ /\ request[o].op \in ProductCommands /\ request[o].op \notin CategoryCommands
            /\ request[o].id \in Products
            /\ product' = [product EXCEPT ![request[o].id] = txn[o].after]
            /\ category' = category
            /\ txn[o].after.name \in Names
            /\ request[o].op \in {"CREATE", "UPDATE"} => Known(txn[o].after.category)
         \/ /\ request[o].op \in CategoryCommands /\ request[o].op \notin ProductCommands
            /\ request[o].id \in Categories
            /\ category' = [category EXCEPT ![request[o].id] = request[o].category]
            /\ product' = product
            /\ request[o].category \in CategoryNames
            /\ request[o].op = "CREATE CATEGORY" <=> category[request[o].id] = NoName
            /\ txn[o].before = NoRow
<1>1. pc[o] = "commit" /\ CommandFits(o) /\ WriteIsOneStep(o)
  BY DEF Commit, At, TransactionsAreSound
<1>2. AskedFor(o) /\ RowInHand(o) /\ CategoryInHand(o)
  BY DEF ReadyInv, Ready
<1>3. CASE request[o].op \in ProductCommands /\ request[o].id \in Products
  <2>1. HasWritten(o) /\ request[o].op \notin CategoryCommands
    BY <1>1, <1>3 DEF HasWritten, ProductCommands, CategoryCommands, LifecycleAction
  <2>2. /\ product' = [product EXCEPT ![request[o].id] = txn[o].after]
        /\ category' = category
    BY <1>3, <2>1 DEF Commit
  <2>3. CASE request[o].op \in {"CREATE", "UPDATE"}
    BY <1>2, <1>3, <2>1, <2>2, <2>3 DEF RowInHand
  <2>4. CASE request[o].op \in LifecycleAction
    <3>1. txn[o].before = product[request[o].id]
      BY <1>3, AtCommit, <2>1
    <3>2. txn[o].before.version > 0 /\ txn[o].after.name = txn[o].before.name
      BY <1>1, <2>1, <2>4 DEF WriteIsOneStep, MovedRow
    <3>3. txn[o].after.name \in Names
      BY <1>3, <3>1, <3>2 DEF ReadyInv, RowsAreNamed, Exists
    <3> QED
      BY <1>3, <2>1, <2>2, <2>4, <3>3 DEF LifecycleAction
  <2> QED
    BY <1>3, <2>3, <2>4 DEF ProductCommands
<1>4. CASE request[o].op \in CategoryCommands /\ request[o].id \in Categories
  <2>1. request[o].op \notin ProductCommands
    BY <1>4 DEF ProductCommands, CategoryCommands, LifecycleAction
  <2>2. /\ category' = [category EXCEPT ![request[o].id] = request[o].category]
        /\ product' = product
    BY <1>4, <2>1 DEF Commit
  <2>3. /\ request[o].category \in CategoryNames
        /\ txn[o].before = NoRow
        /\ request[o].op = "CREATE CATEGORY" <=> category[request[o].id] = NoName
    BY <1>1, <1>2, <1>4
    DEF AskedFor, CategoryInHand, HasNewCategory, HasNamedCategory, CategoryCommands, Statements
  <2> QED
    BY <1>4, <2>1, <2>2, <2>3
<1> QED
  BY <1>1, <1>3, <1>4 DEF CommandFits

\* A COMMIT takes no category away and none that another transaction creates.
LEMMA CommitReady ==
  ASSUME TypeOK, TransactionsAreSound, ReadyInv, NEW o \in Operators, Commit(o)
  PROVE  ReadyInv'
<1> DEFINE id == request[o].id
<1>1. \A x \in Operators : x # o =>
        pc'[x] = pc[x] /\ request'[x] = request[x] /\ txn'[x] = txn[x]
  BY DEF Commit, TypeOK
<1>2. pc'[o] = "answered" /\ request' = request /\ pc[o] = "commit"
  BY DEF Commit, TypeOK, At
<1>3. \A c \in Categories :
        category'[c] = IF request[o].op \in CategoryCommands /\ c = id
                       THEN request[o].category ELSE category[c]
  BY ReadyToCommit DEF TypeOK
<1>4. \A c \in Categories : category[c] # NoName => category'[c] # NoName
  <2> SUFFICES ASSUME NEW c \in Categories, category[c] # NoName PROVE category'[c] # NoName
    OBVIOUS
  <2>1. request[o].op \in CategoryCommands => request[o].category # NoName
    BY ReadyToCommit, DataAssumption
  <2> QED
    BY <1>3, <2>1
<1>5. \A c : Known(c) => Known(c)'
  BY <1>4 DEF Known
<1>6. \A x \in Operators : HasNewCategory(x)' => x # o /\ HasNewCategory(x)
  BY <1>1, <1>2 DEF HasNewCategory, HasNamedCategory
<1>7. ASSUME NEW x \in Operators, x # o PROVE Ready(x)'
  <2>1. AskedFor(x) /\ RowInHand(x) /\ CategoryInHand(x) /\ CommandFits(x)
    BY DEF ReadyInv, Ready, TransactionsAreSound
  <2>2. pc'[x] = pc[x] /\ request'[x] = request[x] /\ txn'[x] = txn[x]
    BY <1>1, <1>7
  <2>3. AskedFor(x)'
    BY <2>1, <2>2 DEF AskedFor
  <2>4. RowInHand(x)'
    BY <1>5, <2>1, <2>2 DEF RowInHand, HasWritten
  <2>5. HasNewCategory(x)' => category'[request[x].id] = NoName
    <3> SUFFICES ASSUME HasNewCategory(x)' PROVE category'[request[x].id] = NoName
      OBVIOUS
    <3>1. HasNewCategory(x) /\ category[request[x].id] = NoName
      BY <1>6, <2>1 DEF CategoryInHand
    <3>2. request[x].id \in Categories
      BY <2>1, <3>1
      DEF CommandFits, HasNewCategory, HasNamedCategory, ProductCommands, LifecycleAction
    <3>3. request[o].op \in CategoryCommands => request[x].id # id
      <4>1. CASE request[o].op = "CREATE CATEGORY"
        BY <1>2, <1>7, <3>1, <4>1
        DEF ReadyInv, NewCategoriesAreDistinct, HasNewCategory, HasNamedCategory, CategoryCommands
      <4>2. CASE request[o].op = "UPDATE CATEGORY"
        BY <3>1, <4>2, ReadyToCommit DEF CategoryCommands
      <4> QED
        BY <4>1, <4>2 DEF CategoryCommands
    <3> QED
      BY <1>3, <3>1, <3>2, <3>3
  <2>6. request[x].op = "UPDATE CATEGORY"
        /\ pc[x] \in {"updateCategory", "uniqueCategoryName", "insertAudit", "commit"}
          => category'[request[x].id] # NoName
    <3>1. request[x].op = "UPDATE CATEGORY"
          /\ pc[x] \in {"updateCategory", "uniqueCategoryName", "insertAudit", "commit"}
            => request[x].id \in Categories
      BY <2>1 DEF CommandFits, ProductCommands, LifecycleAction
    <3> QED
      BY <1>4, <2>1, <3>1 DEF CategoryInHand
  <2>7. CategoryInHand(x)'
    BY <2>1, <2>2, <2>5, <2>6 DEF CategoryInHand
  <2> QED
    BY <2>3, <2>4, <2>7 DEF Ready
<1>8. Ready(o)'
  <2>1. AskedFor(o)'
    BY <1>2 DEF ReadyInv, Ready, AskedFor
  <2> QED
    BY <1>2, <2>1, ReadyToStart
<1>9. NewCategoriesAreDistinct'
  BY <1>2, <1>6 DEF ReadyInv, NewCategoriesAreDistinct
<1>10. RowsAreNamed'
  BY ReadyToCommit DEF ReadyInv, RowsAreNamed, Exists, TypeOK
<1> QED
  BY <1>7, <1>8, <1>9, <1>10 DEF ReadyInv

\* Every step.
LEMMA ReadyStep == Inv /\ ReadyInv /\ [Next]_vars => ReadyInv'
<1> SUFFICES ASSUME Inv, ReadyInv, [Next]_vars PROVE ReadyInv'
  OBVIOUS
<1> USE DEF Inv
<1>1. CASE UNCHANGED vars
  BY <1>1 DEF vars, ReadyInv, Ready, AskedFor, RowInHand, CategoryInHand, HasNewCategory,
              HasNamedCategory, HasWritten, Known, NewCategoriesAreDistinct, RowsAreNamed, Exists
<1>2. ASSUME NEW o \in Operators, Submit(o) \/ Respond(o) PROVE ReadyInv'
  BY <1>2, QuietStepsReady
<1>3. ASSUME NEW o \in Operators, Step(o) PROVE ReadyInv'
  BY <1>3, StepReady, CommitReady
<1>4. ASSUME NEW o \in Operators, Fail(o) \/ DeadlockVictim(o) PROVE ReadyInv'
  BY <1>4, QuietStepsReady DEF Fail, DeadlockVictim, Answers
<1> QED
  BY <1>1, <1>2, <1>3, <1>4 DEF Next

\* The three invariants, which each rest on the ones before.
THEOREM ReadyInvariance == Spec => [](Inv /\ NamesInv /\ ReadyInv)
BY ReadyInit, ReadyStep, NamesInit, NamesStep, Invariance, PTL DEF Spec

-----------------------------------------------------------------------------
(* The steps of the atomic catalog. *)

\* The audit tables as Catalog sees them.
Said == [t \in Targets |-> [i \in DOMAIN audit[t] |-> Summary(audit[t][i])]]

\* An audit row more is one summary more.
LEMMA SummaryAppend ==
  ASSUME NEW trail \in Seq(AuditEntry), NEW entry \in AuditEntry
  PROVE  [i \in DOMAIN Append(trail, entry) |-> Summary(Append(trail, entry)[i])]
           = Append([i \in DOMAIN trail |-> Summary(trail[i])], Summary(entry))
<1> DEFINE R == {Summary(e) : e \in AuditEntry}
           n == Len(trail)
           said == [i \in DOMAIN trail |-> Summary(trail[i])]
           longer == [i \in DOMAIN Append(trail, entry) |-> Summary(Append(trail, entry)[i])]
<1>1. n \in Nat /\ DOMAIN trail = 1..n /\ \A i \in 1..n : trail[i] \in AuditEntry
  OBVIOUS
<1>2. /\ DOMAIN Append(trail, entry) = 1..(n + 1)
      /\ \A i \in 1..n : Append(trail, entry)[i] = trail[i]
      /\ Append(trail, entry)[n + 1] = entry
  OBVIOUS
<1>3. said \in Seq(R) /\ Len(said) = n
  <2>1. said = [i \in 1..n |-> Summary(trail[i])]
    BY <1>1
  <2>2. \A i \in 1..n : Summary(trail[i]) \in R
    BY <1>1
  <2> QED
    BY <1>1, <2>1, <2>2
<1>4. Summary(entry) \in R
  OBVIOUS
<1> HIDE DEF R
<1>5. /\ DOMAIN Append(said, Summary(entry)) = 1..(n + 1)
      /\ \A i \in 1..n : Append(said, Summary(entry))[i] = said[i]
      /\ Append(said, Summary(entry))[n + 1] = Summary(entry)
      /\ Append(said, Summary(entry)) = [i \in 1..(n + 1) |-> Append(said, Summary(entry))[i]]
  <2> DEFINE t == Append(said, Summary(entry))
  <2> HIDE DEF said
  <2>1. /\ t \in Seq(R) /\ Len(t) = n + 1
        /\ \A i \in 1..n : t[i] = said[i]
        /\ t[n + 1] = Summary(entry)
    BY <1>1, <1>3, <1>4, AppendProperties
  <2> HIDE DEF t
  <2>2. DOMAIN t = 1..(n + 1) /\ t = [i \in 1..(n + 1) |-> t[i]]
    BY <2>1
  <2> QED
    BY <2>1, <2>2 DEF t
<1>6. \A i \in 1..(n + 1) : longer[i] = Append(said, Summary(entry))[i]
  <2>1. ASSUME NEW i \in 1..n PROVE longer[i] = Append(said, Summary(entry))[i]
    BY <1>1, <1>2, <1>5
  <2>2. longer[n + 1] = Append(said, Summary(entry))[n + 1]
    BY <1>1, <1>2, <1>5
  <2> QED
    BY <1>1, <2>1, <2>2
<1>7. longer = [i \in 1..(n + 1) |-> longer[i]]
  BY <1>2
<1> QED
  BY <1>5, <1>6, <1>7

\* A COMMIT says what it did, once, of its target.
LEMMA CommitSays ==
  ASSUME TypeOK, TransactionsAreSound, NEW o \in Operators, Commit(o)
  PROVE  Said' = [Said EXCEPT ![request[o].id] = Append(@, Summary(EntryOf(o)))]
<1> DEFINE id == request[o].id
<1>1. /\ id \in Targets /\ txn[o].entries = <<EntryOf(o)>> /\ EntryOf(o) \in AuditEntry
  BY AtCommit DEF Targets
<1>2. \A t \in Targets : audit[t] \in Seq(AuditEntry)
  BY DEF TypeOK
<1>3. audit' = [audit EXCEPT ![id] = Append(@, EntryOf(o))]
  <2>1. audit[id] \o <<EntryOf(o)>> = Append(audit[id], EntryOf(o))
    BY <1>1, <1>2, AppendIsConcat
  <2> QED
    BY <1>1, <2>1 DEF Commit
<1>4. \A t \in Targets : audit'[t] = IF t = id THEN Append(audit[t], EntryOf(o)) ELSE audit[t]
  BY <1>3 DEF TypeOK
<1>5. Said'[id] = Append(Said[id], Summary(EntryOf(o)))
  <2> DEFINE entry == EntryOf(o)
  <2>0. entry \in AuditEntry /\ audit[id] \in Seq(AuditEntry)
    BY <1>1, <1>2
  <2>1. Said'[id] = [i \in DOMAIN Append(audit[id], EntryOf(o)) |->
                       Summary(Append(audit[id], EntryOf(o))[i])]
    BY <1>1, <1>4 DEF Said
  <2>2. Said[id] = [i \in DOMAIN audit[id] |-> Summary(audit[id][i])]
    BY <1>1 DEF Said
  <2> HIDE DEF entry
  <2>3. [i \in DOMAIN Append(audit[id], entry) |-> Summary(Append(audit[id], entry)[i])]
          = Append([i \in DOMAIN audit[id] |-> Summary(audit[id][i])], Summary(entry))
    BY <2>0, SummaryAppend
  <2> QED
    BY <2>1, <2>2, <2>3 DEF entry
<1>6. \A t \in Targets : t # id => Said'[t] = Said[t]
  BY <1>4 DEF Said
<1>7. DOMAIN Said' = Targets /\ DOMAIN Said = Targets
  BY DEF Said
<1> QED
  BY <1>1, <1>5, <1>6, <1>7 DEF Said

\* A moved row differs from the row in its status and its version only.
LEMMA MovedRowKeepsTheRest ==
  ASSUME NEW row \in Row, NEW status
  PROVE  MovedRow(row, status) = [row EXCEPT !.status = status, !.version = @ + 1]
<1> DEFINE moved == [row EXCEPT !.status = status, !.version = @ + 1]
<1>1. row = [f \in {"name", "category", "status", "version"} |-> row[f]]
  BY DEF Row
<1>2. moved = [f \in {"name", "category", "status", "version"} |-> moved[f]]
  BY <1>1
<1>3. /\ moved["name"] = row["name"] /\ moved["category"] = row["category"]
      /\ moved["status"] = status /\ moved["version"] = row["version"] + 1
  BY <1>1
<1> HIDE DEF moved
<1>4. MovedRow(row, status) = moved
  BY <1>2, <1>3 DEF MovedRow
<1> QED
  BY <1>4 DEF moved

\* Two columns of a row may be written one by one or with the row.
LEMMA MoveInPlace ==
  ASSUME NEW rows \in [Products -> Row], NEW p \in Products, NEW status,
         NEW row, row = [rows[p] EXCEPT !.status = status, !.version = @ + 1]
  PROVE  [rows EXCEPT ![p] = row] = [rows EXCEPT ![p].status = status, ![p].version = @ + 1]
OBVIOUS

\* The COMMIT of a product command.
LEMMA ProductCommit ==
  ASSUME Inv, NamesInv, ReadyInv, NEW o \in Operators, Commit(o),
         NEW op \in ProductCommands, op = request[o].op, NEW p, p = request[o].id
  PROVE  Abstract!Next
<1> USE DEF Inv
<1> DEFINE after == txn[o].after
<1>1. /\ p \in Products /\ product' = [product EXCEPT ![p] = after] /\ category' = category
      /\ after.name \in Names
      /\ op \in {"CREATE", "UPDATE"} => Known(after.category)
  BY ReadyToCommit
<1>2. /\ txn[o].before = product[p] /\ after \in Row
      /\ after.version = product[p].version + 1
  BY AtCommit
<1>3. WriteIsOneStep(o) /\ HasWritten(o)
  BY DEF TransactionsAreSound, HasWritten, Commit, At
<1>4. /\ Said' = [Said EXCEPT ![p] = Append(@, Summary(EntryOf(o)))]
      /\ Summary(EntryOf(o)) =
           [action |-> op, versionBefore |-> product[p].version,
            versionAfter |-> product[p].version + 1,
            statusBefore |-> IF op \in LifecycleAction THEN product[p].status ELSE NoStatus,
            statusAfter |-> IF op \in LifecycleAction
                            THEN NextStatus(product[p].status, op) ELSE NoStatus]
  BY <1>2, CommitSays DEF Summary, EntryOf
<1>5. Abstract!NameIsFree(p, after.name)
  BY <1>1, <1>3 DEF NamesInv, ProductNamesInv, ProductNamesAreClaimed, Abstract!NameIsFree
<1>6. product[p] \in Row
  BY <1>1 DEF TypeOK
<1>7. CASE op = "CREATE"
  <2>1. product[p].version = 0 /\ after.status = "DRAFT"
    BY <1>2, <1>3, <1>7 DEF WriteIsOneStep, NoRow
  <2>2. after = [name |-> after.name, category |-> after.category, status |-> "DRAFT",
                 version |-> 1]
    BY <1>2, <2>1 DEF Row
  <2>3. Summary(EntryOf(o)) = Abstract!Record("CREATE", 0, 1, NoStatus, NoStatus)
    BY <1>4, <1>7, <2>1 DEF Abstract!Record, LifecycleAction
  <2>4. Said' = [Said EXCEPT ![p] = Append(@, Abstract!Record("CREATE", 0, 1, NoStatus, NoStatus))]
    BY <1>4, <2>3
  <2>5. \E name \in Names, c \in Abstract!SomeCategory :
          /\ Abstract!NameIsFree(p, name)
          /\ product' = [product EXCEPT ![p] =
               [name |-> name, category |-> c, status |-> "DRAFT",
                version |-> 1]]
    <3>1. after.category \in Abstract!SomeCategory
      BY <1>1, <1>7 DEF Known, Abstract!SomeCategory
    <3> QED
      BY <1>1, <1>5, <2>2, <3>1
  <2>6. ~Abstract!Exists(p) /\ UNCHANGED category
    BY <1>1, <2>1 DEF Abstract!Exists
  <2>7. Abstract!Create(p)
    BY <2>4, <2>5, <2>6, Zenon DEF Abstract!Create, Said, Abstract!NoStatus, NoStatus
  <2> QED
    BY <1>1, <2>7 DEF Abstract!Next
<1>8. CASE op = "UPDATE"
  <2>1. product[p].version > 0 /\ after.status = product[p].status
    BY <1>2, <1>3, <1>8 DEF WriteIsOneStep
  <2>2. after = [name |-> after.name, category |-> after.category,
                 status |-> product[p].status, version |-> product[p].version + 1]
    BY <1>2, <2>1 DEF Row
  <2>3. Summary(EntryOf(o)) = Abstract!Record("UPDATE", product[p].version,
                                              product[p].version + 1, NoStatus, NoStatus)
    BY <1>4, <1>8 DEF Abstract!Record, LifecycleAction
  <2>4. Said' = [Said EXCEPT ![p] = Append(@, Abstract!Record("UPDATE", product[p].version,
                                                       product[p].version + 1,
                                                       NoStatus, NoStatus))]
    BY <1>4, <2>3
  <2>5. \E name \in Names, c \in Abstract!SomeCategory :
          /\ Abstract!NameIsFree(p, name)
          /\ product' = [product EXCEPT ![p] =
               [name |-> name, category |-> c, status |-> product[p].status,
                version |-> product[p].version + 1]]
    <3>1. after.category \in Abstract!SomeCategory
      BY <1>1, <1>8 DEF Known, Abstract!SomeCategory
    <3> QED
      BY <1>1, <1>5, <2>2, <3>1
  <2>6. Abstract!Edit(p)
    BY <1>1, <2>1, <2>4, <2>5
    DEF Abstract!Edit, Abstract!Exists, Said, Abstract!NoStatus, NoStatus
  <2> QED
    BY <1>1, <2>6 DEF Abstract!Next
<1>9. CASE op \in LifecycleAction
  <2>1. /\ product[p].version > 0
        /\ NextStatus(product[p].status, op) # ErrInvalidTransition
        /\ after = MovedRow(product[p], NextStatus(product[p].status, op))
    BY <1>2, <1>3, <1>9 DEF WriteIsOneStep
  <2>2. after = [product[p] EXCEPT !.status = NextStatus(@, op), !.version = @ + 1]
    BY <1>6, <2>1, MovedRowKeepsTheRest
  <2>3. Summary(EntryOf(o)) = Abstract!Record(op, product[p].version, product[p].version + 1,
                                product[p].status, NextStatus(product[p].status, op))
    BY <1>4, <1>9 DEF Abstract!Record
  <2>4. product' = [product EXCEPT ![p].status = NextStatus(@, op), ![p].version = @ + 1]
    <3> DEFINE status == NextStatus(product[p].status, op)
    <3>1. product \in [Products -> Row] /\ after = [product[p] EXCEPT !.status = status,
                                                                    !.version = @ + 1]
      BY <2>2 DEF TypeOK
    <3> HIDE DEF status
    <3>2. product' = [product EXCEPT ![p].status = status, ![p].version = @ + 1]
      BY <1>1, <3>1, MoveInPlace
    <3> QED
      BY <3>2 DEF status
  <2>5. Said' = [Said EXCEPT ![p] = Append(@, Abstract!Record(op, product[p].version,
                   product[p].version + 1, product[p].status, NextStatus(product[p].status, op)))]
    BY <1>4, <2>3
  <2>6. Abstract!Move(p, op)
    BY <1>1, <2>1, <2>4, <2>5
    DEF Abstract!Move, Abstract!Exists, Said, Abstract!NextStatus, NextStatus,
        Abstract!ErrInvalidTransition, ErrInvalidTransition
  <2> QED
    BY <1>1, <1>9, <2>6 DEF Abstract!Next, Abstract!LifecycleAction, LifecycleAction
<1> QED
  BY <1>7, <1>8, <1>9 DEF ProductCommands

\* The COMMIT of a category command.
LEMMA CategoryCommit ==
  ASSUME Inv, NamesInv, ReadyInv, NEW o \in Operators, Commit(o),
         NEW op \in CategoryCommands, op = request[o].op, NEW c, c = request[o].id
  PROVE  Abstract!Next
<1> USE DEF Inv
<1> DEFINE name == request[o].category
<1>1. /\ c \in Categories /\ category' = [category EXCEPT ![c] = name] /\ product' = product
      /\ name \in CategoryNames /\ op \notin ProductCommands
      /\ op = "CREATE CATEGORY" <=> category[c] = NoName
      /\ txn[o].before = NoRow
  BY ReadyToCommit
<1>2. Abstract!CategoryNameIsFree(c, name)
  <2>1. HasNamedCategory(o)
    BY DEF HasNamedCategory, Commit, At
  <2> QED
    BY <1>1, <2>1
    DEF NamesInv, CategoryNamesInv, CategoryNamesAreClaimed, Abstract!CategoryNameIsFree
<1>3. Summary(EntryOf(o)) = Abstract!Record(op, 0, 0, NoStatus, NoStatus)
  <2>1. op \notin LifecycleAction
    BY <1>1 DEF ProductCommands
  <2>2. NoRow.version = 0
    BY DEF NoRow
  <2>3. txn[o].before.version = 0
    BY <1>1, <2>2
  <2> QED
    BY <1>1, <2>1, <2>3 DEF Summary, EntryOf, Abstract!Record
<1>4. Said' = [Said EXCEPT ![c] = Append(@, Summary(EntryOf(o)))]
  BY CommitSays
<1>5. Abstract!NameCategory(c, op)
  BY <1>1, <1>2, <1>3, <1>4
  DEF Abstract!NameCategory, Said, Abstract!NoStatus, NoStatus
<1> QED
  BY <1>1, <1>5 DEF Abstract!Next, Abstract!CategoryCommands, CategoryCommands

\* No other step touches the tables.
LEMMA OnlyCommitsName ==
  ASSUME [Next]_vars, \A o \in Operators : ~Commit(o)
  PROVE  UNCHANGED category
<1>1. ASSUME NEW o \in Operators, Submit(o)
      PROVE  UNCHANGED category
  BY <1>1 DEF Submit, Begin, OpenProduct, SubmitUpdate, SubmitCreate, SubmitTransition,
              SubmitCreateCategory, SubmitUpdateCategory, Resend
<1>2. ASSUME NEW o \in Operators, Step(o), ~Commit(o)
      PROVE  UNCHANGED category
  BY <1>2 DEF Step, Rollback, Continue, InsertProduct, IndexNewRow, JoinRead, LockRow,
              UpdateProduct, UniqueName, SelectForUpdate, ApplyTransition, ForeignKey, InsertCategory,
              LockCategory, UpdateCategory, UniqueCategoryName, InsertAudit
<1>3. ASSUME NEW o \in Operators, Fail(o) \/ DeadlockVictim(o) \/ Respond(o)
      PROVE  UNCHANGED category
  BY <1>3 DEF Fail, DeadlockVictim, Respond, Rollback
<1> QED
  BY <1>1, <1>2, <1>3 DEF Next, vars

\* A migrated database is an initial catalog.
LEMMA AbstractInit == Init => Abstract!Init
<1> SUFFICES ASSUME Init PROVE Abstract!Init
  OBVIOUS
<1>1. \A p \in Products : product[p].category \in Abstract!SomeCategory
  <2> SUFFICES ASSUME NEW p \in Products PROVE product[p].category \in Abstract!SomeCategory
    OBVIOUS
  <2>1. product[p].category \in Categories \cup {NoCategory}
    BY DEF Init, SeedRow, NoRow
  <2>2. CategoryNameOf(product[p].category) = NoName => product[p].category = NoCategory
    BY DEF Init
  <2> QED
    BY <2>1, <2>2 DEF CategoryNameOf, Abstract!SomeCategory
<1>2. \A p \in Products : Abstract!Exists(p) => Abstract!NameIsFree(p, product[p].name)
  BY DEF Init, DistinctProductNames, Exists, Abstract!Exists, Abstract!NameIsFree
<1>3. \A c \in Categories :
        category[c] # NoName => Abstract!CategoryNameIsFree(c, category[c])
  BY DEF Init, DistinctCategoryNames, Abstract!CategoryNameIsFree
<1>4. Said = [t \in Targets |-> <<>>]
  BY DEF Init, Said
<1> QED
  BY <1>1, <1>2, <1>3, <1>4
  DEF Init, Abstract!Init, Said, Abstract!SeedRow, SeedRow, Abstract!NoRow, NoRow,
      Abstract!NoStatus, NoStatus, Abstract!Targets, Targets

\* Every step of the interleaved transactions is one atomic command or none.
LEMMA AbstractStep == Inv /\ NamesInv /\ ReadyInv /\ [Next]_vars => [Abstract!Next]_(Abstract!vars)
<1> SUFFICES ASSUME Inv, NamesInv, ReadyInv, [Next]_vars
             PROVE  Abstract!Next \/ UNCHANGED Abstract!vars
  OBVIOUS
<1>1. CASE \E o \in Operators : Commit(o)
  <2>1. PICK o \in Operators : Commit(o)
    BY <1>1
  <2>2. PICK op \in ProductCommands \cup CategoryCommands : op = request[o].op
    BY <2>1, AtCommit DEF Inv
  <2>3. PICK id : id = request[o].id
    OBVIOUS
  <2> QED
    BY <2>1, <2>2, <2>3, ProductCommit, CategoryCommit
<1>2. CASE \A o \in Operators : ~Commit(o)
  <2>1. UNCHANGED <<product, category, audit>>
    BY <1>2, OnlyCommitsWrite, OnlyCommitsName
  <2> QED
    BY <2>1 DEF Abstract!vars
<1> QED
  BY <1>1, <1>2

\* The privileged writers implement the atomic catalog: whatever runs concurrently and
\* wherever a transaction fails, each command takes effect at its COMMIT, entirely, under
\* the guards it was checked against, or not at all.
THEOREM ImplementsCatalog == Spec => CommandsAreAtomic
BY AbstractInit, AbstractStep, ReadyInvariance, PTL DEF Spec, CommandsAreAtomic, Abstract!Spec
-----------------------------------------------------------------------------
(* What the readers of a product see of the commands. *)

\* The foreign key: a row is in a category that exists, or in none.
ReferencesInv == \A p \in Products : product[p].category \in Abstract!SomeCategory

\* A row follows one command of PublicRow.
FollowsOneCommand(p) ==
  OneCommand(RowOf(p), RowOf(p)', CategoryNames \cup {NoName})

\* The name a reader sees is known or missing.
LEMMA LabelType ==
  ASSUME TypeOK, NEW c \in Categories \cup {NoCategory}
  PROVE  CategoryNameOf(c) \in CategoryNames \cup {NoName}
BY DEF CategoryNameOf, TypeOK

\* A row written by a command of the atomic catalog.
LEMMA CreateSeen ==
  ASSUME TypeOK, TypeOK', ReferencesInv, NEW q \in Products, Abstract!Create(q)
  PROVE  /\ ReferencesInv'
         /\ \A p \in Products : Exists(p) => RowOf(p)' = RowOf(p)
<1>1. PICK name \in Names, c \in Abstract!SomeCategory :
        product' = [product EXCEPT ![q] =
          [name |-> name, category |-> c, status |-> "DRAFT", version |-> 1]]
  BY DEF Abstract!Create
<1>2. category' = category /\ ~Exists(q)
  BY DEF Abstract!Create, Abstract!Exists, Exists
<1>3. product'[q].category = c /\ \A p \in Products : p # q => product'[p] = product[p]
  BY <1>1 DEF TypeOK
<1>4. ReferencesInv'
  BY <1>2, <1>3 DEF ReferencesInv, Abstract!SomeCategory
<1>5. ASSUME NEW p \in Products, Exists(p) PROVE RowOf(p)' = RowOf(p)
  BY <1>2, <1>3, <1>5 DEF RowOf, CategoryNameOf
<1> QED
  BY <1>4, <1>5

LEMMA EditSeen ==
  ASSUME TypeOK, TypeOK', ReferencesInv, NEW q \in Products, Abstract!Edit(q)
  PROVE  /\ ReferencesInv'
         /\ \A p \in Products : p # q => RowOf(p)' = RowOf(p)
         /\ FollowsOneCommand(q)
<1>1. PICK name \in Names, c \in Abstract!SomeCategory :
        product' = [product EXCEPT ![q] =
          [name |-> name, category |-> c, status |-> product[q].status,
           version |-> product[q].version + 1]]
  BY DEF Abstract!Edit
<1>2. category' = category
  BY DEF Abstract!Edit
<1>3. /\ product'[q].category = c /\ product'[q].status = product[q].status
      /\ product'[q].version = product[q].version + 1
      /\ \A p \in Products : p # q => product'[p] = product[p]
  BY <1>1 DEF TypeOK
<1>4. ReferencesInv'
  BY <1>2, <1>3 DEF ReferencesInv, Abstract!SomeCategory
<1>5. \A p \in Products : p # q => RowOf(p)' = RowOf(p)
  BY <1>2, <1>3 DEF RowOf, CategoryNameOf
<1>6. CategoryNameOf(c) \in CategoryNames \cup {NoName}
  BY LabelType DEF Abstract!SomeCategory
<1>7. RowOf(q)' = EditedRow(RowOf(q), CategoryNameOf(c))
  BY <1>2, <1>3 DEF RowOf, EditedRow, CategoryNameOf
<1>8. FollowsOneCommand(q)
  BY <1>6, <1>7 DEF FollowsOneCommand, OneCommand
<1> QED
  BY <1>4, <1>5, <1>8

LEMMA MoveSeen ==
  ASSUME TypeOK, TypeOK', ReferencesInv, NEW q \in Products, NEW action \in LifecycleAction,
         Abstract!Move(q, action)
  PROVE  /\ ReferencesInv'
         /\ \A p \in Products : p # q => RowOf(p)' = RowOf(p)
         /\ FollowsOneCommand(q)
<1>1. /\ category' = category
      /\ NextStatus(product[q].status, action) # ErrInvalidTransition
      /\ product' = [product EXCEPT ![q].status = NextStatus(@, action), ![q].version = @ + 1]
  BY DEF Abstract!Move, Abstract!NextStatus, NextStatus, Abstract!ErrInvalidTransition,
         ErrInvalidTransition
<1>2. /\ product'[q].category = product[q].category
      /\ product'[q].status = NextStatus(product[q].status, action)
      /\ product'[q].version = product[q].version + 1
      /\ \A p \in Products : p # q => product'[p] = product[p]
  BY <1>1 DEF TypeOK, Row
<1>3. ReferencesInv'
  BY <1>1, <1>2 DEF ReferencesInv, Abstract!SomeCategory
<1>4. \A p \in Products : p # q => RowOf(p)' = RowOf(p)
  BY <1>1, <1>2 DEF RowOf, CategoryNameOf
<1>5. RowOf(q)' = TransitionedRow(RowOf(q), action)
  BY <1>1, <1>2 DEF RowOf, TransitionedRow, CategoryNameOf
<1>6. FollowsOneCommand(q)
  BY <1>1, <1>5 DEF FollowsOneCommand, OneCommand, RowOf
<1> QED
  BY <1>3, <1>4, <1>6

LEMMA NameCategorySeen ==
  ASSUME TypeOK, TypeOK', ReferencesInv, NEW d \in Categories,
         NEW action \in CategoryCommands, Abstract!NameCategory(d, action)
  PROVE  /\ ReferencesInv'
         /\ \A p \in Products : FollowsOneCommand(p)
<1>1. PICK name \in CategoryNames : category' = [category EXCEPT ![d] = name]
  BY DEF Abstract!NameCategory
<1>2. product' = product
  BY DEF Abstract!NameCategory
<1>3. category'[d] # NoName /\ \A c \in Categories : c # d => category'[c] = category[c]
  BY <1>1, DataAssumption DEF TypeOK
<1>4. ReferencesInv'
  BY <1>2, <1>3 DEF ReferencesInv, Abstract!SomeCategory
<1>5. ASSUME NEW p \in Products PROVE FollowsOneCommand(p)
  <2> DEFINE label == CategoryNameOf(product[p].category)'
  <2>1. product'[p].category \in Categories \cup {NoCategory}
    BY DEF TypeOK, Row
  <2>2. label \in CategoryNames \cup {NoName}
    BY <2>1 DEF TypeOK, CategoryNameOf
  <2>3. RowOf(p)' = RelabelledRow(RowOf(p), label)
    BY <1>2 DEF RowOf, RelabelledRow
  <2> QED
    BY <2>2, <2>3 DEF FollowsOneCommand, OneCommand
<1> QED
  BY <1>4, <1>5

\* One step of the writers, seen from a row.
LEMMA SeenStep ==
  ASSUME Inv, NamesInv, ReadyInv, ReferencesInv, [Next]_vars
  PROVE  /\ ReferencesInv'
         /\ \A p \in Products : Exists(p) /\ RowOf(p)' # RowOf(p) => FollowsOneCommand(p)
<1>1. TypeOK /\ TypeOK'
  BY StepInv DEF Inv
<1>2. Abstract!Next \/ UNCHANGED Abstract!vars
  BY AbstractStep
<1>3. CASE \E q \in Products : Abstract!Create(q)
  BY <1>1, <1>3, CreateSeen
<1>4. CASE \E q \in Products : Abstract!Edit(q)
  BY <1>1, <1>4, EditSeen
<1>5. CASE \E q \in Products, action \in LifecycleAction : Abstract!Move(q, action)
  BY <1>1, <1>5, MoveSeen
<1>6. CASE \E d \in Categories, action \in CategoryCommands : Abstract!NameCategory(d, action)
  BY <1>1, <1>6, NameCategorySeen
<1>7. CASE UNCHANGED Abstract!vars
  BY <1>7 DEF Abstract!vars, ReferencesInv, Abstract!SomeCategory, RowOf, CategoryNameOf
<1> QED
  BY <1>2, <1>3, <1>4, <1>5, <1>6, <1>7
  DEF Abstract!Next, Abstract!LifecycleAction, LifecycleAction, Abstract!CategoryCommands,
      CategoryCommands

\* products.category_id always names a committed category, however the commands on the
\* two tables interleave.
THEOREM CategoriesExist == Spec => []ReferencesInv
<1>1. Init => ReferencesInv
  BY AbstractInit DEF Abstract!Init, ReferencesInv
<1> QED
  BY <1>1, SeenStep, ReadyInvariance, PTL DEF Spec

\* The commands that CatalogCache runs as single steps beside the public reads are all a
\* reader can see of the interleaved transactions.
THEOREM ReadersSeeOnlyCommands == Spec => ReadersSeeCommands
<1>1. Inv /\ NamesInv /\ ReadyInv /\ ReferencesInv /\ [Next]_vars
        => \A p \in Products : Exists(p) /\ RowOf(p)' # RowOf(p)
             => OneCommand(RowOf(p), RowOf(p)', CategoryNames \cup {NoName})
  BY SeenStep DEF FollowsOneCommand
<1> QED
  BY <1>1, ReadyInvariance, CategoriesExist, PTL DEF Spec, ReadersSeeCommands

-----------------------------------------------------------------------------
(* Lock waits. *)

\* Where a transaction may wait, and where it may hold what another one waits for.
Waiting == {"lockRow", "selectForUpdate", "indexNewRow", "uniqueName", "foreignKey",
            "lockCategory", "insertCategory", "uniqueCategoryName"}

Holding == {"updateProduct", "uniqueName", "applyTransition", "foreignKey", "insertAudit",
            "commit", "updateCategory", "uniqueCategoryName"}

LEMMA WaitersAndHolders ==
  ASSUME NEW o \in Operators, NEW x \in Operators, WaitsFor(o, x)
  PROVE  o # x /\ pc[o] \in Waiting /\ pc[x] \in Holding
BY DEF WaitsFor, HoldsProduct, ClaimsName, HasWritten, HoldsCategory, SharesCategory,
       ClaimsCategoryName, Waiting, Holding

\* Whoever waits for a transaction that indexes a product's name, or has just done so,
\* and is waited for itself, is a rename that wants a name.
LEMMA NamesAreWaitedFor ==
  ASSUME NEW o \in Operators, NEW x \in Operators, WaitsFor(o, x), pc[o] \in Holding,
         pc[x] \in {"uniqueName", "foreignKey"}
  PROVE  pc[o] = "uniqueName" /\ ClaimsName(x, request[o].name)
BY DEF WaitsFor, HoldsCategory, SharesCategory, ClaimsCategoryName, Holding

\* Whoever claims a name has locked the row that has it, or has written it.
LEMMA ClaimOf ==
  ASSUME Inv, NEW o \in Operators, NEW name \in Names, ClaimsName(o, name)
  PROVE  /\ request[o].id \in Products /\ HoldsProduct(o, request[o].id)
         /\ \/ HasWritten(o) /\ name = txn[o].after.name
            \/ Exists(request[o].id) /\ name = product[request[o].id].name
<1> DEFINE p == request[o].id
<1>1. CommandFits(o) /\ pc[o] \in {"uniqueName", "foreignKey", "insertAudit", "commit"}
  BY DEF Inv, TransactionsAreSound, ClaimsName, HasWritten
<1>2. request[o].op \in ProductCommands /\ p \in Products
  BY <1>1 DEF ClaimsName, CommandFits, HasWritten, ProductCommands, CategoryCommands,
              LifecycleAction
<1>3. HoldsProduct(o, p)
  BY <1>1, <1>2 DEF HoldsProduct
<1>4. txn[o].before = product[p] /\ product[p] \in Row
  BY <1>2, <1>3 DEF Inv, TransactionsAreSound, ReadsAreCurrent, TypeOK
<1>5. product[p].name = name => Exists(p)
  <2> SUFFICES ASSUME ~Exists(p) PROVE product[p].name # name
    OBVIOUS
  <2>1. product[p].version = 0
    BY <1>4 DEF Exists, Row
  <2>2. product[p] = NoRow
    BY <1>2, <2>1 DEF Inv, TransactionsAreSound
  <2> QED
    BY <2>2, DataAssumption DEF NoRow
<1> QED
  BY <1>2, <1>3, <1>4, <1>5 DEF ClaimsName

\* The unique index has one transaction to wait for.
LEMMA OneClaim ==
  ASSUME Inv, NamesInv, NEW o \in Operators, NEW x \in Operators, NEW name \in Names,
         ClaimsName(o, name), ClaimsName(x, name)
  PROVE  o = x
<1> SUFFICES ASSUME o # x PROVE FALSE
  OBVIOUS
<1>1. request[o].id # request[x].id
  BY ClaimOf DEF Inv, TransactionsAreSound, LocksAreExclusive
<1>2. /\ request[o].id \in Products /\ request[x].id \in Products
      /\ \/ HasWritten(o) /\ name = txn[o].after.name
         \/ Exists(request[o].id) /\ name = product[request[o].id].name
      /\ \/ HasWritten(x) /\ name = txn[x].after.name
         \/ Exists(request[x].id) /\ name = product[request[x].id].name
  BY ClaimOf
<1> QED
  BY <1>1, <1>2 DEF NamesInv, ProductNamesInv, ProductNamesAreClaimed, DistinctProductNames

\* A transaction that has the rows it wants and waits for a category is nowhere on a
\* cycle: renames that want names would have to wait for it, and each of them for
\* another, so that there are more transactions to wait for than renames.
LEMMA NoCycleAtForeignKey ==
  ASSUME Inv, NamesInv, ReadyInv, FinitelyManyOperators,
         NEW D \in SUBSET Operators, NEW o \in D, pc[o] = "foreignKey",
         \A x \in D : (\E y \in D : WaitsFor(x, y)) /\ (\E y \in D : WaitsFor(y, x))
  PROVE  FALSE
<1> DEFINE E == {x \in D : pc[x] = "uniqueName"}
           T == E \cup {o}
           waiter == [x \in T |-> CHOOSE y \in E : WaitsFor(y, x)]
<1>1. ASSUME NEW x \in T PROVE \E y \in E : WaitsFor(y, x)
  <2>1. PICK y \in D : WaitsFor(y, x)
    OBVIOUS
  <2>2. PICK z \in D : WaitsFor(z, y)
    OBVIOUS
  <2>3. pc[y] \in Holding
    BY <2>2, WaitersAndHolders
  <2> QED
    BY <2>1, <2>3, NamesAreWaitedFor
<1>2. \A x \in T : waiter[x] \in E /\ WaitsFor(waiter[x], x)
  BY <1>1
<1>3. ASSUME NEW x \in T, NEW y \in T, waiter[x] = waiter[y] PROVE x = y
  <2> DEFINE w == waiter[x]
  <2>1. w \in Operators /\ pc[w] = "uniqueName" /\ WaitsFor(w, x) /\ WaitsFor(w, y)
    BY <1>2, <1>3
  <2> HIDE DEF w
  <2>2. ClaimsName(x, request[w].name) /\ ClaimsName(y, request[w].name)
    BY <2>1, NamesAreWaitedFor DEF Holding
  <2>3. request[w].op = "UPDATE"
    BY <2>1 DEF Inv, TransactionsAreSound, CommandFits
  <2>4. request[w].name \in Names
    BY <2>1, <2>3 DEF ReadyInv, Ready, AskedFor
  <2> QED
    BY <2>2, <2>4, OneClaim
<1>4. waiter \in Injection(T, E)
  BY <1>2, <1>3 DEF Injection, IsInjective
<1>5. IsFiniteSet(E)
  BY FS_Subset DEF FinitelyManyOperators
<1>6. Cardinality(T) <= Cardinality(E)
  BY <1>4, <1>5, FS_Injection
<1>7. Cardinality(T) = Cardinality(E) + 1 /\ Cardinality(E) \in Nat
  BY <1>5, FS_AddElement, FS_CardinalityType
<1> QED
  BY <1>6, <1>7

\* Rows, names and categories are locked in one order, for any number of operators: the
\* detector only ever has to abort a rename that waits for a name.
THEOREM DeadlocksOfRenames == Spec => []DeadlocksAreNameSwaps
<1>1. Inv /\ NamesInv /\ ReadyInv => DeadlocksAreNameSwaps
  <2> SUFFICES ASSUME Inv, NamesInv, ReadyInv, NEW o \in Operators, Deadlocked(o)
               PROVE  pc[o] \in {"uniqueName", "uniqueCategoryName"}
    BY DEF DeadlocksAreNameSwaps
  <2>1. PICK D \in SUBSET Operators :
          o \in D /\ \A x \in D : /\ \E y \in D : WaitsFor(x, y)
                                  /\ \E y \in D : WaitsFor(y, x)
    BY DEF Deadlocked
  <2>2. pc[o] \in Waiting \cap Holding
    BY <2>1, WaitersAndHolders
  <2>3. pc[o] # "foreignKey"
    BY <2>1, NoCycleAtForeignKey, FinitelyManyOperators
  <2> QED
    BY <2>2, <2>3 DEF Waiting, Holding
<1> QED
  BY <1>1, ReadyInvariance, PTL

\* Of finitely many transactions that all wait for one another, some are on a cycle.
LEMMA SomeAreDeadlocked ==
  ASSUME FinitelyManyOperators, NEW T \in SUBSET Operators, T # {},
         \A o \in T : \E x \in T : WaitsFor(o, x)
  PROVE  \E o \in T : Deadlocked(o)
<1> DEFINE Stuck == {S \in SUBSET T : S # {} /\ \A o \in S : \E x \in S : WaitsFor(o, x)}
<1>1. IsFiniteSet(T)
  BY FS_Subset DEF FinitelyManyOperators
<1>2. IsWellFoundedOn(StrictSubsetOrdering(T), FiniteSubsetsOf(T))
  BY FS_StrictSubsetOrderingWellFounded
<1>3. Stuck \subseteq FiniteSubsetsOf(T) /\ T \in Stuck
  BY <1>1, FS_Subset DEF FiniteSubsetsOf
<1>4. PICK D \in Stuck : \A S \in Stuck : ~(<<S, D>> \in StrictSubsetOrdering(T))
  BY <1>2, <1>3, WFMin
<1>5. ASSUME NEW o \in D PROVE \E x \in D : WaitsFor(x, o)
  <2> SUFFICES ASSUME \A x \in D : ~WaitsFor(x, o) PROVE FALSE
    OBVIOUS
  <2>1. PICK y \in D : WaitsFor(o, y)
    OBVIOUS
  <2>2. y # o
    BY <2>1, WaitersAndHolders
  <2>3. D \ {o} \in Stuck
    BY <2>2
  <2>4. <<D \ {o}, D>> \in StrictSubsetOrdering(T)
    BY DEF StrictSubsetOrdering
  <2> QED
    BY <1>4, <2>3, <2>4
<1>6. PICK o \in D : TRUE
  OBVIOUS
<1>7. Deadlocked(o)
  BY <1>5 DEF Deadlocked
<1> QED
  BY <1>7

\* Nobody waits for a lock that nobody will give back: among the transactions that
\* any of S may be waiting for, one can go on or is for the detector to abort.
WaitsEnd ==
  \A S \in SUBSET Operators :
    /\ \E o \in S : pc[o] \in Statements
    /\ \A o \in S, x \in Operators : WaitsFor(o, x) => x \in S
    => \E o \in S : /\ pc[o] \in Statements
                    /\ Deadlocked(o) \/ \A x \in Operators : ~WaitsFor(o, x)

\* No transaction waits for one that has ended, nor for ever without the detector
\* noticing: a fact of every state, which the fairness of the liveness run needs.
LEMMA LockWaitsEnd == WaitsEnd
<1> SUFFICES ASSUME NEW S \in SUBSET Operators, \E o \in S : pc[o] \in Statements,
                    \A o \in S, x \in Operators : WaitsFor(o, x) => x \in S,
                    \A o \in S : pc[o] \in Statements =>
                      ~Deadlocked(o) /\ \E x \in Operators : WaitsFor(o, x)
             PROVE  FALSE
  BY DEF WaitsEnd
<1> DEFINE T == {o \in S : pc[o] \in Statements}
<1>1. \A o \in T : \E x \in T : WaitsFor(o, x)
  BY WaitersAndHolders DEF Holding, Statements
<1>2. T \in SUBSET Operators /\ T # {}
  OBVIOUS
<1>3. PICK o \in T : Deadlocked(o)
  BY <1>1, <1>2, SomeAreDeadlocked, FinitelyManyOperators
<1> QED
  BY <1>3
=============================================================================
