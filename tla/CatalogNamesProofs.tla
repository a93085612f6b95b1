------------------------- MODULE CatalogNamesProofs -------------------------
(***************************************************************************)
(* Names are unique over the committed rows, for any number of operators,  *)
(* products and categories.                                                *)
(*                                                                         *)
(* NamesAreUnique is not inductive: that a COMMIT adds a name nobody has   *)
(* depends on the unique index, which is consulted statements earlier.     *)
(* What carries over to the COMMIT is that a name once written is claimed: *)
(* no other row has it and no other transaction has written it.            *)
(***************************************************************************)
EXTENDS CatalogAdminProofs

\* The category row of o's transaction is written and not yet committed.
HasNamedCategory(o) ==
  /\ request[o].op \in CategoryCommands
  /\ pc[o] \in {"insertAudit", "commit"}

\* A create has no id before its row is inserted.
CreatesAreNew ==
  \A o \in Operators :
    pc[o] \in {"insertProduct", "indexNewRow", "insertCategory"} => request[o].id = NoTarget

\* At the unique index the new row has the name the index is asked for.
IndexedNameIsWritten ==
  \A o \in Operators :
    pc[o] \in {"indexNewRow", "uniqueName"} => txn[o].after.name = request[o].name

\* A written product name is no other row's, and no other transaction's.
ProductNamesAreClaimed ==
  /\ \A o \in Operators, q \in Products :
       HasWritten(o) /\ q # request[o].id => product[q].name # txn[o].after.name
  /\ \A o, x \in Operators :
       o # x /\ HasWritten(o) /\ HasWritten(x) => txn[o].after.name # txn[x].after.name

\* The same for a written category name.
CategoryNamesAreClaimed ==
  /\ \A o \in Operators, d \in Categories :
       HasNamedCategory(o) /\ d # request[o].id => category[d] # request[o].category
  /\ \A o, x \in Operators :
       o # x /\ HasNamedCategory(o) /\ HasNamedCategory(x)
         => request[o].category # request[x].category

ProductNamesInv == IndexedNameIsWritten /\ ProductNamesAreClaimed /\ DistinctProductNames

CategoryNamesInv == CategoryNamesAreClaimed /\ DistinctCategoryNames

NamesInv == CreatesAreNew /\ ProductNamesInv /\ CategoryNamesInv

-----------------------------------------------------------------------------
\* The migrated tables have distinct names, and nobody has written one.
LEMMA NamesInit == Init => NamesInv
BY DEF Init, NamesInv, CreatesAreNew, ProductNamesInv, IndexedNameIsWritten, ProductNamesAreClaimed,
       CategoryNamesInv, CategoryNamesAreClaimed, HasWritten, HasNamedCategory

\* A step of o that commits nothing and claims no name but a free one.
LEMMA ProductClaim ==
  ASSUME ProductNamesInv, NEW o \in Operators, Local(o),
         pc'[o] \in {"indexNewRow", "uniqueName"} => txn'[o].after.name = request'[o].name,
         HasWritten(o)' =>
           /\ \A q \in Products : q # request'[o].id => product[q].name # txn'[o].after.name
           /\ \A x \in Operators :
                x # o /\ HasWritten(x) => txn[x].after.name # txn'[o].after.name
  PROVE  ProductNamesInv'
<1>1. \A x \in Operators : x # o => (HasWritten(x)' <=> HasWritten(x))
  BY DEF Local, HasWritten
<1>2. IndexedNameIsWritten'
  BY DEF ProductNamesInv, IndexedNameIsWritten, Local
<1>3. ProductNamesAreClaimed'
  BY <1>1 DEF ProductNamesInv, ProductNamesAreClaimed, Local
<1>4. DistinctProductNames'
  BY DEF ProductNamesInv, DistinctProductNames, Exists, Local
<1> QED
  BY <1>2, <1>3, <1>4 DEF ProductNamesInv

\* The same for the categories.
LEMMA CategoryClaim ==
  ASSUME CategoryNamesInv, NEW o \in Operators, Local(o), category' = category,
         HasNamedCategory(o)' =>
           /\ \A d \in Categories : d # request'[o].id => category[d] # request'[o].category
           /\ \A x \in Operators :
                x # o /\ HasNamedCategory(x) => request[x].category # request'[o].category
  PROVE  CategoryNamesInv'
<1>1. \A x \in Operators : x # o => (HasNamedCategory(x)' <=> HasNamedCategory(x))
  BY DEF Local, HasNamedCategory
<1>2. CategoryNamesAreClaimed'
  BY <1>1 DEF CategoryNamesInv, CategoryNamesAreClaimed, Local
<1>3. DistinctCategoryNames'
  BY DEF CategoryNamesInv, DistinctCategoryNames
<1> QED
  BY <1>2, <1>3 DEF CategoryNamesInv

\* Where nothing is written or indexed, no name is claimed.
Nameless == {"idle", "editing", "answered", "insertProduct", "joinRead", "lockRow",
             "updateProduct", "selectForUpdate", "applyTransition", "insertCategory",
             "lockCategory", "updateCategory", "uniqueCategoryName"}

LEMMA NamelessStep ==
  ASSUME NamesInv, NEW o \in Operators, Local(o), category' = category, pc'[o] \in Nameless,
         pc'[o] \in {"insertProduct", "insertCategory"} => request'[o].id = NoTarget
  PROVE  NamesInv'
<1>1. ~HasWritten(o)' /\ ~HasNamedCategory(o)' /\ pc'[o] \notin {"indexNewRow", "uniqueName"}
  BY DEF Nameless, HasWritten, HasNamedCategory
<1>2. CreatesAreNew'
  BY DEF NamesInv, CreatesAreNew, Local, Nameless
<1> QED
  BY <1>1, <1>2, ProductClaim, CategoryClaim DEF NamesInv

\* Requests, refusals, failures and answers write no name.
LEMMA QuietSteps ==
  ASSUME TypeOK, NamesInv, NEW o \in Operators,
         Submit(o) \/ Respond(o) \/ \E err \in Answers : Rollback(o, err)
  PROVE  NamesInv'
<1>1. Local(o) /\ category' = category
  <2>1. CASE Submit(o)
    BY <2>1 DEF Submit, Begin, OpenProduct, SubmitUpdate, SubmitCreate, SubmitTransition,
                SubmitCreateCategory, SubmitUpdateCategory, Resend, Local, TypeOK
  <2>2. CASE Respond(o) \/ \E err \in Answers : Rollback(o, err)
    BY <2>2 DEF Respond, Rollback, Local, TypeOK
  <2> QED
    BY <2>1, <2>2
<1>2. /\ pc'[o] \in Nameless
      /\ pc'[o] \in {"insertProduct", "insertCategory"} => request'[o].id = NoTarget
  <2>1. CASE Submit(o)
    <3>1. ASSUME NEW req \in Request, NEW st \in Unstarted, Begin(o, req, st),
                 st \in {"insertProduct", "insertCategory"} => req.id = NoTarget
          PROVE  /\ pc'[o] \in Nameless
                 /\ pc'[o] \in {"insertProduct", "insertCategory"} => request'[o].id = NoTarget
      BY <3>1 DEF Begin, TypeOK, Unstarted, Nameless
    <3>2. CASE OpenProduct(o)
      BY <3>2 DEF OpenProduct, TypeOK, Nameless
    <3>3. CASE SubmitUpdate(o)
      BY <3>3 DEF SubmitUpdate, Begin, TypeOK, Nameless
    <3>4. CASE SubmitCreate(o) \/ SubmitCreateCategory(o)
      <4>1. pc'[o] \in {"insertProduct", "insertCategory"}
        BY <3>4 DEF SubmitCreate, SubmitCreateCategory, Begin, TypeOK
      <4>2. \E name, label : request' = [request EXCEPT ![o] =
              [NoRequest EXCEPT !.op = "CREATE", !.name = name, !.category = label]]
            \/ request' = [request EXCEPT ![o] =
              [NoRequest EXCEPT !.op = "CREATE CATEGORY", !.category = name]]
        BY <3>4, Zenon DEF SubmitCreate, SubmitCreateCategory, Begin
      <4>3. request'[o].id = NoTarget
        BY <4>2 DEF NoRequest, TypeOK
      <4> QED
        BY <4>1, <4>3 DEF Nameless
    <3>5. CASE SubmitTransition(o) \/ SubmitUpdateCategory(o)
      BY <3>5 DEF SubmitTransition, SubmitUpdateCategory, Begin, TypeOK, Nameless
    <3>6. CASE Resend(o)
      <4> DEFINE again == [request[o] EXCEPT !.id = NoTarget]
      <4>1. request[o] \in Request /\ again \in Request /\ again.id = NoTarget
        BY DEF TypeOK, Request
      <4>2. \/ Begin(o, again, "insertProduct") \/ Begin(o, again, "insertCategory")
            \/ Begin(o, request[o], "joinRead") \/ Begin(o, request[o], "lockCategory")
            \/ Begin(o, request[o], "selectForUpdate")
        BY <3>6 DEF Resend
      <4>3. "insertProduct" \in Unstarted /\ "insertCategory" \in Unstarted
            /\ "joinRead" \in Unstarted /\ "lockCategory" \in Unstarted
            /\ "selectForUpdate" \in Unstarted
        BY DEF Unstarted
      <4> HIDE DEF again
      <4>4. CASE Begin(o, again, "insertProduct") \/ Begin(o, again, "insertCategory")
        BY <3>1, <4>1, <4>3, <4>4
      <4>5. CASE \/ Begin(o, request[o], "joinRead") \/ Begin(o, request[o], "lockCategory")
                 \/ Begin(o, request[o], "selectForUpdate")
        BY <3>1, <4>1, <4>3, <4>5
      <4> QED
        BY <4>2, <4>4, <4>5
    <3> QED
      BY <2>1, <3>2, <3>3, <3>4, <3>5, <3>6 DEF Submit
  <2>2. CASE Respond(o) \/ \E err \in Answers : Rollback(o, err)
    BY <2>2 DEF Respond, Rollback, TypeOK, Nameless
  <2> QED
    BY <2>1, <2>2
<1> QED
  BY <1>1, <1>2, NamelessStep

-----------------------------------------------------------------------------
(* The statements that write a name. *)

\* A name no other row has and nobody claims.
LEMMA FreeName ==
  ASSUME NEW o \in Operators, ~NameTaken(o),
         \A x \in Operators : x # o => ~ClaimsName(x, request[o].name)
  PROVE  /\ \A q \in Products : q # request[o].id => product[q].name # request[o].name
         /\ \A x \in Operators :
              x # o /\ HasWritten(x) => txn[x].after.name # request[o].name
BY DEF NameTaken, ClaimsName

\* The unique index takes the entry of a new row.
LEMMA IndexNewRowNames ==
  ASSUME TypeOK, TransactionsAreSound, NamesInv, NEW o \in Operators, IndexNewRow(o)
  PROVE  NamesInv'
<1>1. CASE Rollback(o, "Conflict") \/ Rollback(o, "Internal")
  BY <1>1, QuietSteps DEF Answers
<1>2. CASE ~(Rollback(o, "Conflict") \/ Rollback(o, "Internal"))
  <2>1. PICK p \in Products : request' = [request EXCEPT ![o].id = p] /\ ~Exists(p)
    BY <1>2 DEF IndexNewRow
  <2>2. Continue(o, txn[o], "foreignKey") /\ ~NameTaken(o)
    BY <1>2 DEF IndexNewRow
  <2>3. Local(o) /\ txn'[o] = txn[o] /\ pc'[o] = "foreignKey"
    BY <2>1, <2>2, ContinueLocal DEF TypeOK
  <2>4. pc[o] = "indexNewRow" /\ request[o].op = "CREATE"
    BY DEF IndexNewRow, At, TransactionsAreSound, CommandFits
  <2>5. txn'[o].after.name = request[o].name
    BY <2>3, <2>4 DEF NamesInv, ProductNamesInv, IndexedNameIsWritten
  <2>6. /\ request'[o].name = request[o].name /\ request'[o].id = p
        /\ request'[o].op = "CREATE"
    BY <2>1, <2>4 DEF TypeOK, Request
  <2>7. \A x \in Operators : x # o => ~ClaimsName(x, request[o].name)
    BY <2>4 DEF IndexNewRow, At, WaitsFor
  <2>8. request[o].id \notin Products
    BY <2>4, AdminAssumption DEF NamesInv, CreatesAreNew, Targets
  <2>9. ProductNamesInv'
    BY <2>2, <2>3, <2>5, <2>6, <2>7, <2>8, FreeName, ProductClaim DEF NamesInv
  <2>10. CreatesAreNew' /\ CategoryNamesInv'
    <3>1. ~HasNamedCategory(o)' /\ category' = category
      BY <2>2, <2>3 DEF HasNamedCategory, Continue
    <3>2. CategoryNamesInv'
      BY <2>3, <3>1, CategoryClaim DEF NamesInv
    <3> QED
      BY <2>3, <3>2 DEF NamesInv, CreatesAreNew, Local
  <2> QED
    BY <2>9, <2>10 DEF NamesInv
<1> QED
  BY <1>1, <1>2

\* The unique index of products.name.
LEMMA UniqueNameNames ==
  ASSUME TypeOK, TransactionsAreSound, NamesInv, NEW o \in Operators, UniqueName(o)
  PROVE  NamesInv'
<1>1. CASE Rollback(o, "Conflict")
  BY <1>1, QuietSteps DEF Answers
<1>2. CASE Continue(o, txn[o], "foreignKey") /\ UNCHANGED request /\ ~NameTaken(o)
  <2>1. Local(o) /\ txn'[o] = txn[o] /\ pc'[o] = "foreignKey" /\ request'[o] = request[o]
    BY <1>2, ContinueLocal
  <2>2. pc[o] = "uniqueName" /\ txn[o].after.name = request[o].name
    BY DEF UniqueName, At, NamesInv, ProductNamesInv, IndexedNameIsWritten
  <2>3. \A x \in Operators : x # o => ~ClaimsName(x, request[o].name)
    BY <2>2 DEF UniqueName, At, WaitsFor
  <2>4. ProductNamesInv'
    BY <1>2, <2>1, <2>2, <2>3, FreeName, ProductClaim DEF NamesInv
  <2>5. ~HasNamedCategory(o)' /\ category' = category
    BY <1>2, <2>1 DEF HasNamedCategory, Continue
  <2>6. CategoryNamesInv'
    BY <2>1, <2>5, CategoryClaim DEF NamesInv
  <2>7. CreatesAreNew'
    BY <2>1 DEF NamesInv, CreatesAreNew, Local
  <2> QED
    BY <2>4, <2>6, <2>7 DEF NamesInv
<1> QED
  BY <1>1, <1>2 DEF UniqueName

\* A transition writes the row under the name it has, which is nobody else's.
LEMMA ApplyTransitionNames ==
  ASSUME TypeOK, TransactionsAreSound, NamesInv, NEW o \in Operators, ApplyTransition(o)
  PROVE  NamesInv'
<1> DEFINE p == request[o].id
           row == MovedRow(product[p], NextStatus(txn[o].before.status, request[o].op))
           t == [txn[o] EXCEPT !.after = row]
<1>1. Continue(o, t, "insertAudit") /\ UNCHANGED request
  BY DEF ApplyTransition
<1>2. Local(o) /\ txn'[o] = t /\ pc'[o] = "insertAudit" /\ request'[o] = request[o]
  BY <1>1, ContinueLocal
<1>3. /\ pc[o] = "applyTransition" /\ txn[o] \in Transaction
      /\ request[o].op \in LifecycleAction /\ p \in Products
  BY DEF ApplyTransition, At, TypeOK, TransactionsAreSound, CommandFits
<1>4. txn'[o].after.name = product[p].name
  BY <1>2, <1>3 DEF Transaction, MovedRow
<1>5. HoldsProduct(o, p)
  BY <1>3 DEF HoldsProduct, ProductCommands
<1>6. Exists(p)
  <2>1. txn[o].before = product[p] /\ txn[o].before.version > 0
    BY <1>3, <1>5 DEF TransactionsAreSound, ReadsAreCurrent, WriteIsOneStep
  <2> QED
    BY <2>1 DEF Exists
<1>7. \A q \in Products : q # p => product[q].name # product[p].name
  BY <1>3, <1>6 DEF NamesInv, ProductNamesInv, DistinctProductNames
<1>8. ASSUME NEW x \in Operators, x # o, HasWritten(x)
      PROVE  txn[x].after.name # product[p].name
  <2>1. HoldsProduct(x, request[x].id)
    BY <1>8 DEF HasWritten, HoldsProduct
  <2>2. request[x].id # p
    BY <1>3, <1>5, <1>8, <2>1 DEF TransactionsAreSound, LocksAreExclusive
  <2> QED
    BY <1>3, <1>8, <2>2 DEF NamesInv, ProductNamesInv, ProductNamesAreClaimed
<1>9. ProductNamesInv'
  BY <1>2, <1>4, <1>7, <1>8, ProductClaim DEF NamesInv
<1>10. ~HasNamedCategory(o)' /\ category' = category
  BY <1>1, <1>2, <1>3 DEF HasNamedCategory, Continue, LifecycleAction, CategoryCommands
<1>11. CategoryNamesInv'
  BY <1>2, <1>10, CategoryClaim DEF NamesInv
<1>12. CreatesAreNew'
  BY <1>2 DEF NamesInv, CreatesAreNew, Local
<1> QED
  BY <1>9, <1>11, <1>12 DEF NamesInv

\* A category name no other row has and nobody claims.
LEMMA FreeCategoryName ==
  ASSUME NEW o \in Operators, ~CategoryNameTaken(o),
         \A x \in Operators : x # o => ~ClaimsCategoryName(x, request[o].category)
  PROVE  /\ \A d \in Categories : d # request[o].id => category[d] # request[o].category
         /\ \A x \in Operators :
              x # o /\ HasNamedCategory(x) => request[x].category # request[o].category
BY DEF CategoryNameTaken, ClaimsCategoryName, HasNamedCategory

\* INSERT INTO categories.
LEMMA InsertCategoryNames ==
  ASSUME TypeOK, TransactionsAreSound, NamesInv, NEW o \in Operators, InsertCategory(o)
  PROVE  NamesInv'
<1>1. CASE Rollback(o, "Conflict") \/ Rollback(o, "Internal")
  BY <1>1, QuietSteps DEF Answers
<1>2. CASE ~(Rollback(o, "Conflict") \/ Rollback(o, "Internal"))
  <2>1. PICK c \in Categories : request' = [request EXCEPT ![o].id = c]
    BY <1>2 DEF InsertCategory
  <2>2. Continue(o, txn[o], "insertAudit") /\ ~CategoryNameTaken(o)
    BY <1>2 DEF InsertCategory
  <2>3. Local(o) /\ txn'[o] = txn[o] /\ pc'[o] = "insertAudit"
    BY <2>1, <2>2, ContinueLocal DEF TypeOK
  <2>4. pc[o] = "insertCategory" /\ request[o].op = "CREATE CATEGORY"
    BY DEF InsertCategory, At, TransactionsAreSound, CommandFits
  <2>5. /\ request'[o].category = request[o].category /\ request'[o].id = c
        /\ request'[o].op = "CREATE CATEGORY"
    BY <2>1, <2>4 DEF TypeOK, Request
  <2>6. \A x \in Operators : x # o => ~ClaimsCategoryName(x, request[o].category)
    BY <2>4 DEF InsertCategory, At, WaitsFor
  <2>7. request[o].id \notin Categories
    BY <2>4, AdminAssumption DEF NamesInv, CreatesAreNew, Targets
  <2>8. CategoryNamesInv'
    BY <2>2, <2>3, <2>5, <2>6, <2>7, FreeCategoryName, CategoryClaim DEF NamesInv, Continue
  <2>9. ~HasWritten(o)'
    BY <2>5 DEF HasWritten, ProductCommands, LifecycleAction
  <2>10. ProductNamesInv'
    BY <2>3, <2>9, ProductClaim DEF NamesInv
  <2>11. CreatesAreNew'
    BY <2>3 DEF NamesInv, CreatesAreNew, Local
  <2> QED
    BY <2>8, <2>10, <2>11 DEF NamesInv
<1> QED
  BY <1>1, <1>2

\* The unique index of categories.name.
LEMMA UniqueCategoryNameNames ==
  ASSUME TypeOK, TransactionsAreSound, NamesInv, NEW o \in Operators, UniqueCategoryName(o)
  PROVE  NamesInv'
<1>1. CASE Rollback(o, "Conflict")
  BY <1>1, QuietSteps DEF Answers
<1>2. CASE Continue(o, txn[o], "insertAudit") /\ UNCHANGED request /\ ~CategoryNameTaken(o)
  <2>1. Local(o) /\ txn'[o] = txn[o] /\ pc'[o] = "insertAudit" /\ request'[o] = request[o]
    BY <1>2, ContinueLocal
  <2>2. pc[o] = "uniqueCategoryName" /\ request[o].op = "UPDATE CATEGORY"
    BY DEF UniqueCategoryName, At, TransactionsAreSound, CommandFits
  <2>3. \A x \in Operators : x # o => ~ClaimsCategoryName(x, request[o].category)
    BY <2>2 DEF UniqueCategoryName, At, WaitsFor
  <2>4. CategoryNamesInv'
    BY <1>2, <2>1, <2>3, FreeCategoryName, CategoryClaim DEF NamesInv, Continue
  <2>5. ~HasWritten(o)'
    BY <2>1, <2>2 DEF HasWritten, ProductCommands, LifecycleAction
  <2>6. ProductNamesInv'
    BY <2>1, <2>5, ProductClaim DEF NamesInv
  <2>7. CreatesAreNew'
    BY <2>1 DEF NamesInv, CreatesAreNew, Local
  <2> QED
    BY <2>4, <2>6, <2>7 DEF NamesInv
<1> QED
  BY <1>1, <1>2 DEF UniqueCategoryName

\* A statement that goes on with what was written before it, or writes no name.
LEMMA KeepsNames ==
  ASSUME TypeOK, TransactionsAreSound, NamesInv, NEW o \in Operators, UNCHANGED request,
         NEW t, NEW next, Continue(o, t, next),
         \/ next \in Nameless \ {"insertProduct", "insertCategory"}
         \/ /\ next = "uniqueName" \/ (next = "indexNewRow" /\ request[o].id = NoTarget)
            /\ t.after.name = request[o].name
         \/ /\ next \in {"insertAudit", "commit"} /\ pc[o] \in {"foreignKey", "insertAudit"}
            /\ t.after = txn[o].after
            /\ pc[o] = "foreignKey" => request[o].op \in {"CREATE", "UPDATE"}
  PROVE  NamesInv'
<1>1. /\ Local(o) /\ txn'[o] = t /\ pc'[o] = next
      /\ request'[o] = request[o] /\ category' = category
  BY ContinueLocal DEF Continue
<1>2. CASE next \in Nameless \ {"insertProduct", "insertCategory"}
  BY <1>1, <1>2, NamelessStep
<1>3. CASE /\ next = "uniqueName" \/ (next = "indexNewRow" /\ request[o].id = NoTarget)
           /\ t.after.name = request[o].name
  <2>1. ~HasWritten(o)' /\ ~HasNamedCategory(o)'
    BY <1>1, <1>3 DEF HasWritten, HasNamedCategory
  <2>2. ProductNamesInv' /\ CategoryNamesInv'
    BY <1>1, <1>3, <2>1, ProductClaim, CategoryClaim DEF NamesInv
  <2>3. CreatesAreNew'
    BY <1>1, <1>3 DEF NamesInv, CreatesAreNew, Local
  <2> QED
    BY <2>2, <2>3 DEF NamesInv
<1>4. CASE /\ next \in {"insertAudit", "commit"} /\ pc[o] \in {"foreignKey", "insertAudit"}
           /\ t.after = txn[o].after
           /\ pc[o] = "foreignKey" => request[o].op \in {"CREATE", "UPDATE"}
  <2>1. HasWritten(o)' => HasWritten(o)
    BY <1>1, <1>4 DEF HasWritten
  <2>2. HasNamedCategory(o)' => HasNamedCategory(o)
    BY <1>1, <1>4 DEF HasNamedCategory, CategoryCommands
  <2>3. ProductNamesInv'
    BY <1>1, <1>4, <2>1, ProductClaim DEF NamesInv, ProductNamesInv, ProductNamesAreClaimed
  <2>4. CategoryNamesInv'
    BY <1>1, <2>2, CategoryClaim DEF NamesInv, CategoryNamesInv, CategoryNamesAreClaimed
  <2>5. CreatesAreNew'
    BY <1>1, <1>4 DEF NamesInv, CreatesAreNew, Local
  <2> QED
    BY <2>3, <2>4, <2>5 DEF NamesInv
<1> QED
  BY <1>2, <1>3, <1>4

\* Every statement but the COMMIT.
LEMMA StepNames ==
  ASSUME TypeOK, TransactionsAreSound, NamesInv, NEW o \in Operators, Step(o), ~Commit(o)
  PROVE  NamesInv'
<1> USE DEF Nameless
<1>a. {"NotFound", "VersionConflict", "Conflict", "InvalidTransition"} \subseteq Answers
  BY DEF Answers
<1>e. \A err \in Answers : Rollback(o, err) => NamesInv'
  BY QuietSteps
<1>t. txn[o] \in Transaction /\ CommandFits(o)
  BY DEF TypeOK, TransactionsAreSound
<1>k. ASSUME UNCHANGED request, NEW t, NEW next, Continue(o, t, next),
             next \in {"lockRow", "updateProduct", "applyTransition", "updateCategory",
                       "uniqueCategoryName"}
      PROVE  NamesInv'
  BY <1>k, KeepsNames
<1>0. CASE InsertProduct(o)
  <2> DEFINE row == [name |-> request[o].name, category |-> CategoryIdOf(request[o].category),
                     status |-> "DRAFT", version |-> 1]
             t == [txn[o] EXCEPT !.after = row]
  <2>1. Continue(o, t, "indexNewRow") /\ UNCHANGED request
    BY <1>0 DEF InsertProduct
  <2>2. request[o].id = NoTarget
    BY <1>0 DEF InsertProduct, At, NamesInv, CreatesAreNew
  <2>3. t.after.name = request[o].name
    BY <1>t DEF Transaction
  <2> HIDE DEF t
  <2> QED
    BY <2>1, <2>2, <2>3, KeepsNames
<1>1. CASE IndexNewRow(o) \/ UniqueName(o) \/ ApplyTransition(o)
  BY <1>1, IndexNewRowNames, UniqueNameNames, ApplyTransitionNames
<1>2. CASE InsertCategory(o) \/ UniqueCategoryName(o)
  BY <1>2, InsertCategoryNames, UniqueCategoryNameNames
<1>3. CASE JoinRead(o)
  BY <1>3, <1>a, <1>e, <1>k DEF JoinRead
<1>4. CASE LockRow(o)
  BY <1>4, <1>a, <1>e, <1>k DEF LockRow
<1>5. CASE UpdateProduct(o)
  <2> DEFINE row == [name |-> request[o].name, category |-> CategoryIdOf(request[o].category),
                     status |-> product[request[o].id].status,
                     version |-> product[request[o].id].version + 1]
             t == [txn[o] EXCEPT !.after = row]
  <2>1. Rollback(o, "VersionConflict") \/ (Continue(o, t, "uniqueName") /\ UNCHANGED request)
    BY <1>5 DEF UpdateProduct
  <2>2. t.after.name = request[o].name
    BY <1>t DEF Transaction
  <2> HIDE DEF t
  <2> QED
    BY <2>1, <2>2, <1>a, <1>e, KeepsNames
<1>6. CASE SelectForUpdate(o)
  BY <1>6, <1>a, <1>e, <1>k DEF SelectForUpdate
<1>7. CASE ForeignKey(o)
  <2>1. pc[o] = "foreignKey" /\ request[o].op \in {"CREATE", "UPDATE"}
    BY <1>7, <1>t DEF ForeignKey, At, CommandFits
  <2> QED
    BY <1>7, <2>1, KeepsNames DEF ForeignKey
<1>8. CASE LockCategory(o)
  BY <1>8, <1>a, <1>e, <1>k DEF LockCategory
<1>9. CASE UpdateCategory(o)
  BY <1>9, <1>k DEF UpdateCategory
<1>10. CASE InsertAudit(o)
  <2> DEFINE t == [txn[o] EXCEPT !.entries = Append(@, EntryOf(o))]
  <2>1. Continue(o, t, "commit") /\ UNCHANGED request /\ pc[o] = "insertAudit"
    BY <1>10 DEF InsertAudit, At
  <2>2. t.after = txn[o].after
    BY <1>t DEF Transaction
  <2> HIDE DEF t
  <2> QED
    BY <2>1, <2>2, KeepsNames
<1> QED
  BY <1>0, <1>1, <1>2, <1>3, <1>4, <1>5, <1>6, <1>7, <1>8, <1>9, <1>10 DEF Step

-----------------------------------------------------------------------------
(* The COMMIT. *)

\* What becomes visible was claimed: nobody else has it, and nobody else is writing it.
LEMMA CommitNames ==
  ASSUME TypeOK, TransactionsAreSound, NamesInv, NEW o \in Operators, Commit(o)
  PROVE  NamesInv'
<1> DEFINE id == request[o].id
<1>1. \A x \in Operators : x # o =>
        pc'[x] = pc[x] /\ request'[x] = request[x] /\ txn'[x] = txn[x]
  BY DEF Commit, TypeOK
<1>2. pc'[o] = "answered" /\ request' = request
  BY DEF Commit, TypeOK
<1>3. pc[o] = "commit" /\ CommandFits(o)
  BY DEF Commit, At, TransactionsAreSound
<1>4. \A x \in Operators : HasWritten(x)' => x # o /\ HasWritten(x)
  BY <1>1, <1>2 DEF HasWritten
<1>5. \A x \in Operators : HasNamedCategory(x)' => x # o /\ HasNamedCategory(x)
  BY <1>1, <1>2 DEF HasNamedCategory
<1>6. CreatesAreNew' /\ IndexedNameIsWritten'
  BY <1>1, <1>2 DEF NamesInv, CreatesAreNew, ProductNamesInv, IndexedNameIsWritten
<1>7. CASE request[o].op \in ProductCommands /\ id \in Products
  <2>1. /\ product' = [product EXCEPT ![id] = txn[o].after]
        /\ category' = category /\ HasWritten(o)
    BY <1>3, <1>7
    DEF Commit, HasWritten, ProductCommands, CategoryCommands, LifecycleAction
  <2>2. \A q \in Products : q # id => product[q].name # txn[o].after.name
    BY <2>1 DEF NamesInv, ProductNamesInv, ProductNamesAreClaimed
  <2>3. \A p \in Products : product'[p] = IF p = id THEN txn[o].after ELSE product[p]
    BY <2>1 DEF TypeOK
  <2>4. DistinctProductNames'
    BY <2>2, <2>3 DEF NamesInv, ProductNamesInv, DistinctProductNames, Exists
  <2>5. ProductNamesAreClaimed'
    BY <1>1, <1>2, <1>4, <2>1, <2>3 DEF NamesInv, ProductNamesInv, ProductNamesAreClaimed
  <2>6. CategoryNamesInv'
    BY <1>1, <1>2, <1>5, <2>1
    DEF NamesInv, CategoryNamesInv, CategoryNamesAreClaimed, DistinctCategoryNames
  <2> QED
    BY <1>6, <2>4, <2>5, <2>6 DEF NamesInv, ProductNamesInv
<1>8. CASE request[o].op \in CategoryCommands /\ id \in Categories
  <2>1. /\ category' = [category EXCEPT ![id] = request[o].category]
        /\ product' = product /\ HasNamedCategory(o)
    BY <1>3, <1>8
    DEF Commit, HasNamedCategory, ProductCommands, CategoryCommands, LifecycleAction
  <2>2. \A d \in Categories : d # id => category[d] # request[o].category
    BY <2>1 DEF NamesInv, CategoryNamesInv, CategoryNamesAreClaimed
  <2>3. \A d \in Categories : category'[d] = IF d = id THEN request[o].category ELSE category[d]
    BY <2>1 DEF TypeOK
  <2>4. DistinctCategoryNames'
    BY <2>2, <2>3 DEF NamesInv, CategoryNamesInv, DistinctCategoryNames
  <2>5. CategoryNamesAreClaimed'
    BY <1>1, <1>2, <1>5, <2>1, <2>3 DEF NamesInv, CategoryNamesInv, CategoryNamesAreClaimed
  <2>6. ProductNamesAreClaimed' /\ DistinctProductNames'
    BY <1>1, <1>2, <1>4, <2>1
    DEF NamesInv, ProductNamesInv, ProductNamesAreClaimed, DistinctProductNames, Exists
  <2> QED
    BY <1>6, <2>4, <2>5, <2>6 DEF NamesInv, ProductNamesInv, CategoryNamesInv
<1> QED
  BY <1>3, <1>7, <1>8 DEF CommandFits

-----------------------------------------------------------------------------
\* Every step keeps the names claimed, on top of the invariant of CatalogAdminProofs.
LEMMA NamesStep == Inv /\ NamesInv /\ [Next]_vars => NamesInv'
<1> SUFFICES ASSUME Inv, NamesInv, [Next]_vars PROVE NamesInv'
  OBVIOUS
<1> USE DEF Inv
<1>1. CASE UNCHANGED vars
  BY <1>1 DEF vars, NamesInv, CreatesAreNew, ProductNamesInv, IndexedNameIsWritten,
              ProductNamesAreClaimed, DistinctProductNames, Exists, HasWritten,
              CategoryNamesInv, CategoryNamesAreClaimed, DistinctCategoryNames,
              HasNamedCategory
<1>2. ASSUME NEW o \in Operators, Submit(o) \/ Respond(o) PROVE NamesInv'
  BY <1>2, QuietSteps
<1>3. ASSUME NEW o \in Operators, Step(o) PROVE NamesInv'
  BY <1>3, StepNames, CommitNames
<1>4. ASSUME NEW o \in Operators, Fail(o) \/ DeadlockVictim(o) PROVE NamesInv'
  BY <1>4, QuietSteps DEF Fail, DeadlockVictim, Answers
<1> QED
  BY <1>1, <1>2, <1>3, <1>4 DEF Next

\* products.name and categories.name stay unique over the committed rows, whatever the
\* interleaving of creates, renames, transitions and their failures.
THEOREM UniqueNames == Spec => []NamesAreUnique
<1>1. NamesInv => NamesAreUnique
  BY DEF NamesInv, ProductNamesInv, CategoryNamesInv, NamesAreUnique
<1> QED
  BY <1>1, NamesInit, NamesStep, Invariance, PTL DEF Spec
=============================================================================
