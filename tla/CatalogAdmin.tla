---------------------------- MODULE CatalogAdmin ----------------------------
(***************************************************************************)
(* The privileged catalog writers of                                       *)
(* internal/core/repository/catalog_admin_repository.go.                   *)
(*                                                                         *)
(* Each operator runs one command at a time, and each command is one       *)
(* PostgreSQL transaction (pgx.BeginFunc) at READ COMMITTED, split here    *)
(* into its statements.  Rows and names a transaction has written are      *)
(* invisible to the others until it commits, but they are locked: who      *)
(* waits for whom is the relation WaitsFor.                                *)
(*                                                                         *)
(* The module implements Catalog, the catalog as one atomic object.        *)
(***************************************************************************)
EXTENDS Naturals, Sequences, FiniteSets, CatalogData, PublicRow

CONSTANTS
  Operators,      \* concurrent requests: one command of one operator each
  NoTarget,       \* the id of a command that has none yet
  MaxRequests     \* bound: transactions begun in one behaviour

ASSUME AdminAssumption ==
  /\ NoTarget \notin Targets
  /\ MaxRequests \in Nat

\* Each transaction has a connection of the pool.
ASSUME FinitelyManyOperators == IsFiniteSet(Operators)

VARIABLES
  product,   \* committed products rows; NoRow where no row has the id
  category,  \* committed category names; NoName where no row has the id
  audit,     \* committed admin_action_audit rows of each target, by id
  pc,        \* the next statement of each operator's transaction
  request,   \* the command each operator sent
  txn,       \* what each transaction has read and written, uncommitted
  answer,    \* the outcome each operator is told
  clock      \* transactions begun so far: now() of the next one

vars == <<product, category, audit, pc, request, txn, answer, clock>>

-----------------------------------------------------------------------------
(* Rows, requests and transactions. *)

Exists(p) == product[p].version > 0

NoCommand == "NONE"

\* A command: `version` is the token an UPDATE carries, `category` the category
\* name of a product or the new name of a category.
Request == [op       : ProductCommands \cup CategoryCommands \cup {NoCommand},
            id       : Targets \cup {NoTarget},
            name     : Names \cup {NoName},
            category : CategoryNames \cup {NoName},
            version  : Nat]

NoRequest == [op |-> NoCommand, id |-> NoTarget, name |-> NoName,
              category |-> NoName, version |-> 0]

\* One admin_action_audit row.  `changed` is the key set of changed_fields and
\* `createdAt` the column's default now(), the start of the transaction.
AuditEntry == [action        : ProductCommands \cup CategoryCommands,
               versionBefore : Nat,
               versionAfter  : Nat,
               statusBefore  : ProductStatus \cup {NoStatus},
               statusAfter   : ProductStatus \cup {NoStatus},
               changed       : SUBSET {"name", "category", "status"},
               createdAt     : Nat]

\* `before` and `label` are what the transaction read (the row and its category's
\* name), `after` the uncommitted row, `entries` the uncommitted audit rows.
Transaction == [before  : Row,
                label   : CategoryNames \cup {NoName},
                after   : Row,
                entries : Seq(AuditEntry),
                start   : Nat]

NoTransaction == [before |-> NoRow, label |-> NoName, after |-> NoRow,
                  entries |-> <<>>, start |-> 0]

Statements ==
  {"insertProduct", "indexNewRow", "joinRead", "lockRow", "updateProduct",
   "selectForUpdate", "uniqueName", "applyTransition", "foreignKey", "insertCategory", "lockCategory",
   "updateCategory", "uniqueCategoryName", "insertAudit", "commit"}

Locations == Statements \cup {"idle", "editing", "answered"}

Answers == {"none", "ok", "NotFound", "VersionConflict", "Conflict",
            "InvalidTransition", "Internal"}

TypeOK ==
  /\ product \in [Products -> Row]
  /\ category \in [Categories -> CategoryNames \cup {NoName}]
  /\ audit \in [Targets -> Seq(AuditEntry)]
  /\ pc \in [Operators -> Locations]
  /\ request \in [Operators -> Request]
  /\ txn \in [Operators -> Transaction]
  /\ answer \in [Operators -> Answers]
  /\ clock \in Nat

\* COALESCE(c.name, '') of the join with categories.
CategoryNameOf(c) == IF c = NoCategory THEN NoName ELSE category[c]

\* (SELECT id FROM categories WHERE name = $4), NULL when there is none.
CategoryIdOf(name) ==
  IF \E c \in Categories : category[c] = name /\ name # NoName
  THEN CHOOSE c \in Categories : category[c] = name
  ELSE NoCategory

DistinctProductNames ==
  \A p, q \in Products : p # q /\ Exists(p) => product[p].name # product[q].name

DistinctCategoryNames ==
  \A c, d \in Categories : c # d /\ category[c] # NoName => category[c] # category[d]

Init ==
  /\ product \in [Products -> SeedRow \cup {NoRow}]
  /\ category \in [Categories -> CategoryNames \cup {NoName}]
  /\ DistinctProductNames
  /\ DistinctCategoryNames
  /\ \A p \in Products : CategoryNameOf(product[p].category) = NoName
                           => product[p].category = NoCategory
  /\ audit = [t \in Targets |-> <<>>]
  /\ pc = [o \in Operators |-> "idle"]
  /\ request = [o \in Operators |-> NoRequest]
  /\ txn = [o \in Operators |-> NoTransaction]
  /\ answer = [o \in Operators |-> "none"]
  /\ clock = 0

-----------------------------------------------------------------------------
(* Locks.  A row lock, an uncommitted index entry or a foreign-key share lock
   is held from the statement that takes it to the end of the transaction. *)

\* o holds the row of product p: FOR UPDATE, or the uncommitted insert of p.
HoldsProduct(o, p) ==
  /\ request[o].op \in ProductCommands
  /\ request[o].id = p
  /\ pc[o] \in {"updateProduct", "uniqueName", "applyTransition", "foreignKey",
               "insertAudit", "commit"}

\* The product row of o's transaction is written and not yet committed.
HasWritten(o) ==
  /\ request[o].op \in ProductCommands
  /\ pc[o] \in {"foreignKey", "insertAudit", "commit"}

\* o has superseded a row of this product name, or indexed a new one, without
\* having committed.
ClaimsName(o, name) ==
  \/ pc[o] = "uniqueName" /\ name = txn[o].before.name
  \/ HasWritten(o) /\ name \in {txn[o].before.name, txn[o].after.name}

\* o holds the row of category c FOR UPDATE.
HoldsCategory(o, c) ==
  /\ request[o].op = "UPDATE CATEGORY"
  /\ request[o].id = c
  /\ pc[o] \in {"updateCategory", "uniqueCategoryName", "insertAudit", "commit"}

\* o's foreign-key check holds the row of category c FOR KEY SHARE.
SharesCategory(o, c) ==
  /\ HasWritten(o) /\ pc[o] # "foreignKey"
  /\ txn[o].after.category = c
  /\ txn[o].before.category # c

\* The same for the name of a category.
ClaimsCategoryName(o, name) ==
  /\ request[o].op \in CategoryCommands
  /\ \/ pc[o] = "uniqueCategoryName" /\ name = txn[o].label
     \/ pc[o] \in {"insertAudit", "commit"} /\ name \in {txn[o].label, request[o].category}

\* Faulty variant: SELECT without FOR UPDATE, so that nobody waits for a row.
WaitsForNoRow(o, x) ==
  /\ o # x
  /\ \/ pc[o] \in {"indexNewRow", "uniqueName"} /\ ClaimsName(x, request[o].name)
     \/ pc[o] = "lockCategory" /\ HoldsCategory(x, request[o].id)
     \/ /\ pc[o] \in {"insertCategory", "uniqueCategoryName"}
        /\ ClaimsCategoryName(x, request[o].category)

\* Faulty variant: no unique index on the names, only the look at what is committed.
WaitsForNoName(o, x) ==
  /\ o # x
  /\ \/ /\ pc[o] \in {"lockRow", "selectForUpdate"}
        /\ \E p \in Products : request[o].id = p /\ Exists(p) /\ HoldsProduct(x, p)
     \/ /\ pc[o] = "lockCategory"
        /\ HoldsCategory(x, request[o].id) \/ SharesCategory(x, request[o].id)

\* Faulty variant: FOR SHARE, so that the UPDATE has to wait for the other readers.
WaitsForUpgrade(o, x) ==
  /\ o # x
  /\ pc[o] \in {"updateProduct", "applyTransition"}
  /\ \E p \in Products : request[o].id = p /\ HoldsProduct(x, p)

\* o's next statement cannot go on before x's transaction ends.
WaitsFor(o, x) ==
  /\ o # x
  /\ \/ /\ pc[o] \in {"lockRow", "selectForUpdate"}
        /\ \E p \in Products : request[o].id = p /\ Exists(p) /\ HoldsProduct(x, p)
     \/ /\ pc[o] \in {"indexNewRow", "uniqueName"}
        /\ ClaimsName(x, request[o].name)
     \/ /\ pc[o] = "foreignKey"
        /\ txn[o].after.category # txn[o].before.category
        /\ HoldsCategory(x, txn[o].after.category)
     \/ /\ pc[o] = "lockCategory"
        /\ HoldsCategory(x, request[o].id) \/ SharesCategory(x, request[o].id)
     \/ /\ pc[o] \in {"insertCategory", "uniqueCategoryName"}
        /\ ClaimsCategoryName(x, request[o].category)

\* o is at statement s and may run it.
At(o, s) == pc[o] = s /\ \A x \in Operators : ~WaitsFor(o, x)

-----------------------------------------------------------------------------
(* The requests. *)

\* BEGIN: the transaction's now() is fixed here, before any lock is taken.
Begin(o, req, statement) ==
  /\ clock < MaxRequests
  /\ clock' = clock + 1
  /\ request' = [request EXCEPT ![o] = req]
  /\ txn' = [txn EXCEPT ![o] = [NoTransaction EXCEPT !.start = clock]]
  /\ pc' = [pc EXCEPT ![o] = statement]
  /\ UNCHANGED <<product, category, audit, answer>>

\* GetProduct: the edit screen shows the row as it is now.
OpenProduct(o) ==
  /\ pc[o] = "idle"
  /\ \E p \in Products :
       /\ Exists(p)
       /\ request' = [request EXCEPT ![o] =
            [NoRequest EXCEPT !.op = "UPDATE", !.id = p, !.name = product[p].name,
                              !.category = CategoryNameOf(product[p].category),
                              !.version = product[p].version]]
  /\ pc' = [pc EXCEPT ![o] = "editing"]
  /\ UNCHANGED <<product, category, audit, txn, answer, clock>>

\* PUT /products/:id with the version on the screen and any name and category.
SubmitUpdate(o) ==
  /\ pc[o] = "editing"
  /\ \E name \in Names, label \in CategoryNames \cup {NoName} :
       Begin(o, [request[o] EXCEPT !.name = name, !.category = label], "joinRead")

\* POST /products.
SubmitCreate(o) ==
  /\ pc[o] = "idle"
  /\ \E name \in Names, label \in CategoryNames \cup {NoName} :
       Begin(o, [NoRequest EXCEPT !.op = "CREATE", !.name = name, !.category = label],
             "insertProduct")

\* POST /products/:id/publish, /archive and /restore, on any id.
SubmitTransition(o) ==
  /\ pc[o] = "idle"
  /\ \E p \in Products, action \in LifecycleAction :
       Begin(o, [NoRequest EXCEPT !.op = action, !.id = p], "selectForUpdate")

\* POST /categories.
SubmitCreateCategory(o) ==
  /\ pc[o] = "idle"
  /\ \E name \in CategoryNames :
       Begin(o, [NoRequest EXCEPT !.op = "CREATE CATEGORY", !.category = name],
             "insertCategory")

\* PUT /categories/:id, on any id.
SubmitUpdateCategory(o) ==
  /\ pc[o] = "idle"
  /\ \E c \in Categories, name \in CategoryNames :
       Begin(o, [NoRequest EXCEPT !.op = "UPDATE CATEGORY", !.id = c, !.category = name],
             "lockCategory")

\* The answer was an error that leaves the outcome open: the same command again,
\* an edit with the version it carried the first time.
Resend(o) ==
  /\ pc[o] = "answered"
  /\ answer[o] = "Internal"
  /\ LET req == request[o]
     IN \/ req.op = "CREATE" /\ Begin(o, [req EXCEPT !.id = NoTarget], "insertProduct")
        \/ req.op = "UPDATE" /\ Begin(o, req, "joinRead")
        \/ req.op \in LifecycleAction /\ Begin(o, req, "selectForUpdate")
        \/ req.op = "CREATE CATEGORY"
             /\ Begin(o, [req EXCEPT !.id = NoTarget], "insertCategory")
        \/ req.op = "UPDATE CATEGORY" /\ Begin(o, req, "lockCategory")

-----------------------------------------------------------------------------
(* The statements. *)

\* The body returned an error: BeginFunc rolls back and nothing is kept.
Rollback(o, err) ==
  /\ pc' = [pc EXCEPT ![o] = "answered"]
  /\ answer' = [answer EXCEPT ![o] = err]
  /\ txn' = [txn EXCEPT ![o] = NoTransaction]
  /\ UNCHANGED <<product, category, audit, request, clock>>

\* The statement succeeded: the transaction now holds t and goes on at `next`.
Continue(o, t, next) ==
  /\ txn' = [txn EXCEPT ![o] = t]
  /\ pc' = [pc EXCEPT ![o] = next]
  /\ UNCHANGED <<product, category, audit, answer, clock>>

NameTaken(o) ==
  \E p \in Products : p # request[o].id /\ product[p].name = request[o].name

CategoryNameTaken(o) ==
  \E c \in Categories : c # request[o].id /\ category[c] = request[o].category

\* INSERT INTO products ... 'DRAFT', 1: the row is computed, the category looked up
\* in the statement's snapshot.
InsertProduct(o) ==
  /\ At(o, "insertProduct")
  /\ Continue(o, [txn[o] EXCEPT !.after =
       [name |-> request[o].name, category |-> CategoryIdOf(request[o].category),
        status |-> "DRAFT", version |-> 1]], "indexNewRow")
  /\ UNCHANGED request

\* The unique index has no entry of this name, or its writer has ended: the row is in,
\* under an unused id of the serial.
IndexNewRow(o) ==
  /\ At(o, "indexNewRow")
  /\ LET fresh == {p \in Products : ~Exists(p) /\ \A x \in Operators : ~HoldsProduct(x, p)}
     IN \/ NameTaken(o) /\ Rollback(o, "Conflict")
        \/ ~NameTaken(o) /\ fresh = {} /\ Rollback(o, "Internal")
        \/ /\ ~NameTaken(o)
           /\ \E p \in fresh : request' = [request EXCEPT ![o].id = p]
           /\ Continue(o, txn[o], "foreignKey")

\* SELECT ... LEFT JOIN categories ... FOR UPDATE OF p: the statement's snapshot.
JoinRead(o) ==
  /\ At(o, "joinRead")
  /\ LET row == product[request[o].id]
     IN IF row.version = 0
        THEN Rollback(o, "NotFound")
        ELSE /\ Continue(o, [txn[o] EXCEPT !.before = row,
                                           !.label = CategoryNameOf(row.category)], "lockRow")
             /\ UNCHANGED request

\* The row lock of that statement, then the version check.  A row that changed
\* while the statement waited is read again, but its category is not joined
\* again: the old categories row stays if it still matches, else none does.
LockRow(o) ==
  /\ At(o, "lockRow")
  /\ LET row == product[request[o].id]
         label == IF row.category = txn[o].before.category THEN txn[o].label ELSE NoName
     IN IF row.version # request[o].version
        THEN Rollback(o, "VersionConflict")
        ELSE /\ Continue(o, [txn[o] EXCEPT !.before = row, !.label = label], "updateProduct")
             /\ UNCHANGED request

\* Faulty variant: an edit sends the product back to DRAFT.
UpdateProductToDraft(o) ==
  /\ At(o, "updateProduct")
  /\ Continue(o, [txn[o] EXCEPT !.after =
       [name |-> request[o].name, category |-> CategoryIdOf(request[o].category),
        status |-> "DRAFT", version |-> product[request[o].id].version + 1]], "uniqueName")
  /\ UNCHANGED request

\* UPDATE products ... WHERE id = $5 AND version = $6: the old row version is
\* superseded before the new name is entered in the unique index.
UpdateProduct(o) ==
  /\ At(o, "updateProduct")
  /\ LET row == product[request[o].id]
     IN IF row.version # request[o].version
        THEN Rollback(o, "VersionConflict")
        ELSE /\ Continue(o, [txn[o] EXCEPT !.after =
                  [name |-> request[o].name, category |-> CategoryIdOf(request[o].category),
                   status |-> row.status, version |-> row.version + 1]], "uniqueName")
             /\ UNCHANGED request

\* The unique index on products.name.
UniqueName(o) ==
  /\ At(o, "uniqueName")
  /\ IF NameTaken(o)
     THEN Rollback(o, "Conflict")
     ELSE Continue(o, txn[o], "foreignKey") /\ UNCHANGED request

\* Faulty variant: the edge the domain refuses is applied all the same.
SelectForUpdateAnyEdge(o) ==
  /\ At(o, "selectForUpdate")
  /\ Exists(request[o].id)
  /\ Continue(o, [txn[o] EXCEPT !.before = product[request[o].id]], "applyTransition")
  /\ UNCHANGED request

\* SELECT status, version ... FOR UPDATE, then the domain's NextStatus.
SelectForUpdate(o) ==
  /\ At(o, "selectForUpdate")
  /\ LET row == product[request[o].id]
     IN IF row.version = 0
        THEN Rollback(o, "NotFound")
        ELSE IF NextStatus(row.status, request[o].op) = ErrInvalidTransition
        THEN Rollback(o, "InvalidTransition")
        ELSE /\ Continue(o, [txn[o] EXCEPT !.before = row], "applyTransition")
             /\ UNCHANGED request

\* Faulty variant: the UPDATE of a transition writes every column of what it read, and
\* nobody read the category.
MovedRowLosesCategory(row, status) ==
  [name |-> row.name, category |-> NoCategory, status |-> status,
   version |-> row.version + 1]

\* UPDATE products SET status = $1, version = version + 1.
MovedRow(row, status) ==
  [name |-> row.name, category |-> row.category, status |-> status,
   version |-> row.version + 1]

ApplyTransition(o) ==
  /\ At(o, "applyTransition")
  /\ LET row == product[request[o].id]
     IN Continue(o, [txn[o] EXCEPT !.after =
          MovedRow(row, NextStatus(txn[o].before.status, request[o].op))], "insertAudit")
  /\ UNCHANGED request

\* The end of an INSERT or UPDATE of category_id: the FOR KEY SHARE lock.
ForeignKey(o) ==
  /\ At(o, "foreignKey")
  /\ Continue(o, txn[o], "insertAudit")
  /\ UNCHANGED request

\* INSERT INTO categories.
InsertCategory(o) ==
  /\ At(o, "insertCategory")
  /\ LET fresh == {c \in Categories : category[c] = NoName /\
                     \A x \in Operators : ~(request[x].op = "CREATE CATEGORY" /\ request[x].id = c)}
     IN \/ CategoryNameTaken(o) /\ Rollback(o, "Conflict")
        \/ ~CategoryNameTaken(o) /\ fresh = {} /\ Rollback(o, "Internal")
        \/ /\ ~CategoryNameTaken(o)
           /\ \E c \in fresh : request' = [request EXCEPT ![o].id = c]
           /\ Continue(o, txn[o], "insertAudit")

\* SELECT id, name ... FROM categories ... FOR UPDATE.
LockCategory(o) ==
  /\ At(o, "lockCategory")
  /\ IF category[request[o].id] = NoName
     THEN Rollback(o, "NotFound")
     ELSE /\ Continue(o, [txn[o] EXCEPT !.label = category[request[o].id]], "updateCategory")
          /\ UNCHANGED request

\* UPDATE categories SET name = $1: no product's version changes.
UpdateCategory(o) ==
  /\ At(o, "updateCategory")
  /\ Continue(o, txn[o], "uniqueCategoryName")
  /\ UNCHANGED request

\* The unique index on categories.name.
UniqueCategoryName(o) ==
  /\ At(o, "uniqueCategoryName")
  /\ IF CategoryNameTaken(o)
     THEN Rollback(o, "Conflict")
     ELSE Continue(o, txn[o], "insertAudit") /\ UNCHANGED request

-----------------------------------------------------------------------------
(* The audit row, the commit and the ways a transaction dies. *)

\* The keys of changed_fields: computed from what was read and what was asked.
ChangedFields(o) ==
  CASE request[o].op = "CREATE" -> {"name", "category"}
    [] request[o].op = "UPDATE" ->
         {f \in {"name", "category"} :
            \/ f = "name" /\ txn[o].before.name # request[o].name
            \/ f = "category" /\ txn[o].label # request[o].category}
    [] request[o].op \in LifecycleAction -> {"status"}
    [] OTHER -> {f \in {"name"} : txn[o].label # request[o].category}

\* insertAudit's row: versions for products only, statuses for transitions only.
EntryOf(o) ==
  LET op == request[o].op
      before == txn[o].before
  IN [action        |-> op,
      versionBefore |-> before.version,
      versionAfter  |-> IF op \in ProductCommands THEN before.version + 1 ELSE 0,
      statusBefore  |-> IF op \in LifecycleAction THEN before.status ELSE NoStatus,
      statusAfter   |-> IF op \in LifecycleAction THEN NextStatus(before.status, op) ELSE NoStatus,
      changed       |-> ChangedFields(o),
      createdAt     |-> txn[o].start]

\* Faulty variant: the command commits without its audit row.
InsertAuditSkipped(o) ==
  At(o, "insertAudit") /\ Continue(o, txn[o], "commit") /\ UNCHANGED request

\* insertAudit, then the read-back of the answer.
InsertAudit(o) ==
  /\ At(o, "insertAudit")
  /\ Continue(o, [txn[o] EXCEPT !.entries = Append(@, EntryOf(o))], "commit")
  /\ UNCHANGED request

\* COMMIT of everything the transaction wrote.  When its reply is lost the
\* operator is told "Internal" although the command took effect.
Commit(o) ==
  /\ At(o, "commit")
  /\ product' = IF request[o].op \in ProductCommands
                THEN [product EXCEPT ![request[o].id] = txn[o].after] ELSE product
  /\ category' = IF request[o].op \in CategoryCommands
                 THEN [category EXCEPT ![request[o].id] = request[o].category] ELSE category
  /\ audit' = [audit EXCEPT ![request[o].id] = @ \o txn[o].entries]
  /\ \E reply \in {"ok", "Internal"} : answer' = [answer EXCEPT ![o] = reply]
  /\ pc' = [pc EXCEPT ![o] = "answered"]
  /\ txn' = [txn EXCEPT ![o] = NoTransaction]
  /\ UNCHANGED <<request, clock>>

\* A statement fails (connection, cancelled request, constraint of the audit
\* table): the transaction is rolled back wherever it is.
Fail(o) == pc[o] \in Statements /\ Rollback(o, "Internal")

\* o is on a cycle of waiting transactions.
Deadlocked(o) ==
  \E D \in SUBSET Operators :
    /\ o \in D
    /\ \A x \in D : /\ \E y \in D : WaitsFor(x, y)
                    /\ \E y \in D : WaitsFor(y, x)

\* Faulty variant: nobody breaks a cycle.
DeadlockIgnored(o) == Deadlocked(o) /\ FALSE

\* PostgreSQL aborts one transaction of a cycle (40P01): not a unique
\* violation, so the code reports it as an internal error.
DeadlockVictim(o) == Deadlocked(o) /\ Rollback(o, "Internal")

\* The handler has answered; the operator may start again.
Respond(o) ==
  /\ pc[o] = "answered"
  /\ pc' = [pc EXCEPT ![o] = "idle"]
  /\ request' = [request EXCEPT ![o] = NoRequest]
  /\ answer' = [answer EXCEPT ![o] = "none"]
  /\ UNCHANGED <<product, category, audit, txn, clock>>

-----------------------------------------------------------------------------
Submit(o) ==
  \/ OpenProduct(o) \/ SubmitUpdate(o) \/ SubmitCreate(o) \/ SubmitTransition(o)
  \/ SubmitCreateCategory(o) \/ SubmitUpdateCategory(o) \/ Resend(o)

Step(o) ==
  \/ InsertProduct(o) \/ IndexNewRow(o)
  \/ JoinRead(o) \/ LockRow(o) \/ UpdateProduct(o) \/ UniqueName(o)
  \/ SelectForUpdate(o) \/ ApplyTransition(o) \/ ForeignKey(o)
  \/ InsertCategory(o) \/ LockCategory(o) \/ UpdateCategory(o) \/ UniqueCategoryName(o)
  \/ InsertAudit(o) \/ Commit(o)

Next == \E o \in Operators :
  Submit(o) \/ Step(o) \/ Fail(o) \/ DeadlockVictim(o) \/ Respond(o)

\* The server runs what it can, and PostgreSQL breaks every deadlock.
Fairness == \A o \in Operators :
  WF_vars(Step(o)) /\ WF_vars(DeadlockVictim(o)) /\ WF_vars(Respond(o))

Spec == Init /\ [][Next]_vars

FairSpec == Spec /\ Fairness

-----------------------------------------------------------------------------
(* What the writers promise. *)

\* A trail of audit rows that leads, one version at a time, to `version`.  (A row
\* that predates the lifecycle starts at version 1 without an audit row.)
LeadsToVersion(trail, version) ==
  /\ \A i \in 1..Len(trail) : trail[i].versionAfter = trail[i].versionBefore + 1
  /\ \A i \in 1..Len(trail) - 1 : trail[i + 1].versionBefore = trail[i].versionAfter
  /\ Len(trail) > 0 => trail[Len(trail)].versionAfter = version
  /\ Len(trail) = 0 => version \in {0, 1}

\* Every version of a product above its first has exactly one audit row, in
\* order and without a gap, and the last one is the row's version: no change
\* without its audit row and no audit row of a change that was rolled back.
VersionTrail == \A p \in Products : LeadsToVersion(audit[p], product[p].version)

\* The transitions of a trail, and a trail whose transitions lead to `status`.
Moves(trail) == {i \in 1..Len(trail) : trail[i].action \in LifecycleAction}

LeadsToStatus(trail, status) ==
  /\ \A i \in Moves(trail) :
       (\A k \in Moves(trail) : k <= i) => trail[i].statusAfter = status
  /\ \A i, j \in Moves(trail) :
       i < j /\ (\A k \in Moves(trail) : k <= i \/ k >= j)
         => trail[j].statusBefore = trail[i].statusAfter

\* The audited transitions of a product chain up, each starting where the one
\* before it ended, and the last one gives the status the product has now: an
\* edit, which does not record the status, never undoes a transition.
StatusTrail == \A p \in Products : LeadsToStatus(audit[p], product[p].status)

\* products.name and categories.name are unique over the committed rows, for
\* any interleaving of concurrent creates and renames.
NamesAreUnique == DistinctProductNames /\ DistinctCategoryNames

\* A cycle of waiting transactions consists of renames that each want a name
\* another one is giving up: rows, names and categories are locked in one order.
DeadlocksAreNameSwaps ==
  \A o \in Operators : Deadlocked(o) => pc[o] \in {"uniqueName", "uniqueCategoryName"}

\* No silent overwrite: the row version an edit replaces is the one its operator
\* had on the screen.
EditReplacesWhatWasRead ==
  [][\A o \in Operators : Commit(o) /\ request[o].op = "UPDATE"
       => product[request[o].id].version = request[o].version]_vars

\* A committed product only moves along the edges of the lifecycle, whatever
\* commands run at the same time.
OnlyLegalEdges ==
  [][\A p \in Products : Exists(p) /\ product'[p].status # product[p].status
       => LegalEdge(product[p].status, product'[p].status)]_vars

\* What a reader may see of a product, the name of its category included, changes only
\* as by one command of PublicRow, however commands on its row and on its category
\* interleave: the atomic commands that CatalogCache runs beside the reads are all
\* there are.
RowOf(p) == [status |-> product[p].status, version |-> product[p].version,
             label |-> CategoryNameOf(product[p].category)]

ReadersSeeCommands ==
  [][\A p \in Products : Exists(p) /\ RowOf(p)' # RowOf(p)
       => OneCommand(RowOf(p), RowOf(p)', CategoryNames \cup {NoName})]_vars

\* Every command that began is answered, lock waits and deadlocks included.
CommandsAreAnswered ==
  \A o \in Operators : pc[o] \in Statements ~> pc[o] = "answered"

-----------------------------------------------------------------------------
(* The inductive invariant behind the promises above. *)

\* The statement an operator is at fits its command and its target.
CommandFits(o) ==
  LET op == request[o].op
      id == request[o].id
  IN /\ pc[o] = "insertProduct" => op = "CREATE" /\ txn[o] = [NoTransaction EXCEPT !.start = txn[o].start]
     /\ pc[o] = "indexNewRow" => op = "CREATE"
     /\ pc[o] \in {"editing", "joinRead", "lockRow", "updateProduct", "uniqueName"}
          => op = "UPDATE" /\ id \in Products /\ request[o].version > 0
     /\ pc[o] \in {"selectForUpdate", "applyTransition"}
          => op \in LifecycleAction /\ id \in Products
     /\ pc[o] = "foreignKey" => op \in {"CREATE", "UPDATE"} /\ id \in Products
     /\ pc[o] = "insertCategory" => op = "CREATE CATEGORY"
     /\ pc[o] \in {"lockCategory", "updateCategory", "uniqueCategoryName"}
          => op = "UPDATE CATEGORY" /\ id \in Categories
     /\ pc[o] \in {"insertAudit", "commit"}
          => \/ op \in ProductCommands /\ id \in Products
             \/ op \in CategoryCommands /\ id \in Categories

\* What is in hand may be sent as it is: its target and its version fit its command.
RequestsFit ==
  \A o \in Operators :
    LET req == request[o]
    IN /\ req.op = "UPDATE" => req.id \in Products /\ req.version > 0
       /\ req.op \in LifecycleAction => req.id \in Products
       /\ req.op = "UPDATE CATEGORY" => req.id \in Categories

\* At most one transaction holds a products row.
LocksAreExclusive ==
  \A o, x \in Operators, p \in Products : HoldsProduct(o, p) /\ HoldsProduct(x, p) => o = x

\* What a transaction read of the row it holds is still what is committed.
ReadsAreCurrent ==
  \A o \in Operators, p \in Products : HoldsProduct(o, p) => txn[o].before = product[p]

\* What a transaction is about to write is one step from what it read.
WriteIsOneStep(o) ==
  LET before == txn[o].before
      after == txn[o].after
      op == request[o].op
  IN /\ pc[o] = "applyTransition"
          => before.version > 0 /\ NextStatus(before.status, op) # ErrInvalidTransition
     /\ pc[o] \in {"uniqueName", "updateProduct"} \/ (HasWritten(o) /\ op = "UPDATE")
          => before.version = request[o].version /\ before.version > 0
     /\ pc[o] \in {"indexNewRow", "uniqueName"} \/ HasWritten(o)
          => after.version = before.version + 1
     /\ pc[o] = "indexNewRow" \/ (HasWritten(o) /\ op = "CREATE")
          => before = NoRow /\ after.status = "DRAFT"
     /\ pc[o] = "uniqueName" \/ (HasWritten(o) /\ op = "UPDATE") => after.status = before.status
     /\ HasWritten(o) /\ op \in LifecycleAction
          => /\ before.version > 0
             /\ NextStatus(before.status, op) # ErrInvalidTransition
             /\ after = MovedRow(before, NextStatus(before.status, op))

\* A transaction holds its audit row exactly from insertAudit to COMMIT.
AuditIsPending(o) == txn[o].entries = IF pc[o] = "commit" THEN <<EntryOf(o)>> ELSE <<>>

\* Everything a transaction holds is in order, so that its COMMIT may be an
\* atomic command: row locks keep what was read true until then.
TransactionsAreSound ==
  /\ \A o \in Operators : CommandFits(o) /\ WriteIsOneStep(o) /\ AuditIsPending(o)
  /\ LocksAreExclusive
  /\ ReadsAreCurrent
  /\ \A p \in Products : product[p].version = 0 => product[p] = NoRow

\* What an audit row says to the reader of the abstract catalog.
Summary(entry) ==
  [action |-> entry.action, versionBefore |-> entry.versionBefore,
   versionAfter |-> entry.versionAfter, statusBefore |-> entry.statusBefore,
   statusAfter |-> entry.statusAfter]

\* The committed tables are an atomic catalog: the moment a command takes effect
\* is its COMMIT, with the guards it checked statements earlier still true.
Abstract == INSTANCE Catalog WITH
  audit <- [t \in Targets |-> [i \in DOMAIN audit[t] |-> Summary(audit[t][i])]]

CommandsAreAtomic == Abstract!Spec

-----------------------------------------------------------------------------
(* What the documents promise and the code does not keep. *)

\* ListAudit's order, created_at DESC, is the order in which the changes of a row
\* were made (from its first change on: nobody knows an id before its CREATE).
AuditIsNewestFirst ==
  \A t \in Targets : \A i, j \in 1..Len(audit[t]) :
    i < j /\ audit[t][i].action \in {"UPDATE", "UPDATE CATEGORY"} \cup LifecycleAction
      => audit[t][i].createdAt < audit[t][j].createdAt

\* An edit whose audit row does not list the category does not change it.
AuditListsCategoryChange ==
  [][\A o \in Operators :
       Commit(o) /\ request[o].op = "UPDATE"
         => LET p == request[o].id IN
              product'[p].category # product[p].category
                => "category" \in Head(txn[o].entries).changed]_vars
=============================================================================
