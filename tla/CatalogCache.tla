---------------------------- MODULE CatalogCache ----------------------------
(***************************************************************************)
(* The public reads beside the operators' commands: the detail read of     *)
(* ProductCache, the list read of ProductService.ListProducts, and the     *)
(* best-effort invalidation that follows each command in                   *)
(* internal/web/v1/protected.go.                                           *)
(*                                                                         *)
(* A command is one atomic step here (CatalogAdmin shows that it is), and  *)
(* its invalidation a sequence of later steps, any of which may fail or    *)
(* never run.  `excuse` and `listExcuse` are history variables: why what   *)
(* is cached now may be stale.                                             *)
(***************************************************************************)
EXTENDS ProductCache, FiniteSets, PublicRow

CONSTANTS
  Writers,      \* operators' requests
  Listers,      \* ListProducts requests
  All,          \* the list filter that names no category
  Filters,      \* the filters in use: All or a category name
  BatchSize,    \* keys unlinked at once (scanCount)
  MaxCommands   \* bound: commands committed

ASSUME CatalogCacheAssumption ==
  /\ All \notin CategoryNames
  /\ Filters \subseteq CategoryNames \cup {All}
  /\ BatchSize \in Nat \ {0}
  /\ MaxCommands \in Nat /\ MaxCommands < MaxVersion

VARIABLES
  lists,       \* what product:list:<filter> holds
  lpc, lgot,   \* the next step of each list request, and the page it has in hand
  wpc,         \* the next step of each operator's handler
  batch,       \* keys its scan has found and not yet unlinked
  unseen,      \* keys its scan has still to visit
  commands,    \* commands committed
  excuse,      \* why the cached detail may be stale
  listExcuse   \* why each cached list may be stale

listVars == <<lists, lpc, lgot>>
writeVars == <<wpc, batch, unseen, commands>>
allVars == <<vars, listVars, writeVars, excuse, listExcuse>>

-----------------------------------------------------------------------------
\* The page under a filter, of the one product modelled, and the filtered count.
FindAll(f) ==
  IF row.status = "ACTIVE" /\ f \in {All, row.label} THEN FindByID ELSE Absent

Count(f) == IF FindAll(f) = Absent THEN 0 ELSE 1

List == [filter : Filters, page : Payload \cup {Absent}, total : 0..1]

ListLocations == {"idle", "getList", "findAll", "count", "setList", "answered"}

WriteLocations == {"idle", "deleteDetail", "scan", "unlink"}

\* "lost": an invalidation that did not happen; "raced": filled by a read that a
\* commit overtook; "renamed": the category was renamed under it.
Excuses == {"lost", "raced", "renamed"}

NoPage(f) == [filter |-> f, page |-> Absent, total |-> 0]

CatalogTypeOK ==
  /\ TypeOK
  /\ lists \in [Filters -> List \cup {Absent}]
  /\ lpc \in [Listers -> ListLocations]
  /\ lgot \in [Listers -> List \cup {Absent}]
  /\ wpc \in [Writers -> WriteLocations]
  /\ batch \in [Writers -> SUBSET Filters]
  /\ unseen \in [Writers -> SUBSET Filters]
  /\ commands \in 0..MaxCommands
  /\ excuse \in SUBSET Excuses
  /\ listExcuse \in [Filters -> SUBSET Excuses]

CatalogInit ==
  /\ Init
  /\ lists = [f \in Filters |-> Absent]
  /\ lpc = [l \in Listers |-> "idle"]
  /\ lgot = [l \in Listers |-> Absent]
  /\ wpc = [w \in Writers |-> "idle"]
  /\ batch = [w \in Writers |-> {}]
  /\ unseen = [w \in Writers |-> {}]
  /\ commands = 0
  /\ excuse = {}
  /\ listExcuse = [f \in Filters |-> {}]

-----------------------------------------------------------------------------
(* The detail read, with the history of what it stores. *)

\* A fill with the committed row needs no excuse.  An invalidation that was lost
\* stays lost until then, or until another one succeeds.
Filled == \E r \in Requests : pc[r] = "setProduct" /\ pc'[r] = "release" /\ entry' = got[r]

NoteDetail ==
  excuse' = IF entry' = Absent THEN excuse \cap {"lost"}
            ELSE IF ~Filled THEN excuse
            ELSE IF entry' = FindByID THEN {}
            ELSE (excuse \cap {"lost"}) \cup {"raced"}

Noted == NoteDetail /\ UNCHANGED <<listVars, writeVars, listExcuse>>

ReadStep(r) == Step(r) /\ Noted

ReadDetail(r) ==
  \/ ReadStep(r)
  \/ (GetProductOrSet(r) \/ Cancelled(r) \/ End(r)) /\ Noted

LockTTL == LockExpires /\ UNCHANGED <<listVars, writeVars, excuse, listExcuse>>

\* Faulty variant: an entry stored with TTL 0, which means no expiration.
DetailTTLZero == FALSE /\ UNCHANGED allVars

DetailTTL == EntryGoes /\ Noted

-----------------------------------------------------------------------------
(* ListProducts: cache, then page, then count, then cache. *)

ListProducts(l) ==
  /\ lpc[l] = "idle"
  /\ \E f \in Filters : lgot' = [lgot EXCEPT ![l] = NoPage(f)]
  /\ lpc' = [lpc EXCEPT ![l] = "getList"]
  /\ UNCHANGED <<vars, lists, writeVars, excuse, listExcuse>>

\* A hit (an empty page is one too), or a miss or error that goes to the database.
GetProductList(l) ==
  /\ lpc[l] = "getList"
  /\ \/ /\ lists[lgot[l].filter] # Absent
        /\ lgot' = [lgot EXCEPT ![l] = lists[@.filter]]
        /\ lpc' = [lpc EXCEPT ![l] = "answered"]
     \/ lpc' = [lpc EXCEPT ![l] = "findAll"] /\ UNCHANGED lgot
  /\ UNCHANGED <<vars, lists, writeVars, excuse, listExcuse>>

FindPage(l) ==
  /\ lpc[l] = "findAll"
  /\ lgot' = [lgot EXCEPT ![l].page = FindAll(lgot[l].filter)]
  /\ lpc' = [lpc EXCEPT ![l] = "count"]
  /\ UNCHANGED <<vars, lists, writeVars, excuse, listExcuse>>

CountPage(l) ==
  /\ lpc[l] = "count"
  /\ lgot' = [lgot EXCEPT ![l].total = Count(lgot[l].filter)]
  /\ lpc' = [lpc EXCEPT ![l] = "setList"]
  /\ UNCHANGED <<vars, lists, writeVars, excuse, listExcuse>>

\* Best effort: the page is returned whether or not it is stored.
SetProductList(l) ==
  /\ lpc[l] = "setList"
  /\ LET f == lgot[l].filter
     IN \/ /\ lists' = [lists EXCEPT ![f] = lgot[l]]
           /\ listExcuse' = [listExcuse EXCEPT ![f] =
                IF lgot[l] = [filter |-> f, page |-> FindAll(f), total |-> Count(f)]
                THEN {} ELSE {"raced"}]
        \/ UNCHANGED <<lists, listExcuse>>
  /\ lpc' = [lpc EXCEPT ![l] = "answered"]
  /\ UNCHANGED <<vars, lgot, writeVars, excuse>>

\* The response is written, a database error is reported, or the process dies.
EndList(l) ==
  /\ lpc[l] # "idle"
  /\ lpc' = [lpc EXCEPT ![l] = "idle"]
  /\ lgot' = [lgot EXCEPT ![l] = Absent]
  /\ UNCHANGED <<vars, lists, writeVars, excuse, listExcuse>>

\* Faulty variant: a list stored with TTL 0, which means no expiration.
ListTTLZero(f) == FALSE /\ UNCHANGED <<allVars, f>>

ListTTL(f) ==
  /\ lists[f] # Absent
  /\ lists' = [lists EXCEPT ![f] = Absent]
  /\ listExcuse' = [listExcuse EXCEPT ![f] = {}]
  /\ UNCHANGED <<vars, lpc, lgot, writeVars, excuse>>

ListStep(l) == GetProductList(l) \/ FindPage(l) \/ CountPage(l) \/ SetProductList(l)

-----------------------------------------------------------------------------
(* The commands and the invalidation each handler runs after its commit. *)

\* What was to be deleted, or is being filled now, stays.
LoseDetail(why) == excuse' = excuse \cup why

LoseLists ==
  listExcuse' = [f \in Filters |->
    IF lists[f] = Absent THEN listExcuse[f] ELSE listExcuse[f] \cup {"lost"}]

\* The handler goes on to `step`; or the commit's reply is lost, or the process
\* dies here, and no invalidation runs.
Committed(w, step, why) ==
  /\ wpc[w] = "idle"
  /\ commands < MaxCommands
  /\ commands' = commands + 1
  /\ \/ /\ wpc' = [wpc EXCEPT ![w] = step]
        /\ unseen' = [unseen EXCEPT ![w] = Filters]
        /\ IF step = "scan" THEN LoseDetail(why) ELSE UNCHANGED excuse
        /\ UNCHANGED listExcuse
     \/ /\ LoseDetail(why \cup {"lost"}) /\ LoseLists
        /\ UNCHANGED <<wpc, unseen>>
  /\ UNCHANGED <<entry, lock, pc, got, overrun, listVars, batch>>

\* UpdateProduct: any name, price, description and category.
UpdateProduct(w) ==
  /\ \E label \in CategoryNames : row' = EditedRow(row, label)
  /\ Committed(w, "deleteDetail", {})

\* The three lifecycle commands.
Transition(w) ==
  /\ \E action \in LifecycleAction :
       /\ NextStatus(row.status, action) # ErrInvalidTransition
       /\ row' = TransitionedRow(row, action)
  /\ Committed(w, "deleteDetail", {})

\* CreateProduct: another product, a DRAFT, which no public read shows.
CreateProduct(w) == UNCHANGED row /\ Committed(w, "scan", {})

\* UpdateCategory: the name changes, no product's version does, and invalidateAll
\* deletes the lists only.
UpdateCategory(w) ==
  /\ \E label \in CategoryNames \ {row.label} : row' = RelabelledRow(row, label)
  /\ Committed(w, "scan", {"renamed"})

\* Faulty variant: the handler goes straight to the lists.
DeleteDetailSkipped(w) ==
  /\ wpc[w] = "deleteDetail"
  /\ wpc' = [wpc EXCEPT ![w] = "scan"]
  /\ UNCHANGED <<vars, listVars, batch, unseen, commands, excuse, listExcuse>>

\* InvalidateProduct; its error is ignored.
DeleteDetail(w) ==
  /\ wpc[w] = "deleteDetail"
  /\ \/ entry' = Absent /\ excuse' = {}
     \/ UNCHANGED entry /\ LoseDetail({"lost"})
  /\ wpc' = [wpc EXCEPT ![w] = "scan"]
  /\ UNCHANGED <<row, lock, pc, got, overrun, listVars, batch, unseen, commands, listExcuse>>

\* InvalidateProductList: the SCAN visits the keys one after the other, in any
\* order, and finds those that exist when it gets there.
Scan(w) ==
  /\ wpc[w] = "scan"
  /\ \/ \E f \in unseen[w] :
          LET found == batch[w] \cup (IF lists[f] = Absent THEN {} ELSE {f})
          IN /\ batch' = [batch EXCEPT ![w] = found]
             /\ unseen' = [unseen EXCEPT ![w] = @ \ {f}]
             /\ wpc' = [wpc EXCEPT ![w] =
                  IF Cardinality(found) >= BatchSize THEN "unlink" ELSE "scan"]
     \/ /\ unseen[w] = {}
        /\ wpc' = [wpc EXCEPT ![w] = IF batch[w] = {} THEN "idle" ELSE "unlink"]
        /\ UNCHANGED <<batch, unseen>>
  /\ UNCHANGED <<vars, listVars, commands, excuse, listExcuse>>

\* Faulty variant: only full batches are unlinked, never the last one.
UnlinkFullBatches(w) ==
  /\ wpc[w] = "unlink"
  /\ LET full == IF Cardinality(batch[w]) >= BatchSize THEN batch[w] ELSE {}
     IN /\ lists' = [f \in Filters |-> IF f \in full THEN Absent ELSE lists[f]]
        /\ listExcuse' = [f \in Filters |-> IF f \in full THEN {} ELSE listExcuse[f]]
  /\ batch' = [batch EXCEPT ![w] = {}]
  /\ wpc' = [wpc EXCEPT ![w] = "scan"]
  /\ UNCHANGED <<vars, lpc, lgot, unseen, commands, excuse>>

\* UNLINK of the keys found, then on with the scan.
Unlink(w) ==
  /\ wpc[w] = "unlink"
  /\ lists' = [f \in Filters |-> IF f \in batch[w] THEN Absent ELSE lists[f]]
  /\ listExcuse' = [f \in Filters |-> IF f \in batch[w] THEN {} ELSE listExcuse[f]]
  /\ batch' = [batch EXCEPT ![w] = {}]
  /\ wpc' = [wpc EXCEPT ![w] = "scan"]
  /\ UNCHANGED <<vars, lpc, lgot, unseen, commands, excuse>>

\* A SCAN or UNLINK fails and DeleteByPattern returns; or the process dies.
InvalidationEnds(w) ==
  /\ wpc[w] # "idle"
  /\ wpc' = [wpc EXCEPT ![w] = "idle"]
  /\ batch' = [batch EXCEPT ![w] = {}]
  /\ unseen' = [unseen EXCEPT ![w] = {}]
  /\ IF wpc[w] = "deleteDetail" THEN LoseDetail({"lost"}) ELSE UNCHANGED excuse
  /\ LoseLists
  /\ UNCHANGED <<vars, listVars, commands>>

Command(w) == UpdateProduct(w) \/ Transition(w) \/ CreateProduct(w) \/ UpdateCategory(w)

Invalidate(w) == DeleteDetail(w) \/ Scan(w) \/ Unlink(w)

\* The lists and the operators, with nobody reading a detail.
ListNext ==
  \/ \E l \in Listers : ListProducts(l) \/ ListStep(l) \/ EndList(l)
  \/ \E f \in Filters : ListTTL(f)
  \/ \E w \in Writers : Command(w) \/ Invalidate(w) \/ InvalidationEnds(w)

Background == LockTTL \/ DetailTTL \/ ListNext

CatalogNext == Background \/ \E r \in Requests : ReadDetail(r)

CatalogSpec == CatalogInit /\ [][CatalogNext]_allVars

\* The TTL is finite, and what the server began it goes on with.
ListFairness ==
  /\ \A f \in Filters : WF_allVars(ListTTL(f))
  /\ \A w \in Writers : WF_allVars(Invalidate(w))

FairListSpec == CatalogInit /\ [][ListNext]_allVars /\ ListFairness

-----------------------------------------------------------------------------
(* What the public reads promise about staleness. *)

\* Some handler has committed and has not yet deleted the detail.
DetailIsOwed == \E w \in Writers : wpc[w] = "deleteDetail"

\* Some handler is still deleting lists.
ListsAreOwed == \E w \in Writers : wpc[w] # "idle"

ListIsCurrent(f) == lists[f] = [filter |-> f, page |-> FindAll(f), total |-> Count(f)]

\* Once every handler is through, a cached detail is the committed row unless an
\* invalidation was lost, the fill raced a commit or the category was renamed: the
\* invalidation leaves no other way to be stale.
StaleDetailIsExcused ==
  entry \notin {Absent, FindByID} => DetailIsOwed \/ excuse # {}

\* The same for every cached list, whatever batches its keys were scanned in; a
\* list has no excuse in a renamed category.
StaleListIsExcused ==
  \A f \in Filters :
    lists[f] # Absent /\ ~ListIsCurrent(f) => ListsAreOwed \/ listExcuse[f] \cap {"lost", "raced"} # {}

\* Whatever was lost or raced, the cached detail and the committed row agree in
\* the end: every stale copy dies by its TTL and no fill brings one back for ever.
DetailConverges == <>[](entry \in {Absent, FindByID})

\* The same for the lists, which also die by their TTL.
ListsConverge == <>[](\A f \in Filters : lists[f] = Absent \/ ListIsCurrent(f))

-----------------------------------------------------------------------------
(* What the comments promise and the code does not keep. *)

\* An ARCHIVED product has disappeared from the public read when its command and
\* its invalidation are through.
ArchivedDisappears ==
  row.status = "ARCHIVED" /\ ~DetailIsOwed /\ "lost" \notin excuse => entry = Absent

\* When the last handler is through with its invalidation, an entry that no loss
\* and no race excuses has the category name the public product payload carries.
RenameReachesPayload ==
  [][\A w \in Writers :
       /\ Scan(w) /\ \A x \in Writers : wpc'[x] = "idle"
       /\ entry # Absent /\ excuse \cap {"lost", "raced"} = {}
       => entry.label = row.label]_allVars
=============================================================================
