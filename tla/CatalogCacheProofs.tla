------------------------- MODULE CatalogCacheProofs -------------------------
(***************************************************************************)
(* What is filled and what may be stale in the cache, for any number of    *)
(* reads, operators, filters and category names and any size of a batch.   *)
(* First the detail read of ProductCache by itself, whose stampede lock is *)
(* exclusive for as long as its TTL lasts; then the reads beside the       *)
(* operators' commands of CatalogCache.                                    *)
(*                                                                         *)
(* StaleListIsExcused is not inductive: that a handler is not through yet  *)
(* does not say that it will still come by a given list.  What it owes is  *)
(* the keys its scan has not seen and those it has found.                  *)
(***************************************************************************)
EXTENDS CatalogCache, TLAPS

-----------------------------------------------------------------------------
(* The detail read by itself. *)

\* The inductive invariant: types, and a lock that names whoever holds it.
Inv == TypeOK /\ FillsAreSound

\* The public read of a typed row is a payload or nothing.
LEMMA FindByIDType ==
  ASSUME row \in ProductRow
  PROVE  FindByID \in Payload \cup {Absent}
BY DEF FindByID, ProductRow, Payload

\* The first state is typed and nobody owns the lock.
LEMMA InitInv == Init => Inv
<1> SUFFICES ASSUME Init PROVE Inv
  OBVIOUS
<1>1. row \in ProductRow
  <2>1. 1 \in 1..MaxVersion
    BY CacheAssumption
  <2> QED
    BY <2>1 DEF Init, ProductRow
<1>2. TypeOK
  BY <1>1 DEF Init, TypeOK, Locations
<1>3. FillsAreSound
  BY DEF Init, FillsAreSound, Owning
<1> QED
  BY <1>2, <1>3 DEF Inv

\* A move of a request from one known step to another is typed.
LEMMA GotoType ==
  ASSUME NEW r \in Requests, NEW step \in Locations, TypeOK, Goto(r, step)
  PROVE  pc' \in [Requests -> Locations]
BY DEF Goto, TypeOK

\* So is a product taken in hand.
LEMMA HoldType ==
  ASSUME NEW r \in Requests, NEW product \in Payload \cup {Absent, Failed},
         TypeOK, Hold(r, product)
  PROVE  got' \in [Requests -> Payload \cup {Absent, Failed}]
BY DEF Hold, TypeOK

\* No step of GetProductOrSet leaves the types.
LEMMA StepType ==
  ASSUME NEW r \in Requests, Inv, Step(r) \/ Cancelled(r)
  PROVE  TypeOK'
<1> USE DEF Inv
<1>0. FindByID \in Payload \cup {Absent}
  BY FindByIDType DEF TypeOK
<1>1. CASE GetProduct(r)
  <2>1. CASE Hold(r, entry) /\ Goto(r, "answered")
    BY <1>1, <2>1, HoldType, GotoType DEF GetProduct, TypeOK, Locations
  <2>2. CASE UNCHANGED got /\ Goto(r, "setNX")
    BY <1>1, <2>2, GotoType DEF GetProduct, TypeOK, Locations
  <2> QED
    BY <1>1, <2>1, <2>2 DEF GetProduct
<1>2. CASE Acquire(r)
  BY <1>2, GotoType DEF Acquire, TypeOK, Locations
<1>3. CASE LockIsHeld(r)
  BY <1>3, GotoType DEF LockIsHeld, TypeOK, Locations
<1>4. CASE LockUnavailable(r)
  BY <1>4, GotoType DEF LockUnavailable, TypeOK, Locations
<1>5. CASE FetchAsOwner(r)
  <2>1. PICK product \in {FindByID, Failed} :
          /\ Hold(r, product)
          /\ Goto(r, IF product \in {Absent, Failed} THEN "release" ELSE "setProduct")
    BY <1>5 DEF FetchAsOwner
  <2>2. got' \in [Requests -> Payload \cup {Absent, Failed}]
    BY <1>0, <2>1, HoldType
  <2>3. pc' \in [Requests -> Locations]
    BY <2>1, GotoType DEF Locations
  <2> QED
    BY <1>5, <2>2, <2>3 DEF FetchAsOwner, TypeOK
<1>6. CASE SetProduct(r)
  <2>1. entry' \in Payload \cup {Absent}
    BY <1>6 DEF SetProduct, TypeOK, FillsAreSound
  <2> QED
    BY <1>6, <2>1, GotoType DEF SetProduct, TypeOK, Locations
<1>7. CASE Release(r)
  BY <1>7, GotoType DEF Release, TypeOK, Locations
<1>8. CASE Tick(r)
  BY <1>8, GotoType, HoldType DEF Tick, TypeOK, Locations
<1>9. CASE Timeout(r)
  BY <1>9, GotoType DEF Timeout, TypeOK, Locations
<1>10. CASE FetchDirect(r)
  <2>1. got' \in [Requests -> Payload \cup {Absent, Failed}]
    BY <1>0, <1>10, HoldType DEF FetchDirect
  <2> QED
    BY <1>10, <2>1, GotoType DEF FetchDirect, TypeOK, Locations
<1>11. CASE Cancelled(r)
  BY <1>11, GotoType, HoldType DEF Cancelled, TypeOK, Locations
<1> QED
  BY <1>1, <1>2, <1>3, <1>4, <1>5, <1>6, <1>7, <1>8, <1>9, <1>10, <1>11 DEF Step

\* Nor does a request that starts or ends, nor a change of the keys or the row.
LEMMA NextType ==
  ASSUME Inv, [Next]_vars
  PROVE  TypeOK'
<1>1. CASE \E r \in Requests : GetProductOrSet(r)
  BY <1>1, GotoType DEF GetProductOrSet, Inv, TypeOK, Locations
<1>2. CASE \E r \in Requests : Step(r) \/ Cancelled(r)
  BY <1>2, StepType
<1>3. CASE \E r \in Requests : End(r)
  BY <1>3, GotoType, HoldType DEF End, Inv, TypeOK, Locations
<1>4. CASE LockExpires
  BY <1>4 DEF LockExpires, Inv, TypeOK
<1>5. CASE EntryGoes
  BY <1>5 DEF EntryGoes, Inv, TypeOK
<1>6. CASE RowChanges
  <2>1. PICK status \in ProductStatus, label \in CategoryNames :
          row' = [status |-> status, version |-> row.version + 1, label |-> label]
    BY <1>6 DEF RowChanges
  <2>2. row.version + 1 \in 1..MaxVersion
    BY <1>6, CacheAssumption DEF RowChanges, Inv, TypeOK, ProductRow
  <2> QED
    BY <1>6, <2>1, <2>2 DEF RowChanges, Inv, TypeOK, ProductRow
<1>7. CASE UNCHANGED vars
  BY <1>7 DEF vars, Inv, TypeOK
<1> QED
  BY <1>1, <1>2, <1>3, <1>4, <1>5, <1>6, <1>7 DEF Next

-----------------------------------------------------------------------------
\* A step that leaves the lock and the overruns alone and brings nobody into the
\* owning section keeps the lock naming its owner.
LEMMA KeepsOwner ==
  ASSUME Inv, NEW r \in Requests, NEW step \in Locations, Goto(r, step),
         UNCHANGED <<lock, overrun>>,
         step \in Owning => pc[r] \in Owning
  PROVE  \A s \in Requests : pc'[s] \in Owning => lock' = s \/ s \in overrun'
BY DEF Inv, TypeOK, FillsAreSound, Goto

\* A step that brings nobody to setProduct and leaves everybody else's product
\* alone keeps what is about to be stored.
LEMMA KeepsProducts ==
  ASSUME Inv, NEW r \in Requests, NEW step \in Locations \ {"setProduct"}, Goto(r, step),
         \A s \in Requests \ {r} : got'[s] = got[s]
  PROVE  \A s \in Requests : pc'[s] = "setProduct" => got'[s] \in Payload
BY DEF Inv, TypeOK, FillsAreSound, Goto

\* A release takes at most its own lock: any other owner keeps its.
LEMMA ReleaseSound ==
  ASSUME Inv, NEW r \in Requests, Release(r)
  PROVE  FillsAreSound'
<1>1. \A s \in Requests : pc'[s] \in Owning => lock' = s \/ s \in overrun'
  BY DEF Release, Inv, TypeOK, FillsAreSound, Goto, Owning
<1>2. \A s \in Requests : pc'[s] = "setProduct" => got'[s] \in Payload
  BY KeepsProducts DEF Release, Locations
<1> QED
  BY <1>1, <1>2 DEF FillsAreSound

\* The owner's fetch reaches setProduct with a product only.
LEMMA FetchSound ==
  ASSUME Inv, NEW r \in Requests, FetchAsOwner(r)
  PROVE  FillsAreSound'
<1>1. PICK product \in {FindByID, Failed} :
        /\ Hold(r, product)
        /\ Goto(r, IF product \in {Absent, Failed} THEN "release" ELSE "setProduct")
  BY DEF FetchAsOwner
<1>2. FindByID \in Payload \cup {Absent}
  BY FindByIDType DEF Inv, TypeOK
<1>3. \A s \in Requests : pc'[s] \in Owning => lock' = s \/ s \in overrun'
  BY <1>1, KeepsOwner DEF FetchAsOwner, Locations, Owning
<1>4. \A s \in Requests : pc'[s] = "setProduct" => got'[s] \in Payload
  <2> SUFFICES ASSUME NEW s \in Requests, pc'[s] = "setProduct" PROVE got'[s] \in Payload
    OBVIOUS
  <2>1. CASE s = r
    <3>1. product \notin {Absent, Failed}
      BY <1>1, <2>1 DEF Goto, Inv, TypeOK
    <3> QED
      BY <1>1, <1>2, <2>1, <3>1 DEF Hold, Inv, TypeOK
  <2>2. CASE s # r
    BY <1>1, <2>2 DEF Goto, Hold, Inv, TypeOK, FillsAreSound
  <2> QED
    BY <2>1, <2>2
<1> QED
  BY <1>3, <1>4 DEF FillsAreSound

\* Every step of GetProductOrSet keeps the fills sound.
LEMMA StepSound ==
  ASSUME Inv, NEW r \in Requests, Step(r) \/ Cancelled(r)
  PROVE  FillsAreSound'
<1>1. CASE GetProduct(r)
  BY <1>1, KeepsOwner, KeepsProducts
  DEF GetProduct, Hold, Inv, TypeOK, Locations, Owning, FillsAreSound
<1>2. CASE Acquire(r)
  <2>1. \A s \in Requests : pc'[s] \in Owning => lock' = s \/ s \in overrun'
    BY <1>2, CacheAssumption DEF Acquire, Inv, TypeOK, FillsAreSound, Goto
  <2> QED
    BY <1>2, <2>1, KeepsProducts DEF Acquire, Locations, FillsAreSound
<1>3. CASE LockIsHeld(r)
  BY <1>3, KeepsOwner, KeepsProducts DEF LockIsHeld, Locations, Owning, FillsAreSound
<1>4. CASE LockUnavailable(r)
  <2>1. \A s \in Requests : pc'[s] \in Owning => lock' = s \/ s \in overrun'
    BY <1>4, CacheAssumption DEF LockUnavailable, Inv, TypeOK, FillsAreSound, Goto, Owning
  <2> QED
    BY <1>4, <2>1, KeepsProducts DEF LockUnavailable, Locations, FillsAreSound
<1>5. CASE FetchAsOwner(r)
  BY <1>5, FetchSound
<1>6. CASE SetProduct(r)
  BY <1>6, KeepsOwner, KeepsProducts DEF SetProduct, Locations, Owning, FillsAreSound
<1>7. CASE Release(r)
  BY <1>7, ReleaseSound
<1>8. CASE Tick(r)
  BY <1>8, KeepsOwner, KeepsProducts DEF Tick, Hold, Inv, TypeOK, Locations, Owning, FillsAreSound
<1>9. CASE Timeout(r)
  BY <1>9, KeepsOwner, KeepsProducts DEF Timeout, Locations, Owning, FillsAreSound
<1>10. CASE FetchDirect(r)
  BY <1>10, KeepsOwner, KeepsProducts
  DEF FetchDirect, Hold, Inv, TypeOK, Locations, Owning, FillsAreSound
<1>11. CASE Cancelled(r)
  BY <1>11, KeepsOwner, KeepsProducts
  DEF Cancelled, Hold, Inv, TypeOK, Locations, Owning, FillsAreSound
<1> QED
  BY <1>1, <1>2, <1>3, <1>4, <1>5, <1>6, <1>7, <1>8, <1>9, <1>10, <1>11 DEF Step

\* So does every step of the system: an expiring lock records its owner's overrun.
LEMMA NextSound ==
  ASSUME Inv, [Next]_vars
  PROVE  FillsAreSound'
<1>1. CASE \E r \in Requests : GetProductOrSet(r)
  BY <1>1, KeepsOwner, KeepsProducts DEF GetProductOrSet, Locations, Owning, FillsAreSound
<1>2. CASE \E r \in Requests : Step(r) \/ Cancelled(r)
  BY <1>2, StepSound
<1>3. CASE \E r \in Requests : End(r)
  <2>1. PICK r \in Requests : End(r)
    BY <1>3
  <2>2. \A s \in Requests : pc'[s] \in Owning => lock' = s \/ s \in overrun'
    BY <2>1 DEF End, Inv, TypeOK, FillsAreSound, Goto, Owning
  <2> QED
    BY <2>1, <2>2, KeepsProducts DEF End, Hold, Inv, TypeOK, Locations, FillsAreSound
<1>4. CASE LockExpires
  BY <1>4, CacheAssumption DEF LockExpires, Inv, TypeOK, FillsAreSound
<1>5. CASE EntryGoes
  BY <1>5 DEF EntryGoes, Inv, FillsAreSound
<1>6. CASE RowChanges
  BY <1>6 DEF RowChanges, Inv, FillsAreSound
<1>7. CASE UNCHANGED vars
  BY <1>7 DEF vars, Inv, FillsAreSound
<1> QED
  BY <1>1, <1>2, <1>3, <1>4, <1>5, <1>6, <1>7 DEF Next

-----------------------------------------------------------------------------
\* The invariant holds in every behaviour.
THEOREM Invariance == Spec => []Inv
<1>1. Inv /\ [Next]_vars => Inv'
  BY NextType, NextSound DEF Inv
<1> QED
  BY <1>1, InitInv, PTL DEF Spec

\* Every state of the detail read is typed.
THEOREM TypeCorrect == Spec => []TypeOK
<1>1. Inv => TypeOK
  BY DEF Inv
<1> QED
  BY <1>1, Invariance, PTL

\* A lock that has not expired names the one request that fills the entry, and what
\* that request stores is a product.
THEOREM FillsSound == Spec => []FillsAreSound
<1>1. Inv => FillsAreSound
  BY DEF Inv
<1> QED
  BY <1>1, Invariance, PTL

\* Two requests fill the entry at once only if the lock of one has outlived its TTL.
THEOREM StampedeIsPrevented == Spec => []OneFillPerLock
<1>1. Inv => OneFillPerLock
  BY DEF Inv, FillsAreSound, OneFillPerLock
<1> QED
  BY <1>1, Invariance, PTL

-----------------------------------------------------------------------------
(* The detail read beside the commands. *)

\* The versions of the row are those of the commands.
Bounded == commands \in 0..MaxCommands /\ row.version <= commands + 1

\* The invariant of the read alone, with a row that real commands change: a rename
\* of the category does not count as a version of the product.
CacheInv == Inv /\ Bounded

\* A step that changes the row at most to another row disturbs no read.
LEMMA RowMoves ==
  ASSUME Inv, row' \in ProductRow, UNCHANGED <<lock, pc, got, overrun>>,
         entry' \in {entry, Absent}
  PROVE  Inv'
BY DEF Inv, TypeOK, FillsAreSound

\* A command leaves a row of the next version or of the same.
LEMMA CommandRow ==
  ASSUME CacheInv, NEW w \in Writers, Command(w)
  PROVE  row' \in ProductRow /\ Bounded'
<1>1. row \in ProductRow /\ row.version \in 1..MaxVersion
  BY DEF CacheInv, Inv, TypeOK, ProductRow
<1>2. /\ commands < MaxCommands /\ commands' = commands + 1
  BY DEF Command, UpdateProduct, Transition, CreateProduct, UpdateCategory, Committed
<1>3. /\ commands' \in 0..MaxCommands /\ row.version + 1 <= commands' + 1
      /\ row.version + 1 \in 1..MaxVersion
  BY <1>1, <1>2, CatalogCacheAssumption, CacheAssumption DEF CacheInv, Bounded
<1>4. CASE UpdateProduct(w)
  BY <1>1, <1>3, <1>4 DEF UpdateProduct, EditedRow, ProductRow, Bounded
<1>5. CASE Transition(w)
  <2>1. PICK action \in LifecycleAction :
          /\ NextStatus(row.status, action) # ErrInvalidTransition
          /\ row' = [status |-> NextStatus(row.status, action),
                     version |-> row.version + 1, label |-> row.label]
    BY <1>5 DEF Transition, TransitionedRow
  <2>2. NextStatus(row.status, action) \in ProductStatus
    BY <2>1 DEF NextStatus, ProductStatus
  <2> QED
    BY <1>1, <1>3, <2>1, <2>2 DEF ProductRow, Bounded
<1>6. CASE CreateProduct(w)
  BY <1>1, <1>3, <1>6 DEF CreateProduct, ProductRow, Bounded
<1>7. CASE UpdateCategory(w)
  BY <1>1, <1>3, <1>7 DEF UpdateCategory, RelabelledRow, ProductRow, Bounded
<1> QED
  BY <1>4, <1>5, <1>6, <1>7 DEF Command

\* Every step of the composition is one of ProductCache, or a change of the row.
LEMMA CacheStep == CacheInv /\ [CatalogNext]_allVars => CacheInv'
<1> SUFFICES ASSUME CacheInv, [CatalogNext]_allVars PROVE CacheInv'
  OBVIOUS
<1>1. [Next]_vars => Inv'
  BY NextType, NextSound DEF CacheInv, Inv
<1>2. ASSUME NEW r \in Requests, ReadDetail(r) PROVE CacheInv'
  <2>1. Next
    BY <1>2 DEF ReadDetail, ReadStep, Next
  <2>2. UNCHANGED <<row, commands>>
    BY <1>2 DEF ReadDetail, ReadStep, Noted, writeVars, Step, GetProduct, Acquire, LockIsHeld,
       LockUnavailable, FetchAsOwner, SetProduct, Release, Tick, Timeout, FetchDirect,
       GetProductOrSet, Cancelled, End
  <2> QED
    BY <1>1, <2>1, <2>2 DEF CacheInv, Bounded
<1>3. CASE LockTTL \/ DetailTTL
  <2>1. Next /\ UNCHANGED <<row, commands>>
    BY <1>3 DEF LockTTL, DetailTTL, LockExpires, EntryGoes, Noted, writeVars, Next
  <2> QED
    BY <1>1, <2>1 DEF CacheInv, Bounded
<1>4. ASSUME \/ \E l \in Listers : ListProducts(l) \/ ListStep(l) \/ EndList(l)
             \/ \E f \in Filters : ListTTL(f)
             \/ UNCHANGED allVars
      PROVE  CacheInv'
  <2>1. UNCHANGED <<vars, commands>>
    BY <1>4 DEF ListProducts, ListStep, EndList, GetProductList, FindPage, CountPage,
       SetProductList, ListTTL, writeVars, allVars
  <2> QED
    BY <1>1, <2>1 DEF CacheInv, Bounded, vars
<1>5. ASSUME NEW w \in Writers, Command(w) PROVE CacheInv'
  <2>1. UNCHANGED <<entry, lock, pc, got, overrun>>
    BY <1>5 DEF Command, UpdateProduct, Transition, CreateProduct, UpdateCategory, Committed
  <2> QED
    BY <1>5, <2>1, CommandRow, RowMoves DEF CacheInv
<1>6. ASSUME NEW w \in Writers, Invalidate(w) \/ InvalidationEnds(w) PROVE CacheInv'
  <2>1. /\ UNCHANGED <<row, lock, pc, got, overrun, commands>>
        /\ entry' \in {entry, Absent}
    BY <1>6 DEF Invalidate, DeleteDetail, Scan, Unlink, InvalidationEnds, vars
  <2>2. row' \in ProductRow
    BY <2>1 DEF CacheInv, Inv, TypeOK
  <2> QED
    BY <2>1, <2>2, RowMoves DEF CacheInv, Bounded
<1> QED
  BY <1>2, <1>3, <1>4, <1>5, <1>6 DEF CatalogNext, Background, ListNext

\* The invariant holds in every reachable state of the composition.
THEOREM CacheInvariance == CatalogSpec => []CacheInv
<1>1. CatalogInit => CacheInv
  BY InitInv, CatalogCacheAssumption DEF CatalogInit, Init, CacheInv, Bounded
<1> QED
  BY <1>1, CacheStep, PTL DEF CatalogSpec

\* The stampede guard of ProductCache keeps its promise beside commands that change the
\* row and delete the entry while it is being filled.
THEOREM GuardedBesideCommands == CatalogSpec => [](FillsAreSound /\ OneFillPerLock)
<1>1. CacheInv => FillsAreSound /\ OneFillPerLock
  BY DEF CacheInv, Inv, FillsAreSound, OneFillPerLock
<1> QED
  BY <1>1, CacheInvariance, PTL

-----------------------------------------------------------------------------
(* Types.  A list request has its page in hand from the first step to the last: only
   so is what it stores a page. *)

TypesInv ==
  /\ CatalogTypeOK
  /\ \A l \in Listers : lpc[l] # "idle" => lgot[l] \in List

\* The filtered page and its count.
LEMMA FindAllType ==
  ASSUME row \in ProductRow, NEW f
  PROVE  FindAll(f) \in Payload \cup {Absent} /\ Count(f) \in 0..1
BY FindByIDType DEF FindAll, Count

\* Nothing is cached and nobody reads.
LEMMA TypesInit == CatalogInit => TypesInv
<1> SUFFICES ASSUME CatalogInit PROVE TypesInv
  OBVIOUS
<1>1. TypeOK
  BY InitInv DEF CatalogInit, Inv
<1> QED
  BY <1>1, CatalogCacheAssumption
  DEF CatalogInit, TypesInv, CatalogTypeOK, ListLocations, WriteLocations

\* The detail read and the TTL of its keys.
LEMMA DetailTypes ==
  ASSUME TypesInv, CacheInv, CacheInv',
         LockTTL \/ DetailTTL \/ \E r \in Requests : ReadDetail(r)
  PROVE  TypesInv'
<1>1. UNCHANGED <<listVars, writeVars, listExcuse>>
  BY DEF LockTTL, DetailTTL, ReadDetail, ReadStep, Noted
<1>2. excuse' \in SUBSET Excuses
  BY DEF LockTTL, DetailTTL, ReadDetail, ReadStep, Noted, NoteDetail, TypesInv, CatalogTypeOK,
     Excuses
<1> QED
  BY <1>1, <1>2 DEF TypesInv, CatalogTypeOK, CacheInv, Inv, listVars, writeVars

\* The list read.
LEMMA ListTypes ==
  ASSUME TypesInv, NEW l \in Listers, ListProducts(l) \/ ListStep(l) \/ EndList(l)
  PROVE  TypesInv'
<1> USE DEF TypesInv, CatalogTypeOK
<1>1. UNCHANGED <<vars, writeVars, excuse>>
  BY DEF ListProducts, ListStep, EndList, GetProductList, FindPage, CountPage, SetProductList
<1>2. TypeOK'
  BY <1>1 DEF vars, TypeOK
<1>3. row \in ProductRow
  BY DEF TypeOK
<1> SUFFICES /\ lists' \in [Filters -> List \cup {Absent}]
             /\ listExcuse' \in [Filters -> SUBSET Excuses]
             /\ lpc' \in [Listers -> ListLocations]
             /\ lgot' \in [Listers -> List \cup {Absent}]
             /\ \A k \in Listers : lpc'[k] # "idle" => lgot'[k] \in List
  BY <1>1, <1>2 DEF writeVars
<1>4. CASE ListProducts(l)
  <2>1. PICK f \in Filters : lgot' = [lgot EXCEPT ![l] = NoPage(f)]
    BY <1>4 DEF ListProducts
  <2>2. NoPage(f) \in List
    BY DEF NoPage, List
  <2> QED
    BY <1>4, <2>1, <2>2 DEF ListProducts, ListLocations
<1>5. CASE GetProductList(l)
  <2>1. lgot[l] \in List
    BY <1>5 DEF GetProductList
  <2>2. lgot[l].filter \in Filters
    BY <2>1 DEF List
  <2>3. lgot' = lgot \/ (lgot' = [lgot EXCEPT ![l] = lists[lgot[l].filter]]
                         /\ lists[lgot[l].filter] \in List)
    BY <1>5, <2>2 DEF GetProductList
  <2>4. lpc' = [lpc EXCEPT ![l] = "answered"] \/ lpc' = [lpc EXCEPT ![l] = "findAll"]
    BY <1>5 DEF GetProductList
  <2> QED
    BY <1>5, <2>1, <2>3, <2>4 DEF GetProductList, ListLocations
<1>6. CASE FindPage(l) \/ CountPage(l)
  <2>1. lgot[l] \in List
    BY <1>6 DEF FindPage, CountPage
  <2>2. PICK page \in List : lgot' = [lgot EXCEPT ![l] = page]
    <3>1. CASE FindPage(l)
      <4>1. [lgot[l] EXCEPT !.page = FindAll(lgot[l].filter)] \in List
        BY <1>3, <2>1, FindAllType DEF List
      <4> QED
        BY <3>1, <4>1 DEF FindPage
    <3>2. CASE CountPage(l)
      <4>1. [lgot[l] EXCEPT !.total = Count(lgot[l].filter)] \in List
        BY <1>3, <2>1, FindAllType DEF List
      <4> QED
        BY <3>2, <4>1 DEF CountPage
    <3> QED
      BY <1>6, <3>1, <3>2
  <2>3. PICK step \in {"count", "setList"} : lpc' = [lpc EXCEPT ![l] = step]
    BY <1>6 DEF FindPage, CountPage
  <2>4. UNCHANGED <<lists, listExcuse>>
    BY <1>6 DEF FindPage, CountPage
  <2> QED
    BY <2>2, <2>3, <2>4 DEF ListLocations
<1>7. CASE SetProductList(l)
  <2>1. lgot[l] \in List /\ lgot' = lgot
    BY <1>7 DEF SetProductList
  <2>2. lists' \in [Filters -> List \cup {Absent}]
    BY <1>7, <2>1 DEF SetProductList
  <2>3. listExcuse' \in [Filters -> SUBSET Excuses]
    BY <1>7 DEF SetProductList, Excuses
  <2>4. lpc' = [lpc EXCEPT ![l] = "answered"]
    BY <1>7 DEF SetProductList
  <2> QED
    BY <2>1, <2>2, <2>3, <2>4 DEF ListLocations
<1>8. CASE EndList(l)
  BY <1>8 DEF EndList, ListLocations
<1> QED
  BY <1>4, <1>5, <1>6, <1>7, <1>8 DEF ListStep

\* The commands and their invalidation.
LEMMA WriterTypes ==
  ASSUME TypesInv, CacheInv, CacheInv', NEW w \in Writers,
         Command(w) \/ Invalidate(w) \/ InvalidationEnds(w)
  PROVE  TypesInv'
<1> USE DEF TypesInv, CatalogTypeOK
<1>1. TypeOK' /\ commands' \in 0..MaxCommands
  BY DEF CacheInv, Inv, Bounded
<1>2. UNCHANGED <<lpc, lgot>>
  BY DEF Command, UpdateProduct, Transition, CreateProduct, UpdateCategory, Committed, Invalidate,
     DeleteDetail, Scan, Unlink, InvalidationEnds, listVars
<1>3. LoseLists => listExcuse' \in [Filters -> SUBSET Excuses]
  BY DEF LoseLists, Excuses
<1>4. CASE Command(w)
  <2>1. PICK step \in {"deleteDetail", "scan"}, why \in {{}, {"renamed"}} :
          Committed(w, step, why)
    BY <1>4 DEF Command, UpdateProduct, Transition, CreateProduct, UpdateCategory
  <2>2. UNCHANGED <<lists, batch>>
    BY <2>1 DEF Committed, listVars
  <2>3. wpc' \in [Writers -> WriteLocations] /\ unseen' \in [Writers -> SUBSET Filters]
    BY <2>1 DEF Committed, WriteLocations
  <2>4. excuse' \in SUBSET Excuses
    BY <2>1 DEF Committed, LoseDetail, Excuses
  <2>5. listExcuse' \in [Filters -> SUBSET Excuses]
    BY <1>3, <2>1 DEF Committed
  <2> QED
    BY <1>1, <1>2, <2>2, <2>3, <2>4, <2>5
<1>5. CASE DeleteDetail(w)
  <2>1. UNCHANGED <<lists, batch, unseen, listExcuse>>
    BY <1>5 DEF DeleteDetail, listVars
  <2>2. wpc' \in [Writers -> WriteLocations] /\ excuse' \in SUBSET Excuses
    BY <1>5 DEF DeleteDetail, WriteLocations, LoseDetail, Excuses
  <2> QED
    BY <1>1, <1>2, <2>1, <2>2
<1>6. CASE Scan(w)
  <2>1. UNCHANGED <<lists, excuse, listExcuse>>
    BY <1>6 DEF Scan, listVars
  <2>2. wpc' \in [Writers -> WriteLocations]
    BY <1>6 DEF Scan, WriteLocations
  <2>3. batch[w] \subseteq Filters /\ unseen[w] \subseteq Filters
    OBVIOUS
  <2>4. batch' = batch \/ \E found \in SUBSET Filters : batch' = [batch EXCEPT ![w] = found]
    <3>1. ASSUME NEW f \in unseen[w]
          PROVE  batch[w] \cup (IF lists[f] = Absent THEN {} ELSE {f}) \in SUBSET Filters
      BY <2>3
    <3> QED
      BY <1>6, <3>1 DEF Scan
  <2>5. unseen' = unseen \/ \E rest \in SUBSET Filters : unseen' = [unseen EXCEPT ![w] = rest]
    BY <1>6, <2>3 DEF Scan
  <2>6. batch' \in [Writers -> SUBSET Filters] /\ unseen' \in [Writers -> SUBSET Filters]
    BY <2>4, <2>5
  <2> QED
    BY <1>1, <1>2, <2>1, <2>2, <2>6
<1>7. CASE Unlink(w)
  <2>1. UNCHANGED <<unseen, excuse>>
    BY <1>7 DEF Unlink
  <2>2. lists' \in [Filters -> List \cup {Absent}] /\ listExcuse' \in [Filters -> SUBSET Excuses]
    BY <1>7 DEF Unlink
  <2>3. wpc' \in [Writers -> WriteLocations] /\ batch' \in [Writers -> SUBSET Filters]
    BY <1>7 DEF Unlink, WriteLocations
  <2> QED
    BY <1>1, <1>2, <2>1, <2>2, <2>3
<1>8. CASE InvalidationEnds(w)
  <2>1. UNCHANGED lists /\ listExcuse' \in [Filters -> SUBSET Excuses]
    BY <1>3, <1>8 DEF InvalidationEnds, listVars
  <2>2. /\ wpc' \in [Writers -> WriteLocations]
        /\ batch' \in [Writers -> SUBSET Filters]
        /\ unseen' \in [Writers -> SUBSET Filters]
        /\ excuse' \in SUBSET Excuses
    BY <1>8 DEF InvalidationEnds, WriteLocations, LoseDetail, Excuses
  <2> QED
    BY <1>1, <1>2, <2>1, <2>2
<1> QED
  BY <1>4, <1>5, <1>6, <1>7, <1>8 DEF Invalidate

\* Every step.
LEMMA TypesStep == TypesInv /\ CacheInv /\ [CatalogNext]_allVars => TypesInv'
<1> SUFFICES ASSUME TypesInv, CacheInv, [CatalogNext]_allVars PROVE TypesInv'
  OBVIOUS
<1>0. CacheInv'
  BY CacheStep
<1>1. CASE LockTTL \/ DetailTTL \/ \E r \in Requests : ReadDetail(r)
  BY <1>0, <1>1, DetailTypes
<1>2. CASE \E l \in Listers : ListProducts(l) \/ ListStep(l) \/ EndList(l)
  BY <1>2, ListTypes
<1>3. CASE \E f \in Filters : ListTTL(f)
  <2>1. PICK f \in Filters : ListTTL(f)
    BY <1>3
  <2>2. lists' \in [Filters -> List \cup {Absent}] /\ listExcuse' \in [Filters -> SUBSET Excuses]
    BY <2>1 DEF ListTTL, TypesInv, CatalogTypeOK
  <2>3. UNCHANGED <<lpc, lgot, wpc, batch, unseen, commands, excuse>>
    BY <2>1 DEF ListTTL, writeVars
  <2> QED
    BY <1>0, <2>2, <2>3 DEF TypesInv, CatalogTypeOK, CacheInv, Inv
<1>4. CASE \E w \in Writers : Command(w) \/ Invalidate(w) \/ InvalidationEnds(w)
  BY <1>0, <1>4, WriterTypes
<1>5. CASE UNCHANGED allVars
  BY <1>0, <1>5 DEF allVars, listVars, writeVars, TypesInv, CatalogTypeOK, CacheInv, Inv
<1> QED
  BY <1>1, <1>2, <1>3, <1>4, <1>5 DEF CatalogNext, Background, ListNext

\* What is cached, in hand, found and excused is of its type, beside any commands.
THEOREM CatalogTypeCorrect == CatalogSpec => []CatalogTypeOK
<1>1. TypesInv => CatalogTypeOK
  BY DEF TypesInv
<1> QED
  BY <1>1, TypesInit, TypesStep, CacheInvariance, PTL DEF CatalogSpec

-----------------------------------------------------------------------------
(* Staleness. *)

\* Some handler has yet to visit the list of f or to unlink it.
ListIsOwed(f) == \E w \in Writers : wpc[w] # "idle" /\ f \in unseen[w] \cup batch[w]

\* A stale list has its excuse or will be deleted.
StaleListsAreInHand ==
  \A f \in Filters :
    lists[f] # Absent /\ ~ListIsCurrent(f)
      => listExcuse[f] \cap {"lost", "raced"} # {} \/ ListIsOwed(f)

\* The variables of the handlers and of the lists are functions.
Shape ==
  /\ wpc \in [Writers -> WriteLocations]
  /\ unseen \in [Writers -> SUBSET Filters]
  /\ batch \in [Writers -> SUBSET Filters]
  /\ lists = [f \in Filters |-> lists[f]]
  /\ listExcuse = [f \in Filters |-> listExcuse[f]]

StaleInv == Shape /\ StaleListsAreInHand /\ StaleDetailIsExcused

-----------------------------------------------------------------------------
\* Nothing is cached at first.
LEMMA StaleInit == CatalogInit => StaleInv
<1> SUFFICES ASSUME CatalogInit PROVE StaleInv
  OBVIOUS
<1>1. Shape
  BY DEF CatalogInit, Shape, WriteLocations
<1>2. StaleListsAreInHand
  BY DEF CatalogInit, StaleListsAreInHand
<1>3. StaleDetailIsExcused
  BY DEF CatalogInit, Init, StaleDetailIsExcused
<1> QED
  BY <1>1, <1>2, <1>3 DEF StaleInv

\* A read of a detail leaves the row, the lists and the handlers alone.
LEMMA ReadsLeaveTheRest ==
  ASSUME NEW r \in Requests, ReadDetail(r)
  PROVE  UNCHANGED <<row, listVars, writeVars, listExcuse>>
<1>1. Noted => UNCHANGED <<listVars, writeVars, listExcuse>>
  BY DEF Noted
<1>2. CASE ReadStep(r)
  BY <1>1, <1>2 DEF ReadStep, Step, GetProduct, Acquire, LockIsHeld, LockUnavailable,
     FetchAsOwner, SetProduct, Release, Tick, Timeout, FetchDirect
<1>3. CASE (GetProductOrSet(r) \/ Cancelled(r) \/ End(r)) /\ Noted
  BY <1>1, <1>3 DEF GetProductOrSet, Cancelled, End
<1> QED
  BY <1>2, <1>3 DEF ReadDetail

\* It fills the entry with the committed row, or with an excuse.
LEMMA ReadKeepsDetail ==
  ASSUME StaleDetailIsExcused, Inv, NEW r \in Requests, ReadDetail(r)
  PROVE  StaleDetailIsExcused'
<1>1. UNCHANGED <<row, wpc>>
  BY ReadsLeaveTheRest DEF writeVars
<1>2. FindByID' = FindByID /\ (DetailIsOwed' <=> DetailIsOwed)
  BY <1>1 DEF FindByID, DetailIsOwed
<1>3. NoteDetail
  BY DEF ReadDetail, ReadStep, Noted
<1>4. CASE Filled
  BY <1>2, <1>3, <1>4 DEF NoteDetail, StaleDetailIsExcused
<1>5. CASE ~Filled
  <2>1. entry' = entry
    <3>1. CASE SetProduct(r)
      <4>1. entry' # entry => entry' = got[r] /\ pc[r] = "setProduct"
        BY <3>1 DEF SetProduct
      <4>2. pc'[r] = "release"
        BY <3>1 DEF SetProduct, Goto, Inv, TypeOK
      <4> QED
        BY <1>5, <4>1, <4>2 DEF Filled
    <3>2. CASE ~SetProduct(r)
      BY <3>2 DEF ReadDetail, ReadStep, Step, GetProduct, Acquire, LockIsHeld, LockUnavailable,
         FetchAsOwner, Release, Tick, Timeout, FetchDirect, GetProductOrSet, Cancelled, End
    <3> QED
      BY <3>1, <3>2
  <2>2. entry' # Absent => excuse' = excuse
    BY <1>3, <1>5 DEF NoteDetail
  <2> QED
    BY <1>2, <2>1, <2>2 DEF StaleDetailIsExcused
<1> QED
  BY <1>4, <1>5

\* Where neither the row, nor a list, nor a handler changes, nothing becomes stale.
LEMMA ListsStay ==
  ASSUME Shape, StaleListsAreInHand, UNCHANGED <<row, lists, writeVars, listExcuse>>
  PROVE  Shape' /\ StaleListsAreInHand'
BY DEF Shape, StaleListsAreInHand, ListIsCurrent, ListIsOwed, FindAll, Count, FindByID, writeVars

LEMMA DetailStays ==
  ASSUME StaleDetailIsExcused, UNCHANGED <<row, entry, wpc>>, excuse \subseteq excuse'
  PROVE  StaleDetailIsExcused'
BY DEF StaleDetailIsExcused, DetailIsOwed, FindByID

\* A request for a list stores it current, or with an excuse.
LEMMA ListRequestInv ==
  ASSUME StaleInv, NEW l \in Listers, ListProducts(l) \/ ListStep(l) \/ EndList(l)
  PROVE  StaleInv'
<1> USE DEF StaleInv
<1>1. UNCHANGED <<row, entry, writeVars, excuse>>
  BY DEF ListProducts, ListStep, EndList, GetProductList, FindPage, CountPage, SetProductList, vars
<1>2. StaleDetailIsExcused'
  BY <1>1, DetailStays DEF writeVars
<1>3. CASE UNCHANGED <<lists, listExcuse>>
  BY <1>1, <1>2, <1>3, ListsStay
<1>4. CASE ~UNCHANGED <<lists, listExcuse>>
  <2> DEFINE g == lgot[l].filter
  <2>1. /\ lists' = [lists EXCEPT ![g] = lgot[l]]
        /\ listExcuse' = [listExcuse EXCEPT ![g] =
             IF lgot[l] = [filter |-> g, page |-> FindAll(g), total |-> Count(g)]
             THEN {} ELSE {"raced"}]
    BY <1>4 DEF ListProducts, ListStep, EndList, GetProductList, FindPage, CountPage,
                SetProductList
  <2>2. Shape'
    BY <1>1, <2>1 DEF Shape, writeVars
  <2>3. ASSUME NEW f \in Filters, lists'[f] # Absent, ~ListIsCurrent(f)'
        PROVE  listExcuse'[f] \cap {"lost", "raced"} # {} \/ ListIsOwed(f)'
    <3>1. /\ FindAll(f)' = FindAll(f) /\ Count(f)' = Count(f)
          /\ ListIsOwed(f)' <=> ListIsOwed(f)
      BY <1>1 DEF FindAll, Count, FindByID, ListIsOwed, writeVars
    <3>2. CASE f = g
      <4>1. /\ lists'[f] = lgot[l]
            /\ listExcuse'[f] = IF lgot[l] = [filter |-> g, page |-> FindAll(g), total |-> Count(g)]
                                THEN {} ELSE {"raced"}
        BY <2>1, <3>2 DEF Shape
      <4> QED
        BY <2>3, <3>1, <3>2, <4>1 DEF ListIsCurrent
    <3>3. CASE f # g
      <4>1. lists'[f] = lists[f] /\ listExcuse'[f] = listExcuse[f]
        BY <2>1, <3>3 DEF Shape
      <4> QED
        BY <2>3, <3>1, <4>1 DEF ListIsCurrent, StaleListsAreInHand
    <3> QED
      BY <3>2, <3>3
  <2> QED
    BY <1>2, <2>2, <2>3 DEF StaleListsAreInHand
<1> QED
  BY <1>3, <1>4

\* A step that deletes lists, adds excuses to the others and owes at least as much.
LEMMA ListsLost ==
  ASSUME Shape', StaleListsAreInHand, UNCHANGED row,
         \A f \in Filters :
           \/ lists'[f] = Absent
           \/ /\ lists'[f] = lists[f]
              /\ \/ listExcuse[f] \subseteq listExcuse'[f] /\ (ListIsOwed(f) => ListIsOwed(f)')
                 \/ "lost" \in listExcuse'[f]
  PROVE  StaleListsAreInHand'
<1> SUFFICES ASSUME NEW f \in Filters, lists'[f] # Absent, ~ListIsCurrent(f)'
             PROVE  listExcuse'[f] \cap {"lost", "raced"} # {} \/ ListIsOwed(f)'
  BY DEF StaleListsAreInHand
<1>1. lists'[f] = lists[f]
  OBVIOUS
<1>2. ~ListIsCurrent(f)
  BY <1>1 DEF ListIsCurrent, FindAll, Count, FindByID
<1>3. listExcuse[f] \cap {"lost", "raced"} # {} \/ ListIsOwed(f)
  BY <1>1, <1>2 DEF StaleListsAreInHand
<1>4. CASE "lost" \in listExcuse'[f]
  BY <1>4
<1>5. CASE listExcuse[f] \subseteq listExcuse'[f] /\ (ListIsOwed(f) => ListIsOwed(f)')
  BY <1>3, <1>5
<1> QED
  BY <1>4, <1>5

\* A commit puts every key on the list of its handler, or marks what stays.
LEMMA CommandInv ==
  ASSUME StaleInv, NEW w \in Writers, Command(w)
  PROVE  StaleInv'
<1> USE DEF StaleInv
<1>1. PICK step \in {"deleteDetail", "scan"}, why \in {{}, {"renamed"}} :
        /\ Committed(w, step, why)
        /\ step = "scan" => why # {} \/ UNCHANGED row
  BY DEF Command, UpdateProduct, Transition, CreateProduct, UpdateCategory
<1>2. /\ wpc[w] = "idle"
      /\ UNCHANGED <<entry, listVars, batch>>
      /\ \/ /\ wpc' = [wpc EXCEPT ![w] = step]
            /\ unseen' = [unseen EXCEPT ![w] = Filters]
            /\ IF step = "scan" THEN LoseDetail(why) ELSE UNCHANGED excuse
            /\ UNCHANGED listExcuse
         \/ /\ LoseDetail(why \cup {"lost"}) /\ LoseLists
            /\ UNCHANGED <<wpc, unseen>>
  BY <1>1 DEF Committed
<1>3. CASE /\ wpc' = [wpc EXCEPT ![w] = step]
           /\ unseen' = [unseen EXCEPT ![w] = Filters]
           /\ IF step = "scan" THEN LoseDetail(why) ELSE UNCHANGED excuse
           /\ UNCHANGED listExcuse
  <2>1. Shape'
    BY <1>2, <1>3 DEF Shape, WriteLocations, listVars
  <2>2. wpc'[w] = step /\ unseen'[w] = Filters
    BY <1>3 DEF Shape
  <2>3. \A f \in Filters : ListIsOwed(f)'
    BY <2>2 DEF ListIsOwed
  <2>4. StaleListsAreInHand'
    BY <2>3 DEF StaleListsAreInHand
  <2>5. CASE step = "deleteDetail"
    BY <2>1, <2>2, <2>4, <2>5 DEF StaleDetailIsExcused, DetailIsOwed
  <2>6. CASE step = "scan"
    <3>1. excuse' = excuse \cup why
      BY <1>3, <2>6 DEF LoseDetail
    <3>2. CASE why # {}
      BY <3>1, <3>2, <2>1, <2>4 DEF StaleDetailIsExcused
    <3>3. CASE UNCHANGED row
      <4>1. FindByID' = FindByID /\ entry' = entry
        BY <1>2, <3>3 DEF FindByID
      <4>2. DetailIsOwed => DetailIsOwed'
        BY <1>2, <1>3 DEF DetailIsOwed, Shape
      <4> QED
        BY <3>1, <4>1, <4>2, <2>1, <2>4 DEF StaleDetailIsExcused
    <3> QED
      BY <1>1, <2>6, <3>2, <3>3
  <2> QED
    BY <2>5, <2>6
<1>4. CASE /\ LoseDetail(why \cup {"lost"}) /\ LoseLists
           /\ UNCHANGED <<wpc, unseen>>
  <2>1. Shape'
    BY <1>2, <1>4 DEF Shape, LoseLists, listVars
  <2>2. \A f \in Filters : lists[f] # Absent => "lost" \in listExcuse'[f]
    BY <1>4 DEF LoseLists
  <2>3. StaleListsAreInHand'
    BY <1>2, <2>2 DEF StaleListsAreInHand, listVars
  <2>4. StaleDetailIsExcused'
    BY <1>4 DEF LoseDetail, StaleDetailIsExcused
  <2> QED
    BY <2>1, <2>3, <2>4
<1> QED
  BY <1>2, <1>3, <1>4

\* The handler after the commit: what it drops it has deleted, or it leaves an excuse.
LEMMA HandlerInv ==
  ASSUME StaleInv, NEW w \in Writers, Invalidate(w) \/ InvalidationEnds(w)
  PROVE  StaleInv'
<1> USE DEF StaleInv
<1>1. UNCHANGED row
  BY DEF Invalidate, DeleteDetail, Scan, Unlink, InvalidationEnds, vars
<1>2. \A f, x : x \in Writers /\ x # w /\ wpc[x] # "idle" /\ f \in unseen[x] \cup batch[x]
                => ListIsOwed(f)'
  <2>1. \A x \in Writers : x # w =>
          wpc'[x] = wpc[x] /\ unseen'[x] = unseen[x] /\ batch'[x] = batch[x]
    BY DEF Invalidate, DeleteDetail, Scan, Unlink, InvalidationEnds, Shape
  <2> QED
    BY <2>1 DEF ListIsOwed
<1>3. CASE DeleteDetail(w)
  <2>1. /\ wpc' = [wpc EXCEPT ![w] = "scan"]
        /\ UNCHANGED <<lists, unseen, batch, listExcuse>>
    BY <1>3 DEF DeleteDetail, listVars
  <2>2. Shape'
    BY <2>1 DEF Shape, WriteLocations
  <2>3. \A f \in Filters : ListIsOwed(f) => ListIsOwed(f)'
    BY <2>1 DEF ListIsOwed, Shape
  <2>4. StaleListsAreInHand'
    BY <1>1, <2>1, <2>2, <2>3, ListsLost
  <2>5. entry' = Absent \/ excuse' # {}
    BY <1>3 DEF DeleteDetail, LoseDetail
  <2> QED
    BY <2>2, <2>4, <2>5 DEF StaleDetailIsExcused
<1>4. CASE Scan(w)
  <2>1. /\ wpc[w] = "scan" /\ UNCHANGED <<entry, lists, excuse, listExcuse>>
    BY <1>4 DEF Scan, vars, listVars
  <2>2. CASE \E f \in unseen[w] :
          LET found == batch[w] \cup (IF lists[f] = Absent THEN {} ELSE {f})
          IN /\ batch' = [batch EXCEPT ![w] = found]
             /\ unseen' = [unseen EXCEPT ![w] = @ \ {f}]
             /\ wpc' = [wpc EXCEPT ![w] =
                  IF Cardinality(found) >= BatchSize THEN "unlink" ELSE "scan"]
    <3>1. PICK g \in unseen[w], step \in {"unlink", "scan"} :
            /\ batch' = [batch EXCEPT ![w] = @ \cup (IF lists[g] = Absent THEN {} ELSE {g})]
            /\ unseen' = [unseen EXCEPT ![w] = @ \ {g}]
            /\ wpc' = [wpc EXCEPT ![w] = step]
      BY <2>2
    <3>2. /\ wpc'[w] = step /\ unseen'[w] = unseen[w] \ {g}
          /\ batch'[w] = batch[w] \cup (IF lists[g] = Absent THEN {} ELSE {g})
      BY <3>1 DEF Shape
    <3>3. Shape'
      BY <2>1, <3>1 DEF Shape, WriteLocations
    <3>4. ASSUME NEW f \in Filters, lists[f] # Absent, ListIsOwed(f) PROVE ListIsOwed(f)'
      <4>1. CASE f \in unseen[w] \cup batch[w]
        BY <3>2, <3>4, <4>1 DEF ListIsOwed
      <4>2. CASE f \notin unseen[w] \cup batch[w]
        BY <1>2, <3>4, <4>2 DEF ListIsOwed
      <4> QED
        BY <4>1, <4>2
    <3>5. StaleListsAreInHand'
      BY <1>1, <2>1, <3>3, <3>4, ListsLost
    <3>6. DetailIsOwed => DetailIsOwed'
      BY <2>1, <3>1 DEF DetailIsOwed, Shape
    <3> QED
      BY <1>1, <2>1, <3>3, <3>5, <3>6 DEF StaleDetailIsExcused, FindByID
  <2>3. CASE /\ unseen[w] = {}
             /\ wpc' = [wpc EXCEPT ![w] = IF batch[w] = {} THEN "idle" ELSE "unlink"]
             /\ UNCHANGED <<batch, unseen>>
    <3>1. wpc'[w] = IF batch[w] = {} THEN "idle" ELSE "unlink"
      BY <2>3 DEF Shape
    <3>2. Shape'
      BY <2>1, <2>3 DEF Shape, WriteLocations
    <3>3. ASSUME NEW f \in Filters, ListIsOwed(f) PROVE ListIsOwed(f)'
      <4>1. CASE f \in batch[w]
        BY <2>3, <3>1, <4>1 DEF ListIsOwed
      <4>2. CASE f \notin batch[w]
        BY <1>2, <2>3, <3>3, <4>2 DEF ListIsOwed
      <4> QED
        BY <4>1, <4>2
    <3>4. StaleListsAreInHand'
      BY <1>1, <2>1, <3>2, <3>3, ListsLost
    <3>5. DetailIsOwed => DetailIsOwed'
      BY <2>1, <2>3 DEF DetailIsOwed, Shape
    <3> QED
      BY <1>1, <2>1, <3>2, <3>4, <3>5 DEF StaleDetailIsExcused, FindByID
  <2> QED
    BY <1>4, <2>2, <2>3 DEF Scan
<1>5. CASE Unlink(w)
  <2>1. /\ wpc[w] = "unlink" /\ UNCHANGED <<entry, excuse, unseen>>
        /\ lists' = [f \in Filters |-> IF f \in batch[w] THEN Absent ELSE lists[f]]
        /\ listExcuse' = [f \in Filters |-> IF f \in batch[w] THEN {} ELSE listExcuse[f]]
        /\ batch' = [batch EXCEPT ![w] = {}]
        /\ wpc' = [wpc EXCEPT ![w] = "scan"]
    BY <1>5 DEF Unlink, vars
  <2>2. Shape'
    BY <2>1 DEF Shape, WriteLocations
  <2>3. ASSUME NEW f \in Filters, f \notin batch[w], ListIsOwed(f) PROVE ListIsOwed(f)'
    <3>1. CASE f \in unseen[w]
      BY <2>1, <3>1 DEF ListIsOwed, Shape
    <3>2. CASE f \notin unseen[w]
      BY <1>2, <2>3, <3>2 DEF ListIsOwed
    <3> QED
      BY <3>1, <3>2
  <2>4. StaleListsAreInHand'
    BY <1>1, <2>1, <2>2, <2>3, ListsLost
  <2>5. DetailIsOwed => DetailIsOwed'
    BY <2>1 DEF DetailIsOwed, Shape
  <2> QED
    BY <1>1, <2>1, <2>2, <2>4, <2>5 DEF StaleDetailIsExcused, FindByID
<1>6. CASE InvalidationEnds(w)
  <2>1. /\ UNCHANGED <<entry, lists>> /\ LoseLists
        /\ wpc' = [wpc EXCEPT ![w] = "idle"]
        /\ batch' = [batch EXCEPT ![w] = {}] /\ unseen' = [unseen EXCEPT ![w] = {}]
        /\ IF wpc[w] = "deleteDetail" THEN LoseDetail({"lost"}) ELSE UNCHANGED excuse
    BY <1>6 DEF InvalidationEnds, vars, listVars
  <2>2. Shape'
    BY <2>1 DEF Shape, WriteLocations, LoseLists
  <2>3. \A f \in Filters : lists[f] # Absent => "lost" \in listExcuse'[f]
    BY <2>1 DEF LoseLists
  <2>4. StaleListsAreInHand'
    BY <1>1, <2>1, <2>2, <2>3, ListsLost
  <2>5. CASE wpc[w] = "deleteDetail"
    BY <2>1, <2>2, <2>4, <2>5 DEF StaleDetailIsExcused, LoseDetail
  <2>6. CASE wpc[w] # "deleteDetail"
    <3>1. DetailIsOwed => DetailIsOwed'
      BY <2>1, <2>6 DEF DetailIsOwed, Shape
    <3> QED
      BY <1>1, <2>1, <2>2, <2>4, <2>6, <3>1 DEF StaleDetailIsExcused, FindByID
  <2> QED
    BY <2>5, <2>6
<1> QED
  BY <1>3, <1>4, <1>5, <1>6 DEF Invalidate

\* Every step.
LEMMA StaleStep == StaleInv /\ CacheInv /\ [CatalogNext]_allVars => StaleInv'
<1> SUFFICES ASSUME StaleInv, CacheInv, [CatalogNext]_allVars PROVE StaleInv'
  OBVIOUS
<1> USE DEF StaleInv
<1>1. CASE UNCHANGED allVars
  BY <1>1, ListsStay, DetailStays DEF allVars, vars, listVars, writeVars
<1>2. ASSUME NEW r \in Requests, ReadDetail(r) PROVE StaleInv'
  BY <1>2, ReadsLeaveTheRest, ReadKeepsDetail, ListsStay DEF listVars, CacheInv
<1>3. CASE LockTTL
  BY <1>3, ListsStay, DetailStays DEF LockTTL, LockExpires, listVars, writeVars
<1>4. CASE DetailTTL
  <2>1. entry' = Absent /\ UNCHANGED <<row, lists, writeVars, listExcuse>>
    BY <1>4 DEF DetailTTL, EntryGoes, Noted, listVars
  <2> QED
    BY <2>1, ListsStay DEF StaleDetailIsExcused
<1>5. ASSUME NEW l \in Listers, ListProducts(l) \/ ListStep(l) \/ EndList(l) PROVE StaleInv'
  BY <1>5, ListRequestInv
<1>6. ASSUME NEW g \in Filters, ListTTL(g) PROVE StaleInv'
  <2>1. /\ UNCHANGED <<row, entry, writeVars, excuse>>
        /\ lists' = [lists EXCEPT ![g] = Absent]
        /\ listExcuse' = [listExcuse EXCEPT ![g] = {}]
    BY <1>6 DEF ListTTL, vars
  <2>2. Shape'
    BY <2>1 DEF Shape, writeVars
  <2>3. \A f \in Filters : ListIsOwed(f)' <=> ListIsOwed(f)
    BY <2>1 DEF ListIsOwed, writeVars
  <2>4. \A f \in Filters :
          \/ lists'[f] = Absent
          \/ lists'[f] = lists[f] /\ listExcuse'[f] = listExcuse[f]
    BY <2>1 DEF Shape
  <2>5. StaleListsAreInHand'
    BY <2>1, <2>2, <2>3, <2>4, ListsLost
  <2> QED
    BY <2>1, <2>2, <2>5, DetailStays DEF writeVars
<1>7. ASSUME NEW w \in Writers, Command(w) \/ Invalidate(w) \/ InvalidationEnds(w)
      PROVE  StaleInv'
  BY <1>7, CommandInv, HandlerInv
<1> QED
  BY <1>1, <1>2, <1>3, <1>4, <1>5, <1>6, <1>7 DEF CatalogNext, Background, ListNext

\* The invariant holds in every reachable state.
THEOREM StaleInvariance == CatalogSpec => []StaleInv
BY StaleInit, StaleStep, CacheInvariance, PTL DEF CatalogSpec

\* A cached detail that is not the committed row was lost, raced or renamed, or its
\* handler is about to delete it, whatever reads and commands run at the same time.
THEOREM StaleDetails == CatalogSpec => []StaleDetailIsExcused
<1>1. StaleInv => StaleDetailIsExcused
  BY DEF StaleInv
<1> QED
  BY <1>1, StaleInvariance, PTL

\* A cached list that is not current was lost or raced, or a handler has yet to come by:
\* no order of scans and batches passes a list over.
THEOREM StaleLists == CatalogSpec => []StaleListIsExcused
<1>1. StaleInv => StaleListIsExcused
  BY DEF StaleInv, StaleListsAreInHand, StaleListIsExcused, ListIsOwed, ListsAreOwed
<1> QED
  BY <1>1, StaleInvariance, PTL
=============================================================================
