---------------------------- MODULE ProductCache ----------------------------
(***************************************************************************)
(* The detail read of one product: ProductCache.GetProductOrSet of         *)
(* internal/core/cache/product_cache.go, called by ProductService.GetProduct*)
(* with PostgresProductRepository.FindByID as the fetch.                   *)
(*                                                                         *)
(* The keys product:<id> and lock:product:<id> live in Valkey, outside the *)
(* process, and every call to it may fail with or without having taken     *)
(* effect (a reply lost, a context cancelled).  A key's TTL may run out at *)
(* any time; a request may die at any time, its lock left behind.          *)
(***************************************************************************)
EXTENDS Naturals, Lifecycle

CONSTANTS
  Requests,       \* concurrent GetProduct calls; also the lock tokens
  CategoryNames,  \* names the product's category may have
  Absent,         \* nil: no such key, or no ACTIVE row (ErrNotFound)
  Failed,         \* any other error
  Free,           \* no lock:product:<id> key
  MaxVersion      \* bound: versions of the product's row

ASSUME CacheAssumption ==
  /\ Free \notin Requests
  /\ Absent # Failed
  /\ MaxVersion \in Nat \ {0}

VARIABLES
  row,      \* the committed products row, joined with its category
  entry,    \* what product:<id> holds
  lock,     \* the token lock:product:<id> holds
  pc,       \* the next step of each request
  got,      \* the product or the error each request has in hand
  overrun   \* the requests whose lock was gone before they released it

vars == <<row, entry, lock, pc, got, overrun>>

-----------------------------------------------------------------------------
ProductRow == [status : ProductStatus, version : 1..MaxVersion, label : CategoryNames]

\* The payload of a public product; `version` stands for name, price and description.
Payload == [version : 1..MaxVersion, label : CategoryNames]

\* FindByID: ACTIVE rows only.
FindByID ==
  IF row.status = "ACTIVE" THEN [version |-> row.version, label |-> row.label] ELSE Absent

Locations == {"idle", "getProduct", "setNX", "fetchAsOwner", "setProduct", "release",
              "waiting", "fetchDirect", "answered"}

\* Between the SetNX that acquired the lock and the deferred release.
Owning == {"fetchAsOwner", "setProduct", "release"}

TypeOK ==
  /\ row \in ProductRow
  /\ entry \in Payload \cup {Absent}
  /\ lock \in Requests \cup {Free}
  /\ pc \in [Requests -> Locations]
  /\ got \in [Requests -> Payload \cup {Absent, Failed}]
  /\ overrun \in SUBSET Requests

Init ==
  /\ row \in [status : ProductStatus, version : {1}, label : CategoryNames]
  /\ entry = Absent
  /\ lock = Free
  /\ pc = [r \in Requests |-> "idle"]
  /\ got = [r \in Requests |-> Absent]
  /\ overrun = {}

Goto(r, step) == pc' = [pc EXCEPT ![r] = step]

Hold(r, product) == got' = [got EXCEPT ![r] = product]

-----------------------------------------------------------------------------
(* GetProductOrSet, one call to Valkey or PostgreSQL at a time. *)

GetProductOrSet(r) ==
  /\ pc[r] = "idle"
  /\ Goto(r, "getProduct")
  /\ UNCHANGED <<row, entry, lock, got, overrun>>

\* A hit is the answer; a miss and an error alike go on to the lock.
GetProduct(r) ==
  /\ pc[r] = "getProduct"
  /\ \/ entry # Absent /\ Hold(r, entry) /\ Goto(r, "answered")
     \/ UNCHANGED got /\ Goto(r, "setNX")
  /\ UNCHANGED <<row, entry, lock, overrun>>

Acquire(r) ==
  /\ pc[r] = "setNX"
  /\ lock = Free
  /\ lock' = r
  /\ Goto(r, "fetchAsOwner")
  /\ UNCHANGED <<row, entry, got, overrun>>

LockIsHeld(r) ==
  /\ pc[r] = "setNX"
  /\ lock # Free
  /\ Goto(r, "waiting")
  /\ UNCHANGED <<row, entry, lock, got, overrun>>

\* SetNX fails: the lock may have been set all the same, and nobody will release it.
LockUnavailable(r) ==
  /\ pc[r] = "setNX"
  /\ lock' \in IF lock = Free THEN {Free, r} ELSE {lock}
  /\ Goto(r, "fetchDirect")
  /\ UNCHANGED <<row, entry, got, overrun>>

\* Faulty variant: whatever the fetch returned goes to the cache.
FetchAsOwnerAnything(r) ==
  /\ pc[r] = "fetchAsOwner"
  /\ \E product \in {FindByID, Failed} : Hold(r, product)
  /\ Goto(r, "setProduct")
  /\ UNCHANGED <<row, entry, lock, overrun>>

\* The owner's fetchFunc; an error skips SetProduct but not the deferred release.
FetchAsOwner(r) ==
  /\ pc[r] = "fetchAsOwner"
  /\ \E product \in {FindByID, Failed} :
       /\ Hold(r, product)
       /\ Goto(r, IF product \in {Absent, Failed} THEN "release" ELSE "setProduct")
  /\ UNCHANGED <<row, entry, lock, overrun>>

\* Best effort: the product is returned whether or not it is stored.
SetProduct(r) ==
  /\ pc[r] = "setProduct"
  /\ entry' \in {entry, got[r]}
  /\ Goto(r, "release")
  /\ UNCHANGED <<row, lock, got, overrun>>

\* Faulty variant: a plain DEL instead of the compare-and-delete.
ReleaseAnyLock(r) ==
  /\ pc[r] = "release"
  /\ lock' \in {lock, Free}
  /\ Goto(r, "answered")
  /\ overrun' = overrun \ {r}
  /\ UNCHANGED <<row, entry, got>>

\* DeleteIfEqual: only the lock this request acquired is deleted.
Release(r) ==
  /\ pc[r] = "release"
  /\ lock' \in {lock} \cup (IF lock = r THEN {Free} ELSE {})
  /\ Goto(r, "answered")
  /\ overrun' = overrun \ {r}
  /\ UNCHANGED <<row, entry, got>>

\* A tick that finds the product cached; the others change nothing.
Tick(r) ==
  /\ pc[r] = "waiting"
  /\ entry # Absent
  /\ Hold(r, entry)
  /\ Goto(r, "answered")
  /\ UNCHANGED <<row, entry, lock, overrun>>

\* Faulty variant: the 500 ms fallback only runs once the lock is gone.
TimeoutIfFree(r) ==
  /\ pc[r] = "waiting" /\ lock = Free
  /\ Goto(r, "fetchDirect")
  /\ UNCHANGED <<row, entry, lock, got, overrun>>

\* 500 ms of waiting: the waiter reads the database itself and caches nothing.
Timeout(r) ==
  /\ pc[r] = "waiting"
  /\ Goto(r, "fetchDirect")
  /\ UNCHANGED <<row, entry, lock, got, overrun>>

FetchDirect(r) ==
  /\ pc[r] = "fetchDirect"
  /\ \E product \in {FindByID, Failed} : Hold(r, product)
  /\ Goto(r, "answered")
  /\ UNCHANGED <<row, entry, lock, overrun>>

\* ctx.Done while waiting.
Cancelled(r) ==
  /\ pc[r] = "waiting"
  /\ Hold(r, Failed)
  /\ Goto(r, "answered")
  /\ UNCHANGED <<row, entry, lock, overrun>>

\* The response is written, or the process dies with the request in it.
End(r) ==
  /\ pc[r] # "idle"
  /\ Goto(r, "idle")
  /\ Hold(r, Absent)
  /\ overrun' = overrun \ {r}
  /\ UNCHANGED <<row, entry, lock>>

-----------------------------------------------------------------------------
(* The keys and the row. *)

\* The 5 s TTL of the lock runs out, whatever its owner is doing.
LockExpires ==
  /\ lock # Free
  /\ lock' = Free
  /\ overrun' = IF pc[lock] \in Owning THEN overrun \cup {lock} ELSE overrun
  /\ UNCHANGED <<row, entry, pc, got>>

\* The TTL of the entry runs out, or an operator's command deletes it.
EntryGoes ==
  /\ entry # Absent
  /\ entry' = Absent
  /\ UNCHANGED <<row, lock, pc, got, overrun>>

\* An operator's command commits: an edit or a lifecycle move (CatalogAdmin).
RowChanges ==
  /\ row.version < MaxVersion
  /\ \E status \in ProductStatus, label \in CategoryNames :
       row' = [status |-> status, version |-> row.version + 1, label |-> label]
  /\ UNCHANGED <<entry, lock, pc, got, overrun>>

Step(r) ==
  \/ GetProduct(r) \/ Acquire(r) \/ LockIsHeld(r) \/ LockUnavailable(r)
  \/ FetchAsOwner(r) \/ SetProduct(r) \/ Release(r)
  \/ Tick(r) \/ Timeout(r) \/ FetchDirect(r)

Next ==
  \/ \E r \in Requests : GetProductOrSet(r) \/ Step(r) \/ Cancelled(r) \/ End(r)
  \/ LockExpires \/ EntryGoes \/ RowChanges

\* Every started request is run, and the 500 ms timer fires.  No client need cancel.
Fairness == \A r \in Requests : WF_vars(Step(r))

Spec == Init /\ [][Next]_vars

FairSpec == Spec /\ Fairness

-----------------------------------------------------------------------------
(* What the stampede guard promises. *)

\* The inductive invariant behind OneFillPerLock: a request that acquired the lock
\* and has not released it is named by the lock, or its TTL has run out; and what
\* it is about to store is a product, neither nil nor an error.
FillsAreSound ==
  \A r \in Requests :
    /\ pc[r] \in Owning => lock = r \/ r \in overrun
    /\ pc[r] = "setProduct" => got[r] \in Payload

\* Two requests fill the entry at the same time only if the TTL of the lock of
\* one of them ran out: nobody's release takes the lock of a successor.
OneFillPerLock ==
  \A r, s \in Requests :
    pc[r] \in Owning /\ pc[s] \in Owning /\ r # s => r \in overrun \/ s \in overrun

\* Every request is answered (or dies with its process), whatever became of the
\* owner of the lock it waits for.
RequestsAreAnswered ==
  \A r \in Requests : pc[r] \in Locations \ {"idle", "answered"} ~> pc[r] \in {"idle", "answered"}
=============================================================================
