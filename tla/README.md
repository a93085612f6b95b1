# product-service: a formal model

This directory holds TLA+ specifications of product-service, the TLC
configurations that check them on small instances, and proofs that TLAPS checks
for every instance. All paths below are relative to the repository's root, which
the project file abbreviates as `src/`.

## 1. The system

product-service keeps a product catalog in PostgreSQL. The public reads it
anonymously through a Valkey cache; operators of the back office change it
through protected routes, one transaction per command; other services read
prices over gRPC. Several processes run at once against one database and one
Valkey, so the interesting concurrency is between *processes*: everything they
share is a row, an index entry, a cache key or a lock key.

| Component | Code | State it keeps | Operations | What makes it correct |
|---|---|---|---|---|
| Product lifecycle | `internal/core/domain/lifecycle.go` | none (a table of edges) | `NextStatus` | the committed status of a product moves along the edges only, whatever runs concurrently |
| Catalog admin repository | `internal/core/repository/catalog_admin_repository.go` | rows of `products`, `categories`, `admin_action_audit`; row locks; uncommitted rows | create, edit, publish/archive/restore, category create/rename, audit listing | no lost update; a change and its audit row commit together; unique names; no deadlock that could be avoided |
| Schema and migrations | `db/migrations/sql`, the `migrate` subcommand of `cmd/main.go` | constraints, defaults; the ledger `schema_migrations` | up, in an init container of every pod | uniqueness, `ON DELETE SET NULL`, audit defaults the code relies on; no pod serves on a schema its release does not know; a waiting migration does not stall the catalog |
| Protected handlers | `internal/web/v1/protected.go` | none | one route per command, then best-effort invalidation | a committed command is never reported as undone because of the cache; what the cache serves afterwards is current |
| Product cache | `internal/core/cache/product_cache.go` | `product:<id>`, `product:list:<hash>`, `lock:product:<id>` in Valkey | get-or-set with a lock, list get/set, invalidation | one fill per lock, no waiter stuck, no stale entry without a known cause, none for ever |
| Valkey client | `internal/core/cache/valkey_client.go` | none | Get, Set, SetNX, Delete, DeleteIfEqual, DeleteByPattern | compare-and-delete is atomic; the SCAN misses no key that was there all along |
| Product service and read repository | `internal/logic/v1/service.go`, `internal/core/repository/postgres_product_repository.go` | none | GetProduct, ListProducts, batch and related reads | only ACTIVE rows are public; page and total belong together |
| Details aggregation, review and inventory clients | `internal/logic/v1/details.go`, `internal/web/v1/*_client.go` | none | one page from four sources | only the product itself may fail the page |
| gRPC price server | `internal/grpc/v1/server.go` | none | batch price read | unknown ids omitted, a cap, rounding once |
| Process start and shutdown | `cmd/main.go` | the `isShuttingDown` flag, servers, pool, cache client | start, readiness, drain, close | what is in flight finishes before what it uses is closed; shutdown ends |
| Configuration, database pool, metrics, demo seed | `config/`, `internal/core/database.go`, `internal/core/cache/metrics.go`, `db/seed` | none | | validation boundaries |

How they interact: a public read goes handler → service → cache → (lock, fetch)
→ read repository; a command goes handler → admin repository (one transaction)
→ answer, and between COMMIT and answer the handler calls the cache's
invalidation, whose errors are dropped. Reads and commands meet in two places,
the rows (isolated by READ COMMITTED and locks) and the cache keys (not isolated
at all).

Hard behaviours: statements of two transactions interleaved, lock waits and
deadlocks; values read under one statement's snapshot and used in the next; a
`now()` fixed before the lock it is ordered by; a lock with a TTL shorter than
the work it guards; fills that race commits; invalidations that are lost with
their process; replies lost after the effect; a scan of keys that are being
written; a service that never answers; a command sent again after an answer that
said nothing; a migration that dies between its file and its ledger. `PROJECT.json` lists them line by line under `hazards`.

## 2. Modules

| Subsystem | Modules, each with what it EXTENDS | Checked in | Proved in |
|---|---|---|---|
| shared | `Lifecycle`; `PublicRow` (Lifecycle); `CatalogData` (Lifecycle) | | |
| writers | `Catalog` (CatalogData): one atomic object | | |
| | `CatalogAdmin` (CatalogData, PublicRow): the transactions, which implement `Catalog` (by INSTANCE) | `MCCatalogAdmin` | `CatalogAdminProofs` <- `CatalogNamesProofs` <- `CatalogRefinementProofs` |
| | `CatalogRetries` (CatalogAdmin): commands sent again | `MCCatalogRetries` | `CatalogRetriesProofs` (also EXTENDS `CatalogRefinementProofs`) |
| readers | `ProductCache` (Lifecycle): the detail read | `MCCatalogCache` | `CatalogCacheProofs` |
| | `CatalogCache` (ProductCache, PublicRow): lists and commands beside it | `MCCatalogCache` | `CatalogCacheProofs` |
| | `ProductDetails` (CatalogCache): the details page | `MCProductDetails` | `ProductDetailsProofs` (EXTENDS `CatalogCacheProofs`) |
| process | `ServiceProcess` | `MCServiceProcess` | `ServiceProcessProofs` |
| rollout | `Migrations` | `MCMigrations` | `MigrationsProofs` |

**Lifecycle** is the table of `NextStatus`. **CatalogData** is the data both
sides of the refinement share: rows, commands, the row a migrated database
starts with. Price and description travel with the name, because no guard of
the writers reads them.

**CatalogAdmin** is the writers' code. `product`, `category` and `audit` are the
committed tables; `pc`, `request`, `txn` and `answer` are the transaction of
each operator, and `clock` counts transactions and gives `now()`. Each action is
one SQL statement, or one part of a statement where PostgreSQL can wait in the
middle of it: `SELECT ... FOR UPDATE OF p` is `JoinRead` (the statement's
snapshot) and `LockRow` (the row lock, after which PostgreSQL re-reads the row
but not the joined category); an `UPDATE products` is `UpdateProduct`,
`UniqueName` (the index entry) and `ForeignKey` (the `FOR KEY SHARE` lock); an
`INSERT INTO products` is `InsertProduct`, which looks the category up before anything
is waited for, `IndexNewRow` and `ForeignKey`.
`WaitsFor(o, x)` derives from the positions of the transactions which of them
holds what; a statement runs when it waits for nobody. `Fail` rolls a
transaction back at any statement (an error, a cancelled request, a crashed
process); `Commit` may lose its reply; `DeadlockVictim` is PostgreSQL's
deadlock detector, whose 40P01 the code reports as an internal error. `Resend` is an
operator who got an internal error, which a lost reply looks like too, and sends the
same command again, with the version it was read at.
PostgreSQL is external: its locks are modelled from the statements the code
sends, at READ COMMITTED, the level `pgx.BeginFunc` opens.

**Catalog** is what the writers promise: each command is one atomic step that
changes one row and appends one audit row, or does nothing.

**PublicRow** is where the two halves of the project meet: what a public read sees
of a product joined with its category (its status, its version, the category's name)
and the three changes a command can make to it. CatalogCache takes these changes as
the steps of its row; `ReadersSeeCommands` of CatalogAdmin says that the interleaved
transactions make no others.

**CatalogRetries** adds the history that the code does not keep: for the command in
hand of each operator, the row it has changed already and whether another command
has changed that row since. No action reads it.

**ProductCache** is `GetProductOrSet` for one product, one call to Valkey or to
the database per action. Lock and entry may expire at any step; every call may
fail before or after taking effect; a request may end or die at any step and
leave its lock behind. A `SetNX` whose reply is lost is `LockUnavailable`. The
row changes under it in any way the commands allow. `overrun` is a history
variable: who lost the lock to its TTL while filling.

**CatalogCache** puts the list reads, the commands and their invalidation beside
it. A command is one atomic step of the row, which `CommandsAreAtomic` and
`ReadersSeeCommands` of CatalogAdmin justify; its invalidation is a sequence of later steps
(`DeleteDetail`, `Scan`, `Unlink`) any of which may fail or never run. `excuse`
and `listExcuse` are history variables which record why an entry may be stale:
an invalidation was *lost*, its fill *raced* a commit, its category was
*renamed*. No action reads them.

**ProductDetails** is the details page on top of it: some of the requests go on,
when `GetProduct` has returned, to the related products, the availability and the
reviews, in the order of `GetProductDetails`. `InventoryFails` and `ReviewFails` are
an error or the deadline of 3 s, which needs no cooperation of the service;
`InventoryAnswers` and `ReviewAnswers` are the service's and nothing obliges it.
Related products are a block nobody can miss, so only its place in the order is
modelled. `fetcher` says whether the process that renders the page has an
`availabilityFetcher`: its one dial to inventory, at the start of `main()`, may have
failed, and then it serves all its pages without one (`NoAvailability`). It is picked
for each page, so that pages of several processes are covered.

**ServiceProcess** is one process, from `main()`. `main` is where that goroutine
is: the start in its order (a Fatal ends the process without its deferred
closes, a failed dial returns through them, a taken gRPC port changes nothing
else), then `serving`, then the shutdown. `stage` is where each request is: a
command of the protected routes or an RPC, which uses the pool once, may commit,
may invalidate, and answers. `HttpTimeout` is `Shutdown` returning at its
deadline with requests still running; `GrpcDrained` is `GracefulStop`, which has
no deadline, followed by `pool.Close`, which refuses new work at once and returns
at `PoolClosed`, when no connection is in use. The cache is closed by a `defer`,
that is after the pool, and not before it as the list at `main.go:425` has it;
the handlers need it in that order. `Probe` is a readiness probe of the load balancer,
`Kill` the end of the grace period. `drainDelay` and `exporter` are constants of
a behaviour: whether the delay covers a probe, whether telemetry has an endpoint.

**Migrations** is a rollout. Each pod runs the `migrate` subcommand of its release,
which embeds the files `1..Files[p]`, and then serves. `version` and `dirty` are
the ledger, `schema` is the last file whose transaction has committed, `advisory`
the lock golang-migrate takes; `Mark`, `RunFile` and `Unmark` are three separate
commits, and a pod may crash between any two. `Queue` and `LockTimeout` are the
`SET lock_timeout` of files 000006 and 000007: while a file is queued for its
ACCESS EXCLUSIVE lock every later reader waits behind it. `Repair` is the
procedure of `000006_drop_stock.up.sql:118-125`, by a human, and only while no file
is being run. A pod that has failed, or was refused, is in `backoff`, one that died is
`killed`; a refusal at `Check` (a dirty ledger, or the version of a later release) is no
fault, and happens again whenever the container starts. golang-migrate, PostgreSQL's
lock queue and kubelet are external and modelled from how the subcommand and the files
use them. The file numbers are
1..Latest here; the code's are 1, 4, 5, 6, 7, and golang-migrate only looks at
their order.

The operators marked "Faulty variant" are not part of any specification: each is
what a definition would be with a plausible mistake in the code, and each
property of section 3 fails for one of them.

## 3. What TLC checks

Bounds: `MaxRequests` (transactions begun), `MaxVersion` (versions of the cached
product), `MaxCommands` (commands committed beside the reads), `BatchSize` (keys
unlinked at once, 100 in the code).

| Run | Instance | Shows |
|---|---|---|
| `admin_trail` | 2 operators, 1 product, 1 name, 2 categories, 2 category names, 3 transactions | `VersionTrail`, `StatusTrail`: the audit rows of a product account for every version and every status, no more and no less, through failures at any statement. `EditReplacesWhatWasRead`: no silent overwrite. `OnlyLegalEdges`. `ReadersSeeCommands`: what a reader sees of a product changes as by one command at a time. `NamesAreUnique` and `DeadlocksAreNameSwaps` for categories. `TransactionsAreSound`: the inductive invariant of the proofs. `RepeatsAreOvertaken`: a command that is sent again takes effect twice only if another one changed its row in between, or if it renames a category |
| `admin_live` | 2 operators, 2 products, 2 names, 1 category, 2 transactions, fairness | `CommandsAreAtomic`: CatalogAdmin implements Catalog; `NamesAreUnique` over uncommitted rows; `DeadlocksAreNameSwaps`: the only cycle of lock waits is renames that want each other's old names; `CommandsAreAnswered` through lock waits and deadlocks |
| `cache_detail` | 2 reads, one of them a page, 1 writer, 2 commands, fairness | `OneFillPerLock`: two fills at once only after an expired lock; `FillsAreSound`; `RequestsAreAnswered` whatever becomes of the owner; `StaleDetailIsExcused`: once the handlers are through, a stale detail was lost, raced or renamed; `DetailConverges`; `OnlyTheProductFailsThePage`, `RenderedPagesAreWhole`: whatever fails, a page that has its product is rendered with blocks that fit, and has an availability block unless its process could not dial inventory; `PagesAreAnswered` though no service ever answers |
| `cache_lists` | 1 list read, 1 writer, 2 filters, 2 category names, 2 commands, fairness | `StaleListIsExcused`, `ListsConverge`: the same for lists, whatever the batches of the scan |
| `process_shutdown` | 2 HTTP requests, 1 RPC, fairness | `NobodyIsRefused`: a delay that covers a probe is enough; `NoTransactionIsCut`, `AcceptedWorkIsFinished`: only an HTTP drain that timed out leaves work undone, and even then no statement is cut; `StoppedIsExported`; `ShutdownEnds` |
| `migrations` | 3 pods of 2 releases, 3 files, 3 readers of which 1 never ends, fairness | `ServingPodsHaveTheirSchema`: no order of starts, crashes, timeouts and repairs lets a pod serve on a schema that lacks its files; `LedgerIsTrue`: the ledger is at most one file off; `OnlyARepairEndsTheStop`: after a failed file nothing runs or starts to serve before a repair; `ReadsAreNotStarved` behind a queued migration; `RolloutEnds` once the faults are over, although the pod of the older release is refused for ever |

Six runs check a sentence of the code's own comments and find it violated; the
behaviour is described under `findings` in `PROJECT.json`.

| Run | The sentence | What happens |
|---|---|---|
| `admin_newest_first` | a target's history is "newest first" (`catalog_admin_repository.go:471`) | `created_at` is the *start* of the transaction; the command that waited for the row lock is listed below the change it was made on |
| `admin_lists_category` | `changed_fields` "carries the before/after pairs for an UPDATE" (`000007_product_lifecycle.up.sql:54`) | a rename between the edit's read and its UPDATE: the product silently loses its category, and its audit row lists no category |
| `admin_retried` | "a retried request cannot duplicate an effect" (`protected.go:26`); retries "are handled by the idempotency key" (`lifecycle.go:78`) | there is no key: an ARCHIVE whose reply was lost, overtaken by another operator's RESTORE and sent again, archives the product once more |
| `cache_archived` | an archived product "must disappear from the public read" (`product_cache.go:236`) | a fill that read before the commit stores after the invalidation |
| `process_no_cache` | a stack without a cache "passes nil and the writes simply skip it" (`protected.go:51`), and invalidation "never fails a committed command" (`protected.go:332`) | the nil is a `*ProductCache` in an interface, which is not nil: the method panics after COMMIT and the operator reads 500 |
| `cache_renamed` | a rename "changes the category name the public product payload carries" (`protected.go:327`) | `invalidateAll` deletes the lists only; the details keep the old name until their TTL |

Why the bounds are enough to be of use. Two operators and two transactions show
every pairwise race of statements, and the third transaction lets a later
command build on the outcome of a race; a third operator adds no new kind of
wait, since every lock is exclusive but the key-share lock, and the proofs of
section 4 are for any number (any finite one for `DeadlocksAreNameSwaps`). One product suffices
where names do not matter (rows interact through names and categories only),
two are needed for name swaps. With one product a second name would only be a
rename nobody collides with. Two reads are an owner and a waiter, or an owner whose
lock expired and its successor; the proofs of CatalogCacheProofs are for any number. One
writer of the cache runs its second command while nothing of the first is left, and
both race the fills; two writers would race each other's invalidations, which are
idempotent deletes of the same keys. In the rollout one pod lags a release behind
two of the latest, so that a stale start, two equal starts and a half-migrated one
all occur. Two HTTP requests are one that holds up the drain and one beside it, and
one RPC suffices because RPCs meet nothing but the pool. Two filters with a batch of two give a full last batch and a partial
one. `SYMMETRY` is used in safety runs only; the identifiers it permutes are
compared for equality and nothing else. Deadlock is not checked in the
`Admin` configurations, where behaviours end when `MaxRequests` is used up, and in
the two of ServiceProcess, where a process ends; it is checked in all the others.

Fairness. A transaction's statements, the deadlock detector and the handler's
answer are weakly fair in `CatalogAdmin!FairSpec`: the server runs what it has
begun, and PostgreSQL's `deadlock_timeout` is finite. Nothing obliges an
operator to send a command or to submit an edit screen, and failures are never
obliged to happen. In `ProductCache` only a request's own steps are fair, the
500 ms timer among them; the expiry of the lock and a client's cancellation are not, so no liveness rests on
them. In `CatalogCache` the expiry of the entries is fair, since `NewProductCache`'s
TTLs are finite, and so is an invalidation that has begun. No read is.
In `ProductDetails` every read goes on and the deadlines of both calls pass; the
services need not answer, so `PagesAreAnswered` rests on the deadlines alone.
In `ServiceProcess` main() goes on once it shuts down, probes are periodic, a
statement that runs ends (PostgreSQL answers or the connection breaks), and an
RPC is served to its end. The steps of an HTTP client, a signal, a kill and the
start are not fair: `ShutdownEnds` rests on the timeout of the drain for HTTP, and
on the RPCs themselves for gRPC, whose `GracefulStop` has no deadline.
In `Migrations` kubelet restarts a container, what golang-migrate began goes on,
PostgreSQL's `lock_timeout` fires, and reads end but for the stuck one. `Lock` is
strongly fair, because PostgreSQL serves the queue of an advisory lock in turn: the pod
of the older release takes it again and again, and with weak fairness it could keep the
others out for ever. A human repairs a dirty ledger: the code says that nothing else does
(`000006_drop_stock.up.sql:119`), and without it `RolloutEnds` is false (`NobodyRepairs`).
`RolloutEnds` has the premise that faults stop: a crash, a file that fails, a lock
timeout, on a file or on the advisory lock. Being refused is none of them.

## 4. What is proved

`CatalogAdminProofs` (any number of operators, products, categories and names,
any `MaxRequests`), from `DataAssumption` and `AdminAssumption`; of the modules below on the
writers only the part on lock waits assumes more:

* `TypeCorrect`, `Soundness`, `AuditCoversVersions`, `AuditCoversStatuses`:
  `TypeOK`, `TransactionsAreSound`, `VersionTrail` and `StatusTrail` are invariants.
* `NoLostUpdate`, `LegalEdgesOnly`: the two action properties hold of every step.

None of the trail invariants is inductive: that a COMMIT appends the row that
fits depends on what the transaction read several statements earlier. The
invariant that is inductive is
`Inv == TypeOK /\ TransactionsAreSound /\ RequestsFit /\ VersionTrail /\ StatusTrail`, where
`TransactionsAreSound` says that a products row has at most one holder, that
what the holder has read is still what is committed, that what it is about to
write is one step from there, and that its one audit row says so. Row locks
keep the second true while others commit (`LocksAreExclusive`), and the second
turns the version check and `NextStatus`, evaluated statements earlier, into
guards of the COMMIT. There is one lemma per statement; the two lemmas about
sequences say what appending a fitting row does to a trail.

`CatalogNamesProofs` (the same constants): `UniqueNames`. `NamesAreUnique` is not
inductive either: that a COMMIT adds a name nobody has depends on the unique index,
which was consulted statements earlier. What carries over to the COMMIT is that a
name, once written, is claimed: no other row has it, committed, and no other
transaction has written it (`ProductNamesAreClaimed`, `CategoryNamesAreClaimed`).

`CatalogRefinementProofs` (the same constants): `ImplementsCatalog`, which is
`Spec => CommandsAreAtomic`. A COMMIT is the one step of CatalogAdmin that is not a
stutter of Catalog (`AbstractStep`); `ProductCommit` and `CategoryCommit` show which
atomic command it is. They need the two invariants above and a third, `ReadyInv`: the
names in hand are names, the category a written row refers to exists, the category a
create has numbered does not exist yet and the one a rename has locked does, and two
creates have different ids. It stays true because no COMMIT takes a category away.

* What readers see: `CategoriesExist` (a product's category is a committed one or none,
  `ReferencesInv`) and `ReadersSeeOnlyCommands`, which is `Spec => ReadersSeeCommands`.
  Both follow from the refinement: they are shown for each command of the atomic
  Catalog and carried to CatalogAdmin by `AbstractStep`. A create of a
  category relabels no product, because no row refers to the id it takes.
* Lock waits: `DeadlocksOfRenames`, that is `Spec => []DeadlocksAreNameSwaps`. A row lock
  is taken before anything else is held, so its waiters are on no cycle. A transaction
  that waits for a category's row is on none either, and this takes counting: whoever
  waits for it wants a name it claims; a claimed name has one claimant (`OneClaim`, from
  `NamesAreUnique` and its invariant); so each transaction of the cycle that is waited for
  at a name has a waiter of its own, and with the one at the foreign key there would be
  one transaction more than there are waiters (`NoCycleAtForeignKey`). With infinitely
  many operators there could be, hence `FinitelyManyOperators`: a transaction has a
  connection of a pool. The lemma `LockWaitsEnd` adds that whoever waits, waits for
  a transaction that can go on or for a cycle the detector breaks.

`CatalogRetriesProofs` (the same constants): `SecondEffectsAreOvertaken`, that is
`RetrySpec => RepeatsAreOvertaken`. (The lemma `RetriesAreCommands`, `RetrySpec => Spec`,
only says that the history stands beside the commands without touching them.) The
history says that a command has changed a row; the guards only see the row. The inductive invariant
(`RetryInv`) says what the first effect leaves behind in it: an edit a version above the
one it asks for and a transition a status other than DRAFT, which nobody takes back
(`LeavesItsMark`), the other commands their status or name, until another command
changes the row (`StaysUntilOvertaken`).

`CatalogCacheProofs` (any number of reads, list reads, writers, filters and category
names). The detail read by itself comes first, from `CacheAssumption`: `TypeCorrect`,
`FillsSound`, `StampedeIsPrevented`. The inductive invariant is `TypeOK /\ FillsAreSound`:
a request between `SetNX` and its release is named by the lock or is in `overrun`; the
compare-and-delete is what keeps it so when another request releases. Beside the
commands, from `CatalogCacheAssumption` too: `GuardedBesideCommands`, `CatalogTypeCorrect`,
`StaleDetails`, `StaleLists`. A step of the composition is one of ProductCache or a
change of the row, so the first invariant carries over; the version stays at most one
above the commands committed, which is why `MaxCommands < MaxVersion` is assumed.
The types alone are not inductive: a list request has a page in hand from its first
step to its last (`TypesInv`).
`StaleListIsExcused` speaks of the moment when no handler is at work. While one is, a
stale list is excused, or raced, or *owed*: its key is one the handler's scan has not
seen yet, or has found and not unlinked (`ListIsOwed`, `StaleListsAreInHand`). A
failed SCAN or UNLINK turns what is owed into what is lost.

`ProductDetailsProofs` (any subset of the reads as pages), from the same assumptions:
`PagesAreReads`, that is `PageSpec => CatalogSpec`, with which the theorems above hold
beside pages (`StaleDetailsBesidePages`), `PageTypeCorrect`, `SoftSourcesDoNotFail`,
`PagesAreWhole`. The
inductive invariant (`PageFits`) says that a page which has left the product behind
keeps its answer in hand until it is rendered, that it has no availability block before
it has asked for one, and that behind the question it has one exactly if its process has
a fetcher. `PageTypeOK` is proved here for every instance and not run.

`ServiceProcessProofs` (any number of HTTP requests and RPCs), from
`ProcessAssumption`: `TypeCorrect`, `DrainDelaySuffices`, `TransactionsAreNotCut`,
`ShutdownOrderSuffices`, `LastRecordIsExported`. The safety properties speak of
the exit; the inductive invariant says for each place of main() what is closed
and who has been waited for. It has a case of its own for the start that ends
because the dial to the review service failed: the pool is then still open, and
nobody is cut because nobody was ever served (`NeverServed`).

`MigrationsProofs` (any number of pods, releases, files and readers), from
`MigrationsAssumption`: `TypeCorrect`, `LedgerNamesTheSchema`, `SchemaBeforeServing`,
`FailuresStopTheRollout` (that is `Spec => OnlyARepairEndsTheStop`).
The invariant says that a pod between `Lock` and its exit is alone
(`HolderIsAlone`) and what the ledger is at each of its places
(`HolderIsOnTrack`): the file at hand is the ledger's next one, or the dirty one.

Every safety invariant and every action property that a passing run checks is stated by a
theorem. Only model-checked is liveness (`CommandsAreAnswered`, `RequestsAreAnswered`, `PagesAreAnswered`,
`DetailConverges`, `ListsConverge`, `ShutdownEnds`, `ReadsAreNotStarved`, `RolloutEnds`): it
rests on fairness and `ENABLED`, which these provers do not handle.

## 5. What is not modelled

* Pure I/O and wiring: the set-up of pool, cache and telemetry, tracing, metrics,
  JSON, the authentication middleware, the demo seed (a few idempotent INSERTs that
  production refuses).
* Pure functions of their input: configuration and its validation, the parsing of
  filters and pages, the batch price read (`internal/grpc/v1/server.go`), the average
  of the reviews. They keep nothing and meet nobody; the tests beside them reach
  their boundaries.
* Prices and descriptions. No guard reads them, so neither `DECIMAL` rounding nor the
  comparison of floats in the audit is covered.
* Spellings. Ids and filters are model values, so that an id PostgreSQL reads in two
  spellings, and a filter spelled like the default, have one cache key each.
* `POST` of the internal create and `Update`, `Delete` of the read repository: the
  first is one INSERT without an audit row, the others have no caller.
* What other roles may do: the grants of 000005, the revokes of 000006. The down file
  of 000006 is applied by hand.
* Serialisation failures do not occur at READ COMMITTED.
* Of the process, the profiler and the replica pool: their failures end the start or
  are ignored, as those modelled do. The dial to inventory is not in `ServiceProcess`,
  where nothing depends on it, but in the pages of `ProductDetails`.

Two more disagreements between comments and code are no runs of their own: a property
states what the code does, and it is not what the comments say.

* `000006_drop_stock.up.sql:41-42` ("the init container runs again") and
  `000007_product_lifecycle.up.sql:18-19` ("letting the init container retry") count on
  the next container after a lock timeout. For golang-migrate that is an error like any
  other: the version stays dirty, and, as 000006 says at line 118 of a refused revoke,
  the container crash-loops until a human intervenes. `OnlyARepairEndsTheStop` says so
  for every order of starts, and the mutant of `RolloutEnds` is a rollout in which the
  containers run again and nobody repairs: it never ends.
* `cmd/main.go:300` logs after a failed dial to inventory that "/details will report
  status=unknown", `cmd/main.go:292` says that an unreachable inventory "resolves each
  request" to it, and `internal/logic/v1/details.go:135` calls a nil fetcher "a test
  seam, not a runtime mode". After a failed dial `WithAvailability` is not called, the
  fetcher is nil, and the pages have no availability block at all.
  `RenderedPagesAreWhole` states both cases: the block is missing exactly in the pages of
  such a process.

## 6. Plan

Done: the writers with their refinement, names and retries (CatalogAdmin,
CatalogRetries and their proofs); the cached reads, lists and details page; the start
and the shutdown; the migrations.

Left, in this order:

1. Spellings of ids and of filters as sets of cache keys of one row.
2. Writers and reads of the release before beside a column that is added or dropped,
   as a composition of Migrations and the catalog.
