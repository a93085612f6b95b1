--------------------------- MODULE ServiceProcess ---------------------------
(***************************************************************************)
(* One process of the service, from cmd/main.go: the start of its parts,   *)
(* the requests it serves, and the shutdown that a signal begins.          *)
(*                                                                         *)
(* main() is one goroutine; every request and the HTTP server run in       *)
(* others, which end with the process wherever they are.  An HTTP request  *)
(* is a command of the protected routes (a read is a command that stops    *)
(* before its COMMIT), an RPC is a price read.  pgxpool's Close refuses    *)
(* new work at once and waits for the connections that are in use.         *)
(***************************************************************************)

CONSTANTS
  HttpRequests,   \* requests of the HTTP server
  Rpcs            \* requests of the gRPC server

ASSUME ProcessAssumption == HttpRequests \cap Rpcs = {}

VARIABLES
  main,                        \* where main() is
  isShuttingDown,              \* the flag behind /ready
  httpOpen, grpcOpen,          \* the listeners
  pool, cache,                 \* the clients; cache is "nil" without Valkey
  routed,                      \* the load balancer sends requests here
  probed,                      \* /ready was asked since the signal
  stage,                       \* where each request is
  history,                     \* what has happened to each request
  timedOut,                    \* Shutdown gave up on requests in flight
  record,                      \* what became of the record process.stopped
  drainDelay,                  \* the configured delay covers a readiness probe
  exporter                     \* telemetry is set up and its endpoint answers

servers == <<isShuttingDown, httpOpen, grpcOpen>>
clients == <<pool, cache>>
balancer == <<routed, probed>>
requests == <<stage, history>>
shutdown == <<timedOut, record>>
given == <<drainDelay, exporter>>
vars == <<main, servers, clients, balancer, requests, shutdown, given>>

Requests == HttpRequests \cup Rpcs

-----------------------------------------------------------------------------
Places == {"connectDatabase", "connectCache", "dialReview", "startGRPC", "startHTTP",
           "serving", "drainDelay", "httpShutdown", "gracefulStop", "poolClosing",
           "flush", "closeClients", "return", "exited", "dead"}

Stages == {"none", "refused", "accepted", "querying", "committed", "writing", "answered"}

\* "failed": answered with a 5xx; "starved": found the pool closed; "stale": its
\* invalidation found the cache client closed.
Marks == {"committed", "failed", "starved", "stale"}

TypeOK ==
  /\ main \in Places
  /\ isShuttingDown \in BOOLEAN /\ httpOpen \in BOOLEAN /\ grpcOpen \in BOOLEAN
  /\ pool \in {"none", "open", "closed"} /\ cache \in {"nil", "open", "closed"}
  /\ routed \in BOOLEAN /\ probed \in BOOLEAN
  /\ stage \in [Requests -> Stages]
  /\ history \in [Requests -> SUBSET Marks]
  /\ \A r \in Rpcs : "committed" \notin history[r]
  /\ timedOut \in BOOLEAN /\ record \in {"none", "written", "exported"}
  /\ drainDelay \in BOOLEAN /\ exporter \in BOOLEAN

Init ==
  /\ main = "connectDatabase"
  /\ isShuttingDown = FALSE /\ httpOpen = FALSE /\ grpcOpen = FALSE
  /\ pool = "none" /\ cache = "nil"
  /\ routed = FALSE /\ probed = FALSE
  /\ stage = [r \in Requests |-> "none"]
  /\ history = [r \in Requests |-> {}]
  /\ timedOut = FALSE /\ record = "none"
  /\ drainDelay \in BOOLEAN /\ exporter \in BOOLEAN

Alive == main \notin {"exited", "dead"}

InFlight(r) == stage[r] \in {"accepted", "querying", "committed", "writing"}

\* main() goes on; what runs in other goroutines is where it was.
Goto(from, to) ==
  /\ main = from
  /\ main' = to
  /\ UNCHANGED <<balancer, requests, given>>

-----------------------------------------------------------------------------
(* The start.  logger.Fatal ends the process without the deferred closes. *)

ConnectDatabase ==
  /\ \/ Goto("connectDatabase", "connectCache") /\ pool' = "open"
     \/ Goto("connectDatabase", "dead") /\ UNCHANGED pool
  /\ UNCHANGED <<servers, cache, shutdown>>

\* Disabled or unreachable, the cache stays nil and the service goes on.
ConnectCache ==
  /\ Goto("connectCache", "dialReview")
  /\ cache' \in {"nil", "open"}
  /\ UNCHANGED <<servers, pool, shutdown>>

\* A failed dial returns from main(), through the deferred closes.
DialReview ==
  /\ Goto("dialReview", "startGRPC") \/ Goto("dialReview", "closeClients")
  /\ UNCHANGED <<servers, clients, shutdown>>

\* startGRPC returns nil if the port is taken, and the service goes on without it.
StartGRPC ==
  /\ Goto("startGRPC", "startHTTP")
  /\ grpcOpen' \in BOOLEAN
  /\ UNCHANGED <<isShuttingDown, httpOpen, clients, shutdown>>

\* The staff verifier (Fatal without it), the routes, and the server's goroutine.
StartHTTP ==
  /\ Goto("startHTTP", "serving") \/ Goto("startHTTP", "dead")
  /\ UNCHANGED <<servers, clients, shutdown>>

\* The goroutine's listener: open, or Fatal; too late if Shutdown came first.
ListenAndServe ==
  /\ main \in {"serving", "drainDelay"} /\ ~httpOpen
  /\ \/ Goto(main, main) /\ httpOpen' = TRUE
     \/ Goto(main, "dead") /\ UNCHANGED httpOpen
  /\ UNCHANGED <<isShuttingDown, grpcOpen, clients, shutdown>>

-----------------------------------------------------------------------------
(* The load balancer and the requests. *)

\* Faulty variant: a readiness check that is not told about the shutdown.
ProbeHealth ==
  /\ Alive
  /\ routed' = httpOpen
  /\ probed' = isShuttingDown
  /\ UNCHANGED <<main, servers, clients, requests, shutdown, given>>

\* One round of readiness probes; nobody answers before the listener is open.
Probe ==
  /\ Alive
  /\ routed' = (httpOpen /\ ~isShuttingDown)
  /\ probed' = isShuttingDown
  /\ UNCHANGED <<main, servers, clients, requests, shutdown, given>>

RequestStep(r, from, to, marks) ==
  /\ Alive /\ stage[r] = from
  /\ stage' = [stage EXCEPT ![r] = to]
  /\ history' = [history EXCEPT ![r] = @ \cup marks]
  /\ UNCHANGED <<main, servers, clients, balancer, shutdown, given>>

Arrive(r) ==
  \/ r \in HttpRequests /\ routed
       /\ RequestStep(r, "none", IF httpOpen THEN "accepted" ELSE "refused", {})
  \/ r \in Rpcs /\ grpcOpen /\ RequestStep(r, "none", "accepted", {})

\* The first use of the pool: a connection, or ErrClosedPool and a 500.
Acquire(r) ==
  \/ pool = "open" /\ RequestStep(r, "accepted", "querying", {})
  \/ pool = "closed" /\ RequestStep(r, "accepted", "writing", {"failed", "starved"})

\* Faulty variant: a price read writes, too.
QueryEndsInCommit(r) == RequestStep(r, "querying", "committed", {"committed"})

\* The connection is returned: after a COMMIT, or after a read or an error.
QueryEnds(r) ==
  \/ r \in HttpRequests /\ RequestStep(r, "querying", "committed", {"committed"})
  \/ RequestStep(r, "querying", "writing", {})
  \/ RequestStep(r, "querying", "writing", {"failed"})

\* The handler's invalidation.  An error is ignored, but without a cache the
\* interface h.cache holds a nil *ProductCache, which is not nil: its method
\* dereferences the nil receiver, and the recovery middleware answers 500.
Invalidate(r) ==
  RequestStep(r, "committed", "writing",
    CASE cache = "open" -> {} [] cache = "closed" -> {"stale"} [] cache = "nil" -> {"failed"})

\* The response: an HTTP client may read it as slowly as it likes.
Write(r) == RequestStep(r, "writing", "answered", {})

-----------------------------------------------------------------------------
(* The shutdown. *)

\* SIGTERM or SIGINT; further ones change nothing.
Signal ==
  /\ Goto("serving", "drainDelay")
  /\ isShuttingDown' = TRUE
  /\ UNCHANGED <<httpOpen, grpcOpen, clients, shutdown>>

\* The delay is over and Shutdown closes the listener.
DrainDelayEnds ==
  /\ drainDelay => probed
  /\ Goto("drainDelay", "httpShutdown")
  /\ httpOpen' = FALSE
  /\ UNCHANGED <<isShuttingDown, grpcOpen, clients, shutdown>>

\* The gRPC server is next: GracefulStop closes its listener.
GracefulStop ==
  /\ Goto("httpShutdown", "gracefulStop")
  /\ grpcOpen' = FALSE
  /\ UNCHANGED <<isShuttingDown, httpOpen, clients, record>>

\* Faulty variant: Close instead of Shutdown.
HttpClosed == GracefulStop /\ UNCHANGED timedOut

HttpDrained ==
  /\ \A r \in HttpRequests : ~InFlight(r)
  /\ GracefulStop /\ UNCHANGED timedOut

\* Faulty variant: Shutdown with a context that never expires.
NoHttpTimeout == FALSE /\ UNCHANGED vars

\* shutdownTimeout runs out; what is in flight goes on beside main().
HttpTimeout ==
  /\ \E r \in HttpRequests : InFlight(r)
  /\ GracefulStop /\ timedOut' = TRUE

\* GracefulStop has no deadline: it ends when the last RPC has.  Then pool.Close.
GrpcDrained ==
  /\ \A r \in Rpcs : ~InFlight(r)
  /\ Goto("gracefulStop", "poolClosing")
  /\ pool' = "closed"
  /\ UNCHANGED <<servers, cache, shutdown>>

\* Faulty variant: the connections in use are not waited for.
PoolClosedAtOnce ==
  /\ Goto("poolClosing", "flush")
  /\ record' = "written"
  /\ UNCHANGED <<servers, clients, timedOut>>

\* pool.Close returns and ProcessStopped is logged, before telemetry goes.
PoolClosed ==
  /\ \A r \in Requests : stage[r] # "querying"
  /\ Goto("poolClosing", "flush")
  /\ record' = "written"
  /\ UNCHANGED <<servers, clients, timedOut>>

\* Faulty variant: the flush runs on what the HTTP drain left of its context.
FlushInDrainBudget ==
  /\ Goto("flush", "closeClients")
  /\ record' = IF exporter /\ ~timedOut THEN "exported" ELSE record
  /\ UNCHANGED <<servers, clients, timedOut>>

\* shutdownTelemetry has a deadline of its own.
FlushTelemetry ==
  /\ Goto("flush", "closeClients")
  /\ record' = IF exporter THEN "exported" ELSE record
  /\ UNCHANGED <<servers, clients, timedOut>>

\* The deferred closes, last opened first: the cache long after the pool.
CloseClients ==
  /\ Goto("closeClients", "return")
  /\ cache' = IF cache = "open" THEN "closed" ELSE cache
  /\ UNCHANGED <<servers, pool, shutdown>>

Return == Goto("return", "exited") /\ UNCHANGED <<servers, clients, shutdown>>

\* SIGKILL, at the end of the grace period or of the node.
Kill == Alive /\ Goto(main, "dead") /\ UNCHANGED <<servers, clients, shutdown>>

Start == ConnectDatabase \/ ConnectCache \/ DialReview \/ StartGRPC \/ StartHTTP

Shutdown ==
  \/ DrainDelayEnds \/ HttpDrained \/ HttpTimeout \/ GrpcDrained
  \/ PoolClosed \/ FlushTelemetry \/ CloseClients \/ Return

Serve(r) == Acquire(r) \/ QueryEnds(r) \/ Invalidate(r)

Next ==
  \/ Start \/ ListenAndServe \/ Signal \/ Shutdown \/ Kill
  \/ Probe
  \/ \E r \in Requests : Arrive(r) \/ Serve(r) \/ Write(r)

Spec == Init /\ [][Next]_vars

\* main() goes on, probes are periodic, statements end, and RPCs are served to their
\* end.  An HTTP client need not finish its body or read its answer.
Fairness ==
  /\ WF_vars(Shutdown) /\ WF_vars(Probe)
  /\ \A r \in Requests : WF_vars(QueryEnds(r))
  /\ \A r \in Rpcs : WF_vars(Serve(r)) /\ WF_vars(Write(r))

FairSpec == Spec /\ Fairness

-----------------------------------------------------------------------------
(* What the shutdown promises. *)

\* A drain delay that covers a readiness probe is enough: the balancer sends
\* nothing to a closed listener.
NobodyIsRefused == drainDelay => \A r \in HttpRequests : stage[r] # "refused"

\* A process that exits on its own cuts no transaction or query short, not even
\* one that the HTTP drain gave up on.
NoTransactionIsCut == main = "exited" => \A r \in Requests : stage[r] # "querying"

\* Only an HTTP drain that timed out leaves work undone: otherwise everything
\* accepted has been answered at the exit, with the pool and the cache in place
\* for as long as it needed them; and an RPC always is.
AcceptedWorkIsFinished ==
  \A r \in Requests :
    \/ main = "exited" /\ InFlight(r)
    \/ history[r] \cap {"starved", "stale"} # {}
    => r \in HttpRequests /\ timedOut

\* A shutdown's last record is exported if anybody listens, however much of its
\* budget the HTTP drain has used up.
StoppedIsExported ==
  main = "exited" /\ isShuttingDown /\ exporter => record = "exported"

\* Every shutdown ends, although HTTP clients may never read their answers.
ShutdownEnds == isShuttingDown ~> ~Alive

-----------------------------------------------------------------------------
(* What the comments promise and the code does not keep. *)

\* A committed command is not reported as failed: the invalidation after it is
\* best effort, and a stack without a cache simply skips it.
CommittedIsNotFailed == \A r \in Requests : ~({"committed", "failed"} \subseteq history[r])
=============================================================================
