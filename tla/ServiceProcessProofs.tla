------------------------ MODULE ServiceProcessProofs ------------------------
(* Proofs about ServiceProcess, for any number of requests. *)
EXTENDS ServiceProcess, TLAPS

-----------------------------------------------------------------------------
(* The inductive invariant: what each place of main() says of the rest. *)

Starting == {"connectDatabase", "connectCache", "dialReview", "startGRPC", "startHTTP"}
HttpIsShut == {"httpShutdown", "gracefulStop", "poolClosing", "flush", "closeClients",
               "return", "exited"}
HttpIsDrained == HttpIsShut \ {"httpShutdown"}
GrpcIsDrained == HttpIsDrained \ {"gracefulStop"}
PoolIsClosed == GrpcIsDrained \ {"poolClosing"}
TelemetryIsFlushed == PoolIsClosed \ {"flush"}

\* Nobody was ever served: the process ends because a dial failed.
NeverServed == /\ ~isShuttingDown /\ ~httpOpen /\ ~grpcOpen /\ ~routed
               /\ \A r \in Requests : stage[r] = "none"

\* The listeners: closed before the start and from the shutdown on.
ListenersFollowMain ==
  /\ main \in Starting => ~isShuttingDown /\ ~httpOpen /\ ~routed
  /\ main \in Starting \ {"startHTTP"} => NeverServed
  /\ main = "serving" => ~isShuttingDown
  /\ main \in HttpIsShut => ~httpOpen
  /\ main \in HttpIsDrained => ~grpcOpen

\* The clients: open for as long as main() has not drained their users.
ClientsFollowMain ==
  /\ pool = "closed" => main \in GrpcIsDrained \cup {"dead"}
  /\ main \in GrpcIsDrained => pool = "closed" \/ NeverServed
  /\ cache = "closed" => main \in {"return", "exited", "dead"}

\* The balancer: it sends nothing once a probe has seen the shutdown.
BalancerFollowsProbe ==
  /\ probed => isShuttingDown /\ ~routed
  /\ drainDelay /\ routed => httpOpen

\* The requests: drained where main() has waited for them.
RequestsAreDrained ==
  /\ main \in HttpIsDrained /\ ~timedOut => \A r \in HttpRequests : ~InFlight(r)
  /\ main \in GrpcIsDrained => \A r \in Rpcs : ~InFlight(r)
  /\ main \in PoolIsClosed => \A r \in Requests : stage[r] # "querying"
  /\ \A r \in Requests : history[r] \cap {"starved", "stale"} # {} => r \in HttpRequests /\ timedOut

\* The last record: flushed before the clients are closed.
RecordIsFlushed ==
  /\ main = "flush" => record = "written"
  /\ main \in TelemetryIsFlushed /\ isShuttingDown /\ exporter => record = "exported"

Inv ==
  /\ TypeOK /\ ListenersFollowMain /\ ClientsFollowMain /\ BalancerFollowsProbe
  /\ NobodyIsRefused /\ RequestsAreDrained /\ RecordIsFlushed

-----------------------------------------------------------------------------
\* Before main() has done anything, nobody is served and nothing is closed.
LEMMA InitInv == Init => Inv
BY DEF Init, Inv, TypeOK, ListenersFollowMain, ClientsFollowMain, BalancerFollowsProbe,
       NobodyIsRefused, RequestsAreDrained, RecordIsFlushed, NeverServed, InFlight,
       Starting, HttpIsShut, HttpIsDrained, GrpcIsDrained, PoolIsClosed, TelemetryIsFlushed,
       Places, Stages, Marks, Requests

\* The start opens one part after the other, and a failed dial ends it unserved.
LEMMA StartInv ==
  ASSUME Inv, Start \/ ListenAndServe
  PROVE  Inv'
<1> USE DEF Inv, TypeOK, ListenersFollowMain, ClientsFollowMain, BalancerFollowsProbe,
            NobodyIsRefused, RequestsAreDrained, RecordIsFlushed, NeverServed, InFlight,
            Starting, HttpIsShut, HttpIsDrained, GrpcIsDrained, PoolIsClosed,
            TelemetryIsFlushed, Places, Goto,
            servers, clients, balancer, requests, shutdown, given
<1>1. CASE ConnectDatabase
  BY <1>1 DEF ConnectDatabase
<1>2. CASE ConnectCache
  BY <1>2 DEF ConnectCache
<1>3. CASE DialReview
  <2>1. CASE Goto("dialReview", "startGRPC")
    BY <1>3, <2>1 DEF DialReview
  <2>2. CASE Goto("dialReview", "closeClients")
    <3>1. NeverServed /\ pool # "closed"
      BY <2>2
    <3>2. NeverServed'
      BY <1>3, <2>2, <3>1 DEF DialReview
    <3>3. TypeOK' /\ ListenersFollowMain' /\ ClientsFollowMain'
      BY <1>3, <2>2, <3>1, <3>2 DEF DialReview
    <3>4. BalancerFollowsProbe' /\ NobodyIsRefused' /\ RecordIsFlushed'
      BY <1>3, <2>2, <3>1, <3>2 DEF DialReview
    <3>5. RequestsAreDrained'
      BY <1>3, <2>2, <3>1, <3>2 DEF DialReview, Requests
    <3> QED
      BY <3>3, <3>4, <3>5
  <2> QED
    BY <1>3, <2>1, <2>2 DEF DialReview
<1>4. CASE StartGRPC
  BY <1>4 DEF StartGRPC
<1>5. CASE StartHTTP
  BY <1>5 DEF StartHTTP
<1>6. CASE ListenAndServe
  <2>1. CASE Goto(main, main) /\ httpOpen' = TRUE
    BY <1>6, <2>1 DEF ListenAndServe
  <2>2. CASE Goto(main, "dead") /\ UNCHANGED httpOpen
    BY <1>6, <2>2 DEF ListenAndServe
  <2> QED
    BY <1>6, <2>1, <2>2 DEF ListenAndServe
<1> QED
  BY <1>1, <1>2, <1>3, <1>4, <1>5, <1>6 DEF Start

\* The shutdown closes each part after it has waited for those who use it.
LEMMA ShutdownInv ==
  ASSUME Inv, Signal \/ Shutdown \/ Kill \/ Probe
  PROVE  Inv'
<1> USE DEF Inv, TypeOK, ListenersFollowMain, ClientsFollowMain, BalancerFollowsProbe,
            NobodyIsRefused, RequestsAreDrained, RecordIsFlushed, NeverServed, InFlight,
            Starting, HttpIsShut, HttpIsDrained, GrpcIsDrained, PoolIsClosed,
            TelemetryIsFlushed, Places, Goto,
            servers, clients, balancer, requests, shutdown, given
<1>1. CASE Signal
  BY <1>1 DEF Signal
<1>2. CASE DrainDelayEnds
  <2>1. TypeOK' /\ ListenersFollowMain'
    BY <1>2 DEF DrainDelayEnds
  <2>2. ClientsFollowMain' /\ BalancerFollowsProbe'
    BY <1>2 DEF DrainDelayEnds
  <2>3. NobodyIsRefused' /\ RecordIsFlushed'
    BY <1>2 DEF DrainDelayEnds
  <2>4. RequestsAreDrained'
    BY <1>2 DEF DrainDelayEnds
  <2> QED
    BY <2>1, <2>2, <2>3, <2>4
<1>3. CASE HttpDrained
  <2>1. TypeOK' /\ ListenersFollowMain'
    BY <1>3 DEF HttpDrained, GracefulStop
  <2>2. ClientsFollowMain' /\ BalancerFollowsProbe'
    BY <1>3 DEF HttpDrained, GracefulStop
  <2>3. NobodyIsRefused' /\ RecordIsFlushed'
    BY <1>3 DEF HttpDrained, GracefulStop
  <2>4. RequestsAreDrained'
    BY <1>3 DEF HttpDrained, GracefulStop
  <2> QED
    BY <2>1, <2>2, <2>3, <2>4
<1>4. CASE HttpTimeout
  <2>1. TypeOK' /\ ListenersFollowMain'
    BY <1>4 DEF HttpTimeout, GracefulStop
  <2>2. ClientsFollowMain' /\ BalancerFollowsProbe'
    BY <1>4 DEF HttpTimeout, GracefulStop
  <2>3. NobodyIsRefused' /\ RecordIsFlushed'
    BY <1>4 DEF HttpTimeout, GracefulStop
  <2>4. RequestsAreDrained'
    BY <1>4 DEF HttpTimeout, GracefulStop
  <2> QED
    BY <2>1, <2>2, <2>3, <2>4
<1>5. CASE GrpcDrained
  <2>1. TypeOK' /\ ListenersFollowMain'
    BY <1>5 DEF GrpcDrained
  <2>2. ClientsFollowMain' /\ BalancerFollowsProbe'
    BY <1>5 DEF GrpcDrained
  <2>3. NobodyIsRefused' /\ RecordIsFlushed'
    BY <1>5 DEF GrpcDrained
  <2>4. RequestsAreDrained'
    BY <1>5 DEF GrpcDrained
  <2> QED
    BY <2>1, <2>2, <2>3, <2>4
<1>6. CASE PoolClosed
  <2>1. TypeOK' /\ ListenersFollowMain'
    BY <1>6 DEF PoolClosed
  <2>2. ClientsFollowMain' /\ BalancerFollowsProbe'
    BY <1>6 DEF PoolClosed
  <2>3. NobodyIsRefused' /\ RecordIsFlushed'
    BY <1>6 DEF PoolClosed
  <2>4. RequestsAreDrained'
    BY <1>6 DEF PoolClosed
  <2> QED
    BY <2>1, <2>2, <2>3, <2>4
<1>7. CASE FlushTelemetry
  BY <1>7 DEF FlushTelemetry
<1>8. CASE CloseClients
  BY <1>8 DEF CloseClients
<1>9. CASE Return
  BY <1>9 DEF Return
<1>10. CASE Kill
  BY <1>10 DEF Kill, Alive
<1>11. CASE Probe
  BY <1>11 DEF Probe, Alive
<1> QED
  BY <1>1, <1>2, <1>3, <1>4, <1>5, <1>6, <1>7, <1>8, <1>9, <1>10, <1>11 DEF Shutdown

\* What a request's step must respect, whichever it is: it comes from a request that
\* somebody accepted, it queries an open pool, and it fails for a closed one only
\* after a drain that timed out.
LEMMA RequestStepInv ==
  ASSUME NEW r \in Requests, NEW from \in Stages, NEW to \in Stages \ {"none"},
         NEW marks \in SUBSET Marks,
         Inv, RequestStep(r, from, to, marks), ~NeverServed,
         r \in Rpcs => "committed" \notin marks,
         InFlight(r) \/ (IF r \in HttpRequests THEN httpOpen ELSE grpcOpen) \/ to = "refused",
         to = "refused" => r \in HttpRequests /\ ~drainDelay,
         to = "querying" => pool = "open",
         marks \cap {"starved", "stale"} # {} => r \in HttpRequests /\ timedOut
  PROVE  Inv'
<1> USE DEF Inv
<1>1. /\ UNCHANGED <<main, isShuttingDown, httpOpen, grpcOpen, pool, cache, routed, probed>>
      /\ UNCHANGED <<timedOut, record, drainDelay, exporter>>
      /\ stage' = [stage EXCEPT ![r] = to]
      /\ history' = [history EXCEPT ![r] = @ \cup marks]
  BY DEF RequestStep, servers, clients, balancer, shutdown, given
<1>2. TypeOK'
  BY <1>1 DEF TypeOK
<1>3. main \notin Starting \ {"startHTTP"}
  BY DEF ListenersFollowMain
<1>4. ListenersFollowMain'
  BY <1>1, <1>3 DEF ListenersFollowMain
<1>5. main \in GrpcIsDrained => pool = "closed"
  BY DEF ClientsFollowMain
<1>6. ClientsFollowMain'
  BY <1>1, <1>5 DEF ClientsFollowMain
<1>7. BalancerFollowsProbe' /\ RecordIsFlushed'
  BY <1>1 DEF BalancerFollowsProbe, RecordIsFlushed
<1>8. NobodyIsRefused'
  BY <1>1 DEF NobodyIsRefused, TypeOK
<1>9. RequestsAreDrained'
  <2>1. ASSUME main \in HttpIsDrained, ~timedOut, NEW q \in HttpRequests
        PROVE  ~InFlight(q)'
    BY <1>1, <2>1 DEF RequestsAreDrained, ListenersFollowMain, InFlight, TypeOK,
                      HttpIsDrained, HttpIsShut, Requests
  <2>2. ASSUME main \in GrpcIsDrained, NEW q \in Rpcs
        PROVE  ~InFlight(q)'
    BY <1>1, <2>2, ProcessAssumption
       DEF RequestsAreDrained, ListenersFollowMain, InFlight, TypeOK,
           GrpcIsDrained, HttpIsDrained, HttpIsShut, Requests
  <2>3. ASSUME main \in PoolIsClosed, NEW q \in Requests
        PROVE  stage'[q] # "querying"
    BY <1>1, <1>5, <2>3 DEF RequestsAreDrained, TypeOK, PoolIsClosed
  <2>4. ASSUME NEW q \in Requests, history'[q] \cap {"starved", "stale"} # {}
        PROVE  q \in HttpRequests /\ timedOut
    BY <1>1, <2>4 DEF RequestsAreDrained, TypeOK
  <2> QED
    BY <1>1, <2>1, <2>2, <2>3, <2>4 DEF RequestsAreDrained
<1> QED
  BY <1>2, <1>4, <1>6, <1>7, <1>8, <1>9

\* A request that is being served was not born in a process nobody reached, and main()
\* has not drained its kind.
LEMMA ServedRequest ==
  ASSUME NEW r \in Requests, Inv, Alive, InFlight(r)
  PROVE  /\ ~NeverServed
         /\ pool = "closed" => r \in HttpRequests /\ timedOut
         /\ cache = "closed" => r \in HttpRequests /\ timedOut
BY DEF Inv, Alive, InFlight, NeverServed, ClientsFollowMain, RequestsAreDrained, Requests,
       GrpcIsDrained, HttpIsDrained, HttpIsShut

\* Every step of a request keeps the invariant.
LEMMA RequestInv ==
  ASSUME NEW r \in Requests, Inv, Arrive(r) \/ Serve(r) \/ Write(r)
  PROVE  Inv'
<1> USE DEF Stages, Marks
<1>0. Alive
  BY DEF Arrive, Serve, Acquire, QueryEnds, Invalidate, Write, RequestStep
<1>1. CASE Arrive(r)
  <2>1. CASE r \in HttpRequests /\ routed /\ httpOpen
    <3>1. RequestStep(r, "none", "accepted", {})
      BY <1>1, <2>1, ProcessAssumption DEF Arrive
    <3> QED
      BY <2>1, <3>1, RequestStepInv DEF NeverServed
  <2>2. CASE r \in HttpRequests /\ routed /\ ~httpOpen
    <3>1. RequestStep(r, "none", "refused", {})
      BY <1>1, <2>2, ProcessAssumption DEF Arrive
    <3>2. ~drainDelay
      BY <2>2 DEF Inv, BalancerFollowsProbe, TypeOK
    <3> QED
      BY <2>2, <3>1, <3>2, RequestStepInv DEF NeverServed
  <2>3. CASE r \in Rpcs /\ grpcOpen /\ RequestStep(r, "none", "accepted", {})
    BY <2>3, ProcessAssumption, RequestStepInv DEF NeverServed
  <2> QED
    BY <1>1, <2>1, <2>2, <2>3 DEF Arrive
<1>2. CASE Acquire(r)
  <2>1. InFlight(r)
    BY <1>2 DEF Acquire, RequestStep, InFlight
  <2>2. CASE pool = "open" /\ RequestStep(r, "accepted", "querying", {})
    BY <1>0, <2>1, <2>2, ServedRequest, RequestStepInv
  <2>3. CASE pool = "closed" /\ RequestStep(r, "accepted", "writing", {"failed", "starved"})
    BY <1>0, <2>1, <2>3, ServedRequest, RequestStepInv
  <2> QED
    BY <1>2, <2>2, <2>3 DEF Acquire
<1>3. CASE QueryEnds(r)
  <2>1. InFlight(r)
    BY <1>3 DEF QueryEnds, RequestStep, InFlight
  <2>2. CASE r \in HttpRequests /\ RequestStep(r, "querying", "committed", {"committed"})
    BY <1>0, <2>1, <2>2, ProcessAssumption, ServedRequest, RequestStepInv
  <2>3. CASE RequestStep(r, "querying", "writing", {})
    BY <1>0, <2>1, <2>3, ServedRequest, RequestStepInv
  <2>4. CASE RequestStep(r, "querying", "writing", {"failed"})
    BY <1>0, <2>1, <2>4, ServedRequest, RequestStepInv
  <2> QED
    BY <1>3, <2>2, <2>3, <2>4 DEF QueryEnds
<1>4. CASE Invalidate(r)
  <2>1. InFlight(r)
    BY <1>4 DEF Invalidate, RequestStep, InFlight
  <2>2. CASE cache = "open"
    <3>1. RequestStep(r, "committed", "writing", {})
      BY <1>4, <2>2 DEF Invalidate
    <3> QED
      BY <1>0, <2>1, <3>1, ServedRequest, RequestStepInv
  <2>3. CASE cache = "closed"
    <3>1. RequestStep(r, "committed", "writing", {"stale"})
      BY <1>4, <2>3 DEF Invalidate
    <3> QED
      BY <1>0, <2>1, <2>3, <3>1, ServedRequest, RequestStepInv
  <2>4. CASE cache = "nil"
    <3>1. RequestStep(r, "committed", "writing", {"failed"})
      BY <1>4, <2>4 DEF Invalidate
    <3> QED
      BY <1>0, <2>1, <3>1, ServedRequest, RequestStepInv
  <2> QED
    BY <2>2, <2>3, <2>4 DEF Inv, TypeOK
<1>5. CASE Write(r)
  <2>1. InFlight(r)
    BY <1>5 DEF Write, RequestStep, InFlight
  <2> QED
    BY <1>0, <1>5, <2>1, ServedRequest, RequestStepInv DEF Write
<1> QED
  BY <1>1, <1>2, <1>3, <1>4, <1>5 DEF Serve

\* The invariant is inductive.
LEMMA NextInv == Inv /\ [Next]_vars => Inv'
<1> SUFFICES ASSUME Inv, [Next]_vars PROVE Inv'
  OBVIOUS
<1>1. CASE Start \/ ListenAndServe
  BY <1>1, StartInv
<1>2. CASE Signal \/ Shutdown \/ Kill \/ Probe
  BY <1>2, ShutdownInv
<1>3. CASE \E r \in Requests : Arrive(r) \/ Serve(r) \/ Write(r)
  BY <1>3, RequestInv
<1>4. CASE UNCHANGED vars
  BY <1>4 DEF vars, servers, clients, balancer, requests, shutdown, given,
         Inv, TypeOK, ListenersFollowMain, ClientsFollowMain, BalancerFollowsProbe,
         NobodyIsRefused, RequestsAreDrained, RecordIsFlushed, NeverServed, InFlight
<1> QED
  BY <1>1, <1>2, <1>3, <1>4 DEF Next

LEMMA Invariance == Spec => []Inv
BY InitInv, NextInv, PTL DEF Spec

-----------------------------------------------------------------------------
(* The theorems. *)

\* Every reachable state of the process is typed.
THEOREM TypeCorrect == Spec => []TypeOK
<1>1. Inv => TypeOK
  BY DEF Inv
<1> QED
  BY <1>1, Invariance, PTL

\* A drain delay that covers one readiness probe keeps the balancer from the closed
\* listener, however the probes, the requests and the shutdown interleave.
THEOREM DrainDelaySuffices == Spec => []NobodyIsRefused
<1>1. Inv => NobodyIsRefused
  BY DEF Inv
<1> QED
  BY <1>1, Invariance, PTL

\* pool.Close waits for every connection in use, also for those of requests that the
\* HTTP drain gave up on.
THEOREM TransactionsAreNotCut == Spec => []NoTransactionIsCut
<1>1. Inv => NoTransactionIsCut
  BY DEF Inv, RequestsAreDrained, NoTransactionIsCut, PoolIsClosed, GrpcIsDrained,
         HttpIsDrained, HttpIsShut
<1> QED
  BY <1>1, Invariance, PTL

\* The order HTTP, gRPC, pool, cache leaves nobody without what it needs, unless the
\* HTTP drain timed out.
THEOREM ShutdownOrderSuffices == Spec => []AcceptedWorkIsFinished
<1>1. Inv => AcceptedWorkIsFinished
  BY DEF Inv, RequestsAreDrained, AcceptedWorkIsFinished, GrpcIsDrained,
         HttpIsDrained, HttpIsShut, Requests
<1> QED
  BY <1>1, Invariance, PTL

\* The flush has a deadline of its own, after the last record is written.
THEOREM LastRecordIsExported == Spec => []StoppedIsExported
<1>1. Inv => StoppedIsExported
  BY DEF Inv, RecordIsFlushed, StoppedIsExported, TelemetryIsFlushed, PoolIsClosed,
         GrpcIsDrained, HttpIsDrained, HttpIsShut
<1> QED
  BY <1>1, Invariance, PTL
=============================================================================
