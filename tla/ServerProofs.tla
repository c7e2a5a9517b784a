---------------------------- MODULE ServerProofs ----------------------------
(***************************************************************************)
(* Proofs about Server, for every number of requests and connections: the  *)
(* readiness probe, the two halves of the shutdown, and that the process   *)
(* implements RequestCycle.                                                *)
(***************************************************************************)
EXTENDS Server, TLAPS

ProbePcs  == {"none", "connected", "ready", "down", "ping", "pinging", "ok", "failed", "done"}
Before    == {"none", "connected", "check", "checking", "txn", "inTxn"}
Committed == {"record", "recording", "ok"}
PostPcs   == Before \union Committed \union {"failed", "done"}

Stages == {"down", "draining", "drained", "closing", "closed"}

\* The shutdown goes through its stages in their order, each with its effect.
StopOrder ==
  /\ shuttingDown <=> main \in Stages
  /\ listener = "closed" <=> main \in Stages \ {"down"}
  /\ poolClosed <=> main \in {"closing", "closed"}
  /\ main = "closed" => \A r \in Requests : request[r].pc \notin Using
  /\ exit = "returned" => main = "closed"
  /\ main \in {"drained", "closing", "closed"} /\ ~shutdownErr => Idle

PcOK(r) == request[r].pc \in IF r \in Probes THEN ProbePcs ELSE PostPcs

\* A probe that began after StartShutdown gets no further than the flags.
AfterOK(r) ==
  /\ request[r].pc # "done" => request[r].outcome = "none"
  /\ request[r].after =>
       /\ shuttingDown /\ request[r].outcome # "ok"
       /\ request[r].pc \in {"ready", "down", "failed", "done"}

\* Only a shutdown that gave up waiting closes the pool under a handler.
RefusedOK(r) == request[r].refused => shutdownErr

\* Where a post is tells whether it is committed.
CommitOK(r) ==
  r \in Posts =>
    /\ request[r].pc \in Before => r \notin committed
    /\ request[r].pc \in Committed => r \in committed

HandlerOK(r) == PcOK(r) /\ AfterOK(r) /\ RefusedOK(r) /\ CommitOK(r)

ServerInv == TypeOK /\ StopOrder /\ \A r \in Requests : HandlerOK(r)

\* What a step of the handler of r leaves alone.
OthersAlone(r) == \A q \in Requests \ {r} : request'[q] = request[q]

-----------------------------------------------------------------------------
\* The initial state of the process satisfies the invariant.
LEMMA InitServer == Init => ServerInv
<1> SUFFICES ASSUME Init PROVE ServerInv
  OBVIOUS
<1> USE DEF Init
<1>1. TypeOK
  BY DEF TypeOK, Handler, NoHandler
<1>2. StopOrder
  BY DEF StopOrder, Stages
<1>3. ASSUME NEW r \in Requests PROVE HandlerOK(r)
  BY <1>3 DEF HandlerOK, PcOK, AfterOK, RefusedOK, CommitOK, NoHandler, ProbePcs, PostPcs,
              Before, Committed
<1>4. QED
  BY <1>1, <1>2, <1>3 DEF ServerInv

\* A step of one handler keeps the invariant if it keeps what is said of that
\* handler, acquires nothing once the pool is closed, and takes nobody back
\* into flight.
LEMMA HandlerStep ==
  ASSUME ServerInv, NEW r \in Requests, NEW h \in Handler,
         request' = [request EXCEPT ![r] = h],
         UNCHANGED process,
         committed' \in {committed, committed \union {r}}, committed' \subseteq Posts,
         recorded' \in {recorded, recorded \union {r}}, recorded' \subseteq committed',
         HandlerOK(r)',
         h.pc \in Using => ~poolClosed,
         h.pc \notin {"none", "done"} => InFlight(r) \/ listener = "open"
  PROVE  ServerInv'
<1> USE DEF process
<1>1. TypeOK'
  BY DEF ServerInv, TypeOK
<1>2. /\ request'[r] = h
      /\ OthersAlone(r)
  BY DEF ServerInv, TypeOK, OthersAlone
<1>3. StopOrder'
  <2>1. main = "closed" => \A q \in Requests : request'[q].pc \notin Using
    BY <1>2 DEF ServerInv, StopOrder, OthersAlone
  <2>2. main \in {"drained", "closing", "closed"} /\ ~shutdownErr => Idle'
    BY <1>2 DEF ServerInv, StopOrder, Stages, Idle, InFlight, OthersAlone
  <2>3. QED
    BY <2>1, <2>2 DEF ServerInv, StopOrder
<1>4. ASSUME NEW q \in Requests PROVE HandlerOK(q)'
  <2>1. CASE q = r
    BY <2>1
  <2>2. CASE q # r
    <3>1. request'[q] = request[q]
      BY <1>2, <2>2 DEF OthersAlone
    <3>2. q \in committed' <=> q \in committed
      BY <2>2
    <3>3. QED
      BY <3>1, <3>2 DEF ServerInv, HandlerOK, PcOK, AfterOK, RefusedOK, CommitOK
  <2>3. QED
    BY <2>1, <2>2
<1>5. QED
  BY <1>1, <1>3, <1>4 DEF ServerInv

\* The requests of posts and of probes are different ones.
LEMMA Kinds ==
  /\ Requests = Posts \union Probes
  /\ \A r \in Requests : r \in Posts <=> r \notin Probes
BY ServerAssumption DEF Requests

\* The pool hands out a connection only while it is open.
LEMMA AcquireKeeps ==
  ASSUME ServerInv, NEW r \in Requests, Acquire(r)
  PROVE  ServerInv'
<1> DEFINE to == CASE request[r].pc = "check"  -> "checking"
                   [] request[r].pc = "txn"    -> "inTxn"
                   [] request[r].pc = "record" -> "recording"
                   [] request[r].pc = "ping"   -> "pinging"
           h  == [request[r] EXCEPT !.pc = to]
<1>1. /\ request[r] \in Handler /\ request[r].pc \in Waiting
      /\ HandlerOK(r) /\ ~poolClosed
      /\ request' = [request EXCEPT ![r] = h]
      /\ UNCHANGED <<process, effects>>
  BY DEF ServerInv, TypeOK, Acquire, Go
<1>2. /\ <<request[r].pc, to>> \in {<<"check", "checking">>, <<"txn", "inTxn">>,
                                    <<"record", "recording">>, <<"ping", "pinging">>}
      /\ h \in Handler
  BY <1>1 DEF Waiting, Using, Handler
<1>3. request'[r] = h
  BY <1>1 DEF ServerInv, TypeOK
<1>4. HandlerOK(r)'
  BY <1>1, <1>2, <1>3, Kinds
     DEF HandlerOK, PcOK, AfterOK, RefusedOK, CommitOK, ProbePcs, PostPcs, Before, Committed,
         process, effects
<1>5. InFlight(r)
  BY <1>1 DEF InFlight, Waiting
<1> HIDE DEF h
<1>6. QED
  BY <1>1, <1>2, <1>4, <1>5, HandlerStep DEF effects, ServerInv, TypeOK

\* A handler that gets no connection ends; the pool closes under it only after
\* a shutdown that gave up waiting.
LEMMA RefusedKeeps ==
  ASSUME ServerInv, NEW r \in Requests, Refused(r)
  PROVE  ServerInv'
<1> DEFINE h == [request[r] EXCEPT !.pc = Failed(@), !.refused = TRUE]
<1>1. /\ request[r] \in Handler /\ request[r].pc \in Waiting
      /\ HandlerOK(r) /\ poolClosed
      /\ request' = [request EXCEPT ![r] = h]
      /\ UNCHANGED <<process, effects>>
  BY DEF ServerInv, TypeOK, Refused
<1>2. /\ h \in Handler /\ h.pc \in {"ok", "failed"}
      /\ h.pc = "ok" => request[r].pc = "record"
      /\ h.after = request[r].after /\ h.outcome = request[r].outcome
  BY <1>1 DEF Waiting, Using, Handler, Failed
<1>3. request'[r] = h
  BY <1>1 DEF ServerInv, TypeOK
<1>4. shutdownErr
  BY <1>1 DEF ServerInv, StopOrder, Stages, Idle, InFlight, Waiting
<1>5. HandlerOK(r)'
  BY <1>1, <1>2, <1>3, <1>4, Kinds
     DEF HandlerOK, PcOK, AfterOK, RefusedOK, CommitOK, ProbePcs, PostPcs, Before, Committed,
         process, effects, Waiting
<1>6. InFlight(r)
  BY <1>1 DEF InFlight, Waiting
<1> HIDE DEF h
<1>7. QED
  BY <1>1, <1>2, <1>5, <1>6, HandlerStep DEF effects, ServerInv, TypeOK, Using

\* A handler goes on to pc by a step of its own, without a new connection.
LEMMA GoKeeps ==
  ASSUME ServerInv, NEW r \in Requests, NEW pc, Go(r, pc), UNCHANGED process,
         InFlight(r), pc \notin Using,
         pc \in IF r \in Probes THEN ProbePcs ELSE PostPcs,
         request[r].after => pc \in {"ready", "down", "failed"},
         committed' \in {committed, committed \union {r}}, committed' \subseteq Posts,
         recorded' \in {recorded, recorded \union {r}}, recorded' \subseteq committed',
         r \in Posts => /\ (pc \in Before => r \notin committed')
                       /\ (pc \in Committed => r \in committed')
  PROVE  ServerInv'
<1> DEFINE h == [request[r] EXCEPT !.pc = pc]
<1>1. /\ request[r] \in Handler /\ HandlerOK(r)
      /\ request' = [request EXCEPT ![r] = h]
  BY DEF ServerInv, TypeOK, Go
<1>2. pc \in ProbePcs \union PostPcs
  OBVIOUS
<1>3. /\ h \in Handler /\ h.pc = pc /\ h.refused = request[r].refused
      /\ h.after = request[r].after /\ h.outcome = request[r].outcome
  BY <1>1, <1>2 DEF Handler, Waiting, Using, ProbePcs, PostPcs, Before, Committed
<1>4. request'[r] = h
  BY <1>1 DEF ServerInv, TypeOK
<1> HIDE DEF h
<1>5. HandlerOK(r)'
  BY <1>1, <1>3, <1>4 DEF HandlerOK, PcOK, AfterOK, RefusedOK, CommitOK, InFlight, process
<1>6. QED
  BY <1>1, <1>3, <1>5, HandlerStep

\* Every step of a handler that neither asks the pool nor ends it.
LEMMA WorkKeeps ==
  ASSUME ServerInv, NEW r \in Requests,
         TimeOut(r) \/ Checked(r) \/ Commit(r) \/ Record(r) \/ Fail(r)
           \/ LoadReady(r) \/ LoadShuttingDown(r) \/ Pinged(r)
  PROVE  ServerInv'
<1>1. /\ request[r] \in Handler /\ PcOK(r) /\ AfterOK(r) /\ CommitOK(r)
      /\ committed \subseteq Posts /\ recorded \subseteq committed
  BY DEF ServerInv, TypeOK, HandlerOK
<1> USE DEF PcOK, AfterOK, CommitOK, ProbePcs, PostPcs, Before, Committed, InFlight, Using
<1>2. CASE TimeOut(r)
  BY <1>1, <1>2, Kinds, GoKeeps DEF TimeOut, Failed, Waiting, effects
<1>3. CASE Checked(r)
  BY <1>1, <1>3, Kinds, GoKeeps DEF Checked, At, effects
<1>4. CASE Commit(r)
  BY <1>1, <1>4, Kinds, GoKeeps DEF Commit, At
<1>5. CASE Record(r)
  BY <1>1, <1>5, Kinds, GoKeeps DEF Record, At
<1>6. CASE Fail(r)
  BY <1>1, <1>6, Kinds, GoKeeps DEF Fail, Failed
<1>7. CASE LoadReady(r)
  BY <1>1, <1>7, Kinds, GoKeeps DEF LoadReady, At, effects
<1>8. CASE LoadShuttingDown(r)
  BY <1>1, <1>8, Kinds, GoKeeps DEF LoadShuttingDown, StillUp, At, effects
<1>9. CASE Pinged(r)
  BY <1>1, <1>9, Kinds, GoKeeps DEF Pinged, At, effects
<1>10. QED
  BY <1>2, <1>3, <1>4, <1>5, <1>6, <1>7, <1>8, <1>9

\* A connection that comes in finds the listener open.
LEMMA ConnectKeeps ==
  ASSUME ServerInv, NEW r \in Requests, Connect(r)
  PROVE  ServerInv'
<1> DEFINE h == [request[r] EXCEPT !.pc = "connected"]
<1>1. /\ request[r] \in Handler /\ request[r].pc = "none" /\ HandlerOK(r)
      /\ listener = "open"
      /\ request' = [request EXCEPT ![r] = h]
      /\ UNCHANGED <<process, effects>>
  BY DEF ServerInv, TypeOK, Connect, At, Go
<1>2. /\ h \in Handler /\ h.pc = "connected" /\ h.refused = request[r].refused
      /\ h.after = request[r].after /\ h.outcome = request[r].outcome
  BY <1>1 DEF Handler
<1>3. request'[r] = h
  BY <1>1 DEF ServerInv, TypeOK
<1> HIDE DEF h
<1>4. HandlerOK(r)'
  BY <1>1, <1>2, <1>3 DEF HandlerOK, PcOK, AfterOK, RefusedOK, CommitOK, ProbePcs, PostPcs,
                          Before, Committed, process, effects
<1>5. QED
  BY <1>1, <1>2, <1>4, HandlerStep DEF effects, ServerInv, TypeOK, Using

\* A connection that ends without its request leaves nothing behind.
LEMMA HangUpKeeps ==
  ASSUME ServerInv, NEW r \in Requests, HangUp(r)
  PROVE  ServerInv'
<1> DEFINE h == [request[r] EXCEPT !.pc = "done", !.outcome = "lost"]
<1>1. /\ request[r] \in Handler /\ request[r].pc = "connected" /\ HandlerOK(r)
      /\ request' = [request EXCEPT ![r] = h]
      /\ UNCHANGED <<process, effects>>
  BY DEF ServerInv, TypeOK, HangUp, At
<1>2. /\ h \in Handler /\ h.pc = "done" /\ h.outcome = "lost"
      /\ h.after = request[r].after /\ h.refused = request[r].refused
  BY <1>1 DEF Handler
<1>3. request'[r] = h
  BY <1>1 DEF ServerInv, TypeOK
<1> HIDE DEF h
<1>4. HandlerOK(r)'
  BY <1>1, <1>2, <1>3 DEF HandlerOK, PcOK, AfterOK, RefusedOK, CommitOK, ProbePcs, PostPcs,
                          Before, Committed, process, effects
<1>5. QED
  BY <1>1, <1>2, <1>4, HandlerStep DEF effects, ServerInv, TypeOK, Using

\* A handler that begins was connected; a probe notes whether StartShutdown is
\* over.
LEMMA AcceptKeeps ==
  ASSUME ServerInv, NEW r \in Requests, Accept(r)
  PROVE  ServerInv'
<1> DEFINE to == IF r \in Probes THEN "ready" ELSE IF r \in Keyed THEN "check" ELSE "txn"
           h  == [request[r] EXCEPT !.pc = to, !.after = r \in Probes /\ shuttingDown]
<1>1. /\ request[r] \in Handler /\ request[r].pc = "connected" /\ HandlerOK(r)
      /\ request' = [request EXCEPT ![r] = h]
      /\ UNCHANGED <<process, effects>>
  BY DEF ServerInv, TypeOK, Accept, At
<1>2. h \in Handler
  BY <1>1 DEF Handler, Waiting, ServerInv, TypeOK
<1>3. request'[r] = h
  BY <1>1 DEF ServerInv, TypeOK
<1>4. HandlerOK(r)'
  <2>1. PcOK(r)' /\ RefusedOK(r)' /\ CommitOK(r)'
    BY <1>1, <1>3, Kinds DEF HandlerOK, PcOK, RefusedOK, CommitOK, ProbePcs, PostPcs,
                             Before, Committed, process, effects, Handler
  <2>2. AfterOK(r)'
    BY <1>1, <1>3 DEF HandlerOK, AfterOK, process, Handler
  <2>3. QED
    BY <2>1, <2>2 DEF HandlerOK
<1>5. h.pc \notin Using
  BY <1>1 DEF Using, Handler
<1>6. InFlight(r)
  BY <1>1 DEF InFlight
<1> HIDE DEF h
<1>7. QED
  BY <1>1, <1>2, <1>4, <1>5, <1>6, HandlerStep DEF effects, ServerInv, TypeOK

\* An answer ends the handler, with what it came to or with nothing.
LEMMA AnswerKeeps ==
  ASSUME ServerInv, NEW r \in Requests, Answer(r)
  PROVE  ServerInv'
<1>1. PICK outcome \in {request[r].pc, "lost"} :
        request' = [request EXCEPT ![r].pc = "done", ![r].outcome = outcome]
  BY DEF Answer
<1> DEFINE h == [request[r] EXCEPT !.pc = "done", !.outcome = outcome]
<1>2. /\ request[r] \in Handler /\ HandlerOK(r)
      /\ request[r].pc \in {"ok", "failed"}
      /\ request' = [request EXCEPT ![r] = h]
      /\ UNCHANGED <<process, effects>>
  BY <1>1 DEF ServerInv, TypeOK, Answer
<1>3. /\ h \in Handler /\ h.pc = "done" /\ h.outcome \in {request[r].pc, "lost"}
      /\ h.after = request[r].after /\ h.refused = request[r].refused
  BY <1>2 DEF Handler
<1>4. request'[r] = h
  BY <1>2 DEF ServerInv, TypeOK
<1> HIDE DEF h
<1>5. HandlerOK(r)'
  BY <1>2, <1>3, <1>4 DEF HandlerOK, PcOK, AfterOK, RefusedOK, CommitOK, ProbePcs, PostPcs,
                          Before, Committed, process, effects
<1>6. QED
  BY <1>2, <1>3, <1>5, HandlerStep DEF effects, ServerInv, TypeOK, Using, InFlight

\* No connection is out exactly if no handler is at work with one.
LEMMA NoneAcquired == Acquired = {} <=> \A r \in Requests : request[r].pc \notin Using
<1>1. ASSUME NEW r \in Requests, request[r].pc \in Using PROVE <<r, 1>> \in Acquired
  BY <1>1 DEF Acquired, Connections
<1>2. ASSUME NEW c \in Acquired PROVE request[c[1]].pc \in Using /\ c[1] \in Requests
  BY <1>2 DEF Acquired, Connections
<1>3. QED
  BY <1>1, <1>2

\* A step of the process leaves what is said of the handlers, as it clears
\* neither shuttingDown nor shutdownErr.
LEMMA ProcessStep ==
  ASSUME ServerInv, UNCHANGED <<request, effects>>, TypeOK', StopOrder',
         shuttingDown => shuttingDown', shutdownErr => shutdownErr'
  PROVE  ServerInv'
BY DEF ServerInv, HandlerOK, PcOK, AfterOK, RefusedOK, CommitOK, effects

\* The goroutine of App.Start.
LEMMA StarterKeeps ==
  ASSUME ServerInv, SetReady \/ Listen \/ StopServing \/ Fatal
  PROVE  ServerInv'
<1> USE DEF SetReady, Listen, StopServing, Fatal
<1>1. TypeOK'
  BY DEF ServerInv, TypeOK, effects
<1>2. StopOrder'
  BY DEF ServerInv, StopOrder, Stages, Idle, InFlight, Alive
<1>3. /\ UNCHANGED <<request, effects>>
      /\ UNCHANGED <<shuttingDown, shutdownErr>>
  OBVIOUS
<1>4. QED
  BY <1>1, <1>2, <1>3, ProcessStep

\* The main goroutine up to the end of StartShutdown, and the end of the
\* listener.
LEMMA StopBeginKeeps ==
  ASSUME ServerInv, Signal \/ StoreNotReady \/ StoreShuttingDown \/ CloseListener
  PROVE  ServerInv'
<1> USE DEF Signal, StoreNotReady, StoreShuttingDown, CloseListener, MainAt
<1>1. TypeOK'
  BY DEF ServerInv, TypeOK, effects
<1>2. StopOrder'
  BY DEF ServerInv, StopOrder, Stages, Idle, InFlight, Alive
<1>3. /\ UNCHANGED <<request, effects>>
      /\ (shuttingDown => shuttingDown') /\ UNCHANGED shutdownErr
  BY DEF ServerInv, TypeOK
<1>4. QED
  BY <1>1, <1>2, <1>3, ProcessStep

\* The rest of the shutdown: only with nobody at work is the pool closed.
LEMMA StopEndKeeps ==
  ASSUME ServerInv, Drained \/ DrainTimeout \/ ClosePool \/ PoolIsClosed \/ Return
  PROVE  ServerInv'
<1> USE DEF Drained, DrainTimeout, AfterTimeout, ClosePool, PoolIsClosed, Return, MainAt
<1>1. TypeOK'
  BY DEF ServerInv, TypeOK, effects
<1>2. StopOrder'
  BY NoneAcquired DEF ServerInv, TypeOK, StopOrder, Stages, Idle, InFlight, Alive
<1>3. /\ UNCHANGED <<request, effects>>
      /\ UNCHANGED shuttingDown /\ (shutdownErr => shutdownErr')
  BY DEF ServerInv, TypeOK
<1>4. QED
  BY <1>1, <1>2, <1>3, ProcessStep

\* Every step keeps the invariant.
LEMMA ServerNext == ServerInv /\ [Next]_vars => ServerInv'
<1> SUFFICES ASSUME ServerInv, [Next]_vars PROVE ServerInv'
  OBVIOUS
<1>1. CASE UNCHANGED vars
  <2>1. UNCHANGED <<ready, shuttingDown, starter, listener, main, shutdownErr, poolClosed,
                    exit, request, effects>>
    BY <1>1 DEF vars, process
  <2>2. TypeOK' /\ StopOrder'
    BY <2>1 DEF ServerInv, TypeOK, StopOrder, Idle, InFlight, effects
  <2>3. QED
    BY <2>1, <2>2, ProcessStep
<1>2. ASSUME NEW r \in Requests, Connect(r) \/ Handle(r) \/ TimeOut(r) PROVE ServerInv'
  BY <1>2, ConnectKeeps, AcceptKeeps, HangUpKeeps, AcquireKeeps, RefusedKeeps, WorkKeeps, AnswerKeeps DEF Handle
<1>3. CASE SetReady \/ Listen \/ StopServing \/ Fatal
  BY <1>3, StarterKeeps
<1>4. CASE Signal \/ Shutdown
  BY <1>4, StopBeginKeeps, StopEndKeeps DEF Shutdown
<1>5. QED
  BY <1>1, <1>2, <1>3, <1>4 DEF Next

\* The invariant holds of the process at all times.
THEOREM ServerInvariant == Spec => []ServerInv
<1>1. QED
  BY InitServer, ServerNext, PTL DEF Spec

\* Every variable keeps its type, and a key has a record only if its
\* transaction is committed.
THEOREM ServerTypes == Spec => []TypeOK
<1>1. ServerInv => TypeOK
  BY DEF ServerInv
<1>2. QED
  BY <1>1, ServerInvariant, PTL

\* A readiness probe that begins after StartShutdown is never answered "ready",
\* in whatever order App.Start and the shutdown set the flags.
THEOREM ServerReadinessHonest == Spec => []ReadinessHonest
<1>1. ServerInv => ReadinessHonest
  BY DEF ServerInv, HandlerOK, AfterOK, ReadinessHonest, Requests
<1>2. QED
  BY <1>1, ServerInvariant, PTL

\* main returns only when no handler has a connection, with any pool and any
\* number of handlers that outlast the shutdown timeout.
THEOREM ServerReturnsClean == Spec => []ReturnsClean
<1>1. ServerInv => ReturnsClean
  BY NoneAcquired DEF ServerInv, StopOrder, ReturnsClean
<1>2. QED
  BY <1>1, ServerInvariant, PTL

\* A shutdown without an error has let every request come to its end, and
\* refused none of them a connection.
THEOREM ServerGracefulStop == Spec => []GracefulStop
<1>1. ServerInv => GracefulStop
  BY DEF ServerInv, StopOrder, HandlerOK, RefusedOK, Idle, GracefulStop
<1>2. QED
  BY <1>1, ServerInvariant, PTL

-----------------------------------------------------------------------------
(* The process implements RequestCycle. *)

\* The process starts as the cycle does.
LEMMA CycleInit == Init => Cycle!Init
BY DEF Init, Cycle!Init, Seen, Alive, NoHandler, Requests

\* What the clients of the other requests see does not change while the
\* process lives.
LEMMA SeenOfOthers ==
  ASSUME ServerInv, NEW r \in Requests, OthersAlone(r), UNCHANGED exit
  PROVE  \A q \in Posts \ {r} : Seen(q)' = Seen(q)
BY DEF OthersAlone, Seen, Alive, Requests

\* A step of a handler that the client does not see, and that changes neither
\* set, is a stutter of the cycle.
LEMMA Unseen ==
  ASSUME ServerInv, NEW r \in Requests, OthersAlone(r), UNCHANGED <<exit, effects>>,
         r \in Posts => Seen(r)' = Seen(r)
  PROVE  UNCHANGED Cycle!cycleVars
BY SeenOfOthers DEF Cycle!cycleVars, Alive, effects

\* What a step of a handler that goes on does to the request.
LEMMA GoesOn ==
  ASSUME ServerInv, NEW r \in Requests, NEW h, request' = [request EXCEPT ![r] = h]
  PROVE  request'[r] = h /\ OthersAlone(r)
BY DEF ServerInv, TypeOK, OthersAlone

\* Steps between the acceptance of a request and its answer are stutters unless
\* they commit or record.
LEMMA WorkUnseen ==
  ASSUME ServerInv, NEW r \in Requests, UNCHANGED effects,
         Acquire(r) \/ Refused(r) \/ TimeOut(r) \/ Checked(r) \/ Fail(r)
           \/ LoadReady(r) \/ LoadShuttingDown(r) \/ Pinged(r)
  PROVE  UNCHANGED Cycle!cycleVars
<1>1. Alive /\ request[r] \in Handler /\ UNCHANGED exit
  BY DEF ServerInv, TypeOK, Acquire, Refused, TimeOut, Checked, Fail, LoadReady,
         LoadShuttingDown, Pinged, At, process
<1>2. \E h : /\ request' = [request EXCEPT ![r] = h]
             /\ h.pc \notin {"none", "done"} /\ request[r].pc \notin {"none", "done"}
  <2> DEFINE to(pc) == [request[r] EXCEPT !.pc = pc]
  <2>1. \A pc : to(pc).pc = pc /\ (Go(r, pc) => request' = [request EXCEPT ![r] = to(pc)])
    BY <1>1 DEF Go, Handler
  <2>2. CASE Refused(r)
    <3> DEFINE g == [request[r] EXCEPT !.pc = Failed(@), !.refused = TRUE]
    <3>1. request' = [request EXCEPT ![r] = g] /\ request[r].pc \in Waiting
      BY <2>2 DEF Refused
    <3>2. g.pc = Failed(request[r].pc)
      BY <1>1 DEF Handler
    <3>3. g.pc \notin {"none", "done"} /\ request[r].pc \notin {"none", "done"}
      BY <3>1, <3>2 DEF Failed, Waiting
    <3> HIDE DEF g
    <3>4. QED
      BY <3>1, <3>3
  <2>3. CASE ~Refused(r)
    <3>1. \E pc : Go(r, pc) /\ pc \notin {"none", "done"} /\ request[r].pc \notin {"none", "done"}
      BY <2>3 DEF Acquire, TimeOut, Checked, Fail, LoadReady, LoadShuttingDown, Pinged, At,
                  Failed, Waiting, Using
    <3>2. QED
      BY <3>1, <2>1
  <2>4. QED
    BY <2>2, <2>3
<1>3. PICK h : /\ request' = [request EXCEPT ![r] = h]
               /\ h.pc \notin {"none", "done"} /\ request[r].pc \notin {"none", "done"}
  BY <1>2
<1>4. OthersAlone(r) /\ Seen(r)' = Seen(r)
  BY <1>1, <1>3, GoesOn DEF Seen, Alive
<1>5. QED
  BY <1>1, <1>4, Unseen

\* Reading a request of a connection is not seen by its client.
LEMMA AcceptUnseen ==
  ASSUME ServerInv, NEW r \in Requests, Accept(r)
  PROVE  UNCHANGED Cycle!cycleVars
<1> DEFINE h == [request[r] EXCEPT
                   !.pc = IF r \in Probes THEN "ready" ELSE IF r \in Keyed THEN "check" ELSE "txn",
                   !.after = r \in Probes /\ shuttingDown]
<1>1. /\ request' = [request EXCEPT ![r] = h] /\ request[r] \in Handler
      /\ Alive /\ request[r].pc = "connected" /\ UNCHANGED <<exit, effects>>
  BY DEF Accept, At, process, ServerInv, TypeOK
<1>2. h.pc \in {"ready", "check", "txn"}
  BY <1>1 DEF Handler
<1> HIDE DEF h
<1>3. request'[r] = h /\ OthersAlone(r)
  BY <1>1, GoesOn
<1>4. Seen(r)' = Seen(r)
  BY <1>1, <1>2, <1>3 DEF Seen, Alive
<1>5. QED
  BY <1>1, <1>3, <1>4, Unseen

\* A request whose connection is accepted is opened.
LEMMA ConnectOpens ==
  ASSUME ServerInv, NEW r \in Requests, Connect(r)
  PROVE  Cycle!Next \/ UNCHANGED Cycle!cycleVars
<1> DEFINE h == [request[r] EXCEPT !.pc = "connected"]
<1>1. /\ request' = [request EXCEPT ![r] = h] /\ request[r] \in Handler
      /\ Alive /\ request[r].pc = "none" /\ UNCHANGED <<exit, effects>>
  BY DEF Connect, At, Go, process, ServerInv, TypeOK
<1>2. h.pc = "connected"
  BY <1>1 DEF Handler
<1> HIDE DEF h
<1>3. request'[r] = h /\ OthersAlone(r)
  BY <1>1, GoesOn
<1>4. CASE r \in Posts
  <2>1. Seen(r) = "new" /\ Seen(r)' = "open"
    BY <1>1, <1>2, <1>3 DEF Seen, Alive
  <2>2. [q \in Posts |-> Seen(q)]' = [[q \in Posts |-> Seen(q)] EXCEPT ![r] = "open"]
    BY <2>1, <1>1, <1>3, <1>4, SeenOfOthers
  <2>3. Cycle!Open(r)
    BY <2>1, <2>2, <1>1, <1>4 DEF Cycle!Open, Alive, effects
  <2>4. QED
    BY <2>3, <1>4 DEF Cycle!Next, Cycle!CycleStep
<1>5. CASE r \notin Posts
  BY <1>1, <1>3, <1>5, Unseen
<1>6. QED
  BY <1>4, <1>5

\* A transaction that commits, also under an error, commits an open request.
LEMMA CommitCommits ==
  ASSUME ServerInv, NEW r \in Requests, Commit(r) \/ Fail(r), ~UNCHANGED effects
  PROVE  Cycle!Next
<1>1. /\ request[r].pc = "inTxn" /\ r \in Posts /\ r \notin committed
      /\ committed' = committed \union {r} /\ UNCHANGED <<recorded, exit>>
      /\ Alive /\ request[r] \in Handler
  BY Kinds DEF ServerInv, TypeOK, HandlerOK, PcOK, CommitOK, ProbePcs, PostPcs, Before,
               Commit, Fail, At, effects, process
<1>2. \E pc \in {"record", "ok", "failed"} : Go(r, pc)
  BY <1>1 DEF Commit, Fail, Failed
<1>3. PICK pc \in {"record", "ok", "failed"} : Go(r, pc)
  BY <1>2
<1>4. request'[r].pc = pc /\ OthersAlone(r)
  BY <1>1, <1>3 DEF Go, Handler, OthersAlone, ServerInv, TypeOK
<1>5. Seen(r) = "open" /\ Seen(r)' = "open"
  BY <1>1, <1>4 DEF Seen, Alive
<1>6. [q \in Posts |-> Seen(q)]' = [q \in Posts |-> Seen(q)]
  BY <1>1, <1>4, <1>5, SeenOfOthers
<1>7. Cycle!Commit(r)
  BY <1>1, <1>5, <1>6 DEF Cycle!Commit, Alive
<1>8. QED
  BY <1>1, <1>7 DEF Cycle!Next, Cycle!CycleStep

\* A record that is written is one of an open, committed request.
LEMMA RecordRecords ==
  ASSUME ServerInv, NEW r \in Requests, Record(r)
  PROVE  Cycle!Next
<1>1. /\ request[r].pc = "recording" /\ r \in Posts /\ r \in committed
      /\ recorded' = recorded \union {r} /\ UNCHANGED <<committed, exit>>
      /\ Alive /\ request[r] \in Handler /\ Go(r, "ok")
  BY Kinds DEF ServerInv, TypeOK, HandlerOK, PcOK, CommitOK, ProbePcs, PostPcs, Committed,
               Record, At, process
<1>2. request'[r].pc = "ok" /\ OthersAlone(r)
  BY <1>1 DEF Go, Handler, OthersAlone, ServerInv, TypeOK
<1>3. Seen(r) = "open" /\ Seen(r)' = "open"
  BY <1>1, <1>2 DEF Seen, Alive
<1>4. [q \in Posts |-> Seen(q)]' = [q \in Posts |-> Seen(q)]
  BY <1>1, <1>2, <1>3, SeenOfOthers
<1>5. Cycle!Record(r)
  BY <1>1, <1>3, <1>4 DEF Cycle!Record, Alive
<1>6. QED
  BY <1>1, <1>5 DEF Cycle!Next, Cycle!CycleStep

\* A client whose connection ends without its request has no answer.
LEMMA HangUpAnswers ==
  ASSUME ServerInv, NEW r \in Requests, HangUp(r)
  PROVE  Cycle!Next \/ UNCHANGED Cycle!cycleVars
<1> DEFINE h == [request[r] EXCEPT !.pc = "done", !.outcome = "lost"]
<1>1. /\ request' = [request EXCEPT ![r] = h] /\ request[r] \in Handler
      /\ request[r].pc = "connected" /\ Alive /\ UNCHANGED <<exit, effects>>
  BY DEF ServerInv, TypeOK, HangUp, At, process
<1>2. h.pc = "done" /\ h.outcome = "lost"
  BY <1>1 DEF Handler
<1> HIDE DEF h
<1>3. request'[r] = h /\ OthersAlone(r)
  BY <1>1, GoesOn
<1>4. CASE r \in Posts
  <2>1. Seen(r) = "open" /\ Seen(r)' = "lost"
    BY <1>1, <1>2, <1>3 DEF Seen, Alive
  <2>2. [q \in Posts |-> Seen(q)]' = [[q \in Posts |-> Seen(q)] EXCEPT ![r] = "lost"]
    BY <2>1, <1>1, <1>3, <1>4, SeenOfOthers
  <2>3. Cycle!Answer(r, "lost")
    BY <2>1, <2>2, <1>1, <1>4 DEF Cycle!Answer, Alive, effects
  <2>4. "lost" \in Cycle!Outcomes
    BY DEF Cycle!Outcomes
  <2>5. QED
    BY <2>3, <2>4, <1>4 DEF Cycle!Next, Cycle!CycleStep
<1>5. CASE r \notin Posts
  BY <1>1, <1>3, <1>5, Unseen
<1>6. QED
  BY <1>4, <1>5

\* An answer of success is that of a committed post.
LEMMA AnswerAnswers ==
  ASSUME ServerInv, NEW r \in Requests, Answer(r)
  PROVE  Cycle!Next \/ UNCHANGED Cycle!cycleVars
<1>1. PICK outcome \in {request[r].pc, "lost"} :
        request' = [request EXCEPT ![r].pc = "done", ![r].outcome = outcome]
  BY DEF Answer
<1> DEFINE h == [request[r] EXCEPT !.pc = "done", !.outcome = outcome]
<1>2. /\ request' = [request EXCEPT ![r] = h] /\ request[r] \in Handler
      /\ request[r].pc \in {"ok", "failed"} /\ Alive /\ UNCHANGED <<exit, effects>>
      /\ request[r].pc = "ok" /\ r \in Posts => r \in committed
  BY <1>1 DEF ServerInv, TypeOK, HandlerOK, CommitOK, Committed, Answer, process
<1>3. h.pc = "done" /\ h.outcome = outcome
  BY <1>2 DEF Handler
<1> HIDE DEF h
<1>4. request'[r] = h /\ OthersAlone(r)
  BY <1>2, GoesOn
<1>5. CASE r \in Posts
  <2>1. Seen(r) = "open" /\ Seen(r)' = outcome
    BY <1>2, <1>3, <1>4 DEF Seen, Alive
  <2>2. [q \in Posts |-> Seen(q)]' = [[q \in Posts |-> Seen(q)] EXCEPT ![r] = outcome]
    BY <2>1, <1>2, <1>4, <1>5, SeenOfOthers
  <2>3. outcome \in Cycle!Outcomes /\ (outcome = "ok" => r \in committed)
    BY <1>2, <1>5 DEF Cycle!Outcomes
  <2>4. Cycle!Answer(r, outcome)
    BY <2>1, <2>2, <2>3, <1>2, <1>5 DEF Cycle!Answer, Alive, effects
  <2>5. QED
    BY <2>3, <2>4, <1>5 DEF Cycle!Next, Cycle!CycleStep
<1>6. CASE r \notin Posts
  BY <1>2, <1>4, <1>6, Unseen
<1>7. QED
  BY <1>5, <1>6

\* The end of the process, by its return or not, is the stop of the cycle.
LEMMA ExitStops ==
  ASSUME ServerInv, Return \/ Fatal
  PROVE  Cycle!Next
<1>1. Alive /\ ~Alive' /\ UNCHANGED <<request, effects>>
  BY DEF Return, Fatal, MainAt, Alive
<1>2. ASSUME NEW r \in Posts
      PROVE  Seen(r)' = IF Seen(r) = "open" THEN "lost" ELSE Seen(r)
  <2>1. request[r] \in Handler
    BY DEF ServerInv, TypeOK, Requests
  <2>2. QED
    BY <2>1, <1>1 DEF Seen, Handler
<1>3. Cycle!Stop
  BY <1>1, <1>2 DEF Cycle!Stop, effects
<1>4. QED
  BY <1>3 DEF Cycle!Next

\* Every step of the process is a step of the cycle or a stutter.
LEMMA ServerStep == ServerInv /\ [Next]_vars => [Cycle!Next]_(Cycle!cycleVars)
<1> SUFFICES ASSUME ServerInv, [Next]_vars
             PROVE  Cycle!Next \/ UNCHANGED Cycle!cycleVars
  OBVIOUS
<1>1. CASE UNCHANGED <<request, exit, effects>>
  BY <1>1 DEF Cycle!cycleVars, Seen, Alive, effects
<1>2. ASSUME NEW r \in Requests, Connect(r) \/ Handle(r) \/ TimeOut(r)
      PROVE  Cycle!Next \/ UNCHANGED Cycle!cycleVars
  <2>1. CASE Connect(r) \/ Accept(r) \/ HangUp(r) \/ Answer(r) \/ Record(r)
    BY <2>1, ConnectOpens, AcceptUnseen, HangUpAnswers, AnswerAnswers, RecordRecords
  <2>2. CASE Commit(r) \/ Fail(r)
    <3>1. CASE ~UNCHANGED effects
      BY <2>2, <3>1, CommitCommits
    <3>2. CASE Fail(r) /\ UNCHANGED effects
      BY <3>2, WorkUnseen
    <3>3. CASE Commit(r) /\ UNCHANGED effects
      <4>1. /\ request[r].pc = "inTxn" /\ r \in Requests /\ r \in committed
            /\ HandlerOK(r)
        BY <3>3 DEF Commit, At, effects, ServerInv
      <4>2. QED
        BY <4>1, Kinds DEF HandlerOK, PcOK, CommitOK, ProbePcs, Before
    <3>4. QED
      BY <2>2, <3>1, <3>2, <3>3
  <2>3. CASE \/ Acquire(r) \/ Refused(r) \/ TimeOut(r) \/ Checked(r)
             \/ LoadReady(r) \/ LoadShuttingDown(r) \/ Pinged(r)
    <3>1. UNCHANGED effects
      BY <2>3 DEF Acquire, Refused, TimeOut, Checked, LoadReady, LoadShuttingDown, Pinged
    <3>2. QED
      BY <2>3, <3>1, WorkUnseen
  <2>4. QED
    BY <1>2, <2>1, <2>2, <2>3 DEF Handle
<1>3. CASE Return \/ Fatal
  BY <1>3, ExitStops
<1>4. QED
  BY <1>1, <1>2, <1>3
     DEF Next, Shutdown, vars, process, SetReady, Listen, StopServing, Signal, StoreNotReady,
         StoreShuttingDown, CloseListener, Drained, DrainTimeout, ClosePool, PoolIsClosed

\* Whatever the pool, the timeouts and the shutdown do to the handlers, clients
\* see a RequestCycle: an answer of success is of a committed transaction, and
\* a key is recorded only after its commit.
THEOREM ServerImplementsRequestCycle == Spec => ImplementsRequestCycle
<1>1. QED
  BY CycleInit, ServerStep, ServerInvariant, PTL DEF Spec, ImplementsRequestCycle, Cycle!Spec
=============================================================================
