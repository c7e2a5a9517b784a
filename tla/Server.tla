------------------------------- MODULE Server -------------------------------
(***************************************************************************)
(* The process: the goroutine that serves, the main goroutine that waits   *)
(* for a signal and shuts down, and the handlers of the requests, which    *)
(* share the connections of the pool.  What a handler does with a          *)
(* connection is the subject of TransactionProcessor; here it is one use   *)
(* of it, retries included, and the question is when it gets one and gives *)
(* it back.                                                                *)
(***************************************************************************)
EXTENDS Naturals, FiniteSets

CONSTANTS
  Posts,           \* requests that post something, each sent once
  Keyed,           \* those with an idempotency key
  Probes,          \* requests for /readyz
  MaxConnections   \* the connections of the pool

ASSUME ServerAssumption ==
  /\ Keyed \subseteq Posts /\ Posts \intersect Probes = {}
  /\ MaxConnections \in Nat \ {0}

Requests == Posts \union Probes

VARIABLES
  ready, shuttingDown,     \* the flags of Lifecycle
  starter,                 \* where App.Start is
  listener,                \* "none", "open", or "closed" by server.Shutdown
  main,                    \* where the main goroutine is
  shutdownErr,             \* whether Shutdown has an error to return
  poolClosed,              \* db.Close has begun
  exit,                    \* "no", "returned" from main, or "fatal"
  request,                 \* the handler of each request
  committed, recorded      \* the posts that are committed, that have a record

process == <<ready, shuttingDown, starter, listener, main, shutdownErr, poolClosed, exit>>
effects == <<committed, recorded>>
vars    == <<process, request, effects>>

\* Where a handler waits for a connection, and where it has one.
Waiting == {"check", "txn", "record", "ping"}
Using   == {"checking", "inTxn", "recording", "pinging"}

\* A handler.  connected: its client has a connection to the server, but the
\* handler has not begun.  refused: the closed pool gave it no connection.
\* after: it is a probe that began when StartShutdown was over.
Handler ==
  [pc : {"none", "connected", "ready", "down", "ok", "failed", "done"}
          \union Waiting \union Using,
   refused : BOOLEAN, after : BOOLEAN, outcome : {"none", "ok", "failed", "lost"}]

NoHandler == [pc |-> "none", refused |-> FALSE, after |-> FALSE, outcome |-> "none"]

TypeOK ==
  /\ {ready, shuttingDown, shutdownErr, poolClosed} \subseteq BOOLEAN
  /\ starter \in {"new", "ready", "serving", "returned"}
  /\ listener \in {"none", "open", "closed"}
  /\ main \in {"waiting", "signalled", "notReady", "down", "draining", "drained",
              "closing", "closed"}
  /\ exit \in {"no", "returned", "fatal"}
  /\ request \in [Requests -> Handler]
  /\ committed \subseteq Posts /\ recorded \subseteq committed

Init ==
  /\ ready = FALSE /\ shuttingDown = FALSE
  /\ starter = "new" /\ listener = "none" /\ main = "waiting"
  /\ shutdownErr = FALSE /\ poolClosed = FALSE /\ exit = "no"
  /\ request = [r \in Requests |-> NoHandler]
  /\ committed = {} /\ recorded = {}

Alive       == exit = "no"
At(r, pc)   == Alive /\ request[r].pc = pc
InFlight(r) == request[r].pc \notin {"none", "done"}

Go(r, pc) == request' = [request EXCEPT ![r].pc = pc]

-----------------------------------------------------------------------------
(* The pool.  A handler has one connection at a time: CheckAndReserve has  *)
(* given its back before the transaction begins, and the commit gives the  *)
(* transaction's back before RecordSuccess asks for one.                   *)

Connections_UntilRecorded(r) ==
  CASE request[r].pc = "record" -> 1
    [] request[r].pc = "recording" -> 2
    [] OTHER -> IF request[r].pc \in Using THEN 1 ELSE 0
Connections_NoRollback(r) ==
  IF request[r].pc \in Using \/ (r \in Posts /\ request[r].outcome = "failed") THEN 1 ELSE 0
Connections(r) == IF request[r].pc \in Using THEN 1 ELSE 0

Acquired == {c \in Requests \X {1, 2} : c[2] <= Connections(c[1])}

Acquire(r) ==
  /\ Alive /\ request[r].pc \in Waiting
  /\ ~poolClosed
  /\ Cardinality(Acquired) < MaxConnections
  /\ Go(r, CASE request[r].pc = "check"  -> "checking"
             [] request[r].pc = "txn"    -> "inTxn"
             [] request[r].pc = "record" -> "recording"
             [] request[r].pc = "ping"   -> "pinging")
  /\ UNCHANGED <<process, effects>>

\* RecordSuccess that fails is only logged: the post has happened.
Failed_CommitIgnored(pc) == IF pc \in {"inTxn", "record", "recording"} THEN "ok" ELSE "failed"
Failed(pc) == IF pc \in {"record", "recording"} THEN "ok" ELSE "failed"

\* The pool is closed.
Refused(r) ==
  /\ Alive /\ request[r].pc \in Waiting /\ poolClosed
  /\ request' = [request EXCEPT ![r].pc = Failed(@), ![r].refused = TRUE]
  /\ UNCHANGED <<process, effects>>

\* The context of the request ends while it waits: by the timeout of the
\* middleware or of checkDatabase, or because its client is gone.
TimeOut(r) ==
  /\ Alive /\ request[r].pc \in Waiting
  /\ Go(r, Failed(request[r].pc))
  /\ UNCHANGED <<process, effects>>

-----------------------------------------------------------------------------
(* The handlers. *)

\* server.Serve accepts a connection, as long as the listener is open.
Connect(r) ==
  /\ At(r, "none") /\ starter = "serving" /\ listener = "open"
  /\ Go(r, "connected")
  /\ UNCHANGED <<process, effects>>

\* The request is read and its handler called, also after the listener closed.
Accept(r) ==
  /\ At(r, "connected")
  /\ request' = [request EXCEPT
       ![r].pc = IF r \in Probes THEN "ready" ELSE IF r \in Keyed THEN "check" ELSE "txn",
       ![r].after = r \in Probes /\ shuttingDown]
  /\ UNCHANGED <<process, effects>>

\* A connection without a request ends: the client leaves or is too slow, or
\* server.Shutdown finds it idle.
HangUp(r) ==
  /\ At(r, "connected")
  /\ request' = [request EXCEPT ![r].pc = "done", ![r].outcome = "lost"]
  /\ UNCHANGED <<process, effects>>

\* CheckAndReserve finds nobody has used the key.
Checked(r) ==
  /\ At(r, "checking") /\ Go(r, "txn")
  /\ UNCHANGED <<process, effects>>

\* The transaction is committed and its connection given back.
Commit(r) ==
  /\ At(r, "inTxn")
  /\ committed' = committed \union {r}
  /\ Go(r, IF r \in Keyed THEN "record" ELSE "ok")
  /\ UNCHANGED <<process, recorded>>

Record(r) ==
  /\ At(r, "recording")
  /\ recorded' = recorded \union {r}
  /\ Go(r, "ok")
  /\ UNCHANGED <<process, committed>>

\* The database refuses, or the context ends meanwhile; a deferred Rollback
\* or Close gives the connection back.  A commit that fails may have happened.
Fail(r) ==
  /\ Alive /\ request[r].pc \in Using
  /\ Go(r, Failed(request[r].pc))
  /\ committed' \in {committed} \union
                    (IF request[r].pc = "inTxn" THEN {committed \union {r}} ELSE {})
  /\ UNCHANGED <<process, recorded>>

\* IsReady: the two flags, one after the other.
LoadReady(r) ==
  /\ At(r, "ready")
  /\ Go(r, IF ready THEN "down" ELSE "failed")
  /\ UNCHANGED <<process, effects>>

StillUp_Unasked == TRUE
StillUp == ~shuttingDown

LoadShuttingDown(r) ==
  /\ At(r, "down")
  /\ Go(r, IF StillUp THEN "ping" ELSE "failed")
  /\ UNCHANGED <<process, effects>>

\* checkDatabase; an exhausted pool is "degraded", which is ready.
Pinged(r) ==
  /\ At(r, "pinging") /\ Go(r, "ok")
  /\ UNCHANGED <<process, effects>>

\* The answer is written, or lost: WriteTimeout is shorter than the default
\* timeout of a request, and the client may be gone.
Answer(r) ==
  /\ Alive /\ request[r].pc \in {"ok", "failed"}
  /\ \E outcome \in {request[r].pc, "lost"} :
       request' = [request EXCEPT ![r].pc = "done", ![r].outcome = outcome]
  /\ UNCHANGED <<process, effects>>

Handle(r) ==
  \/ Accept(r) \/ HangUp(r)
  \/ Acquire(r) \/ Refused(r) \/ Checked(r) \/ Commit(r) \/ Record(r) \/ Fail(r)
  \/ LoadReady(r) \/ LoadShuttingDown(r) \/ Pinged(r) \/ Answer(r)

-----------------------------------------------------------------------------
(* The goroutine of App.Start. *)

SetReady ==
  /\ Alive /\ starter = "new"
  /\ ready' = TRUE /\ starter' = "ready"
  /\ UNCHANGED <<shuttingDown, listener, main, shutdownErr, poolClosed, exit, request, effects>>

\* ListenAndServe: after server.Shutdown it returns ErrServerClosed.
Listen ==
  /\ Alive /\ starter = "ready"
  /\ IF listener = "closed" THEN starter' = "returned" /\ UNCHANGED listener
                            ELSE starter' = "serving" /\ listener' = "open"
  /\ UNCHANGED <<ready, shuttingDown, main, shutdownErr, poolClosed, exit, request, effects>>

StopServing ==
  /\ Alive /\ starter = "serving" /\ listener = "closed"
  /\ starter' = "returned"
  /\ UNCHANGED <<ready, shuttingDown, listener, main, shutdownErr, poolClosed, exit,
                 request, effects>>

\* The port is taken, which a shutdown meanwhile does not hide, or accepting
\* fails: logger.Fatal ends the process.
Fatal ==
  /\ Alive
  /\ starter = "ready" \/ (starter = "serving" /\ listener = "open")
  /\ exit' = "fatal"
  /\ UNCHANGED <<ready, shuttingDown, starter, listener, main, shutdownErr, poolClosed,
                 request, effects>>

-----------------------------------------------------------------------------
(* The main goroutine. *)

MainAt(pc) == Alive /\ main = pc

Signal ==
  /\ MainAt("waiting") /\ main' = "signalled"
  /\ UNCHANGED <<ready, shuttingDown, starter, listener, shutdownErr, poolClosed, exit,
                 request, effects>>

\* StartShutdown.
StoreNotReady ==
  /\ MainAt("signalled") /\ main' = "notReady" /\ ready' = FALSE
  /\ UNCHANGED <<shuttingDown, starter, listener, shutdownErr, poolClosed, exit,
                 request, effects>>

StoreShuttingDown ==
  /\ MainAt("notReady") /\ main' = "down" /\ shuttingDown' = TRUE
  /\ UNCHANGED <<ready, starter, listener, shutdownErr, poolClosed, exit, request, effects>>

\* server.Shutdown closes the listener and waits for the connections it has
\* accepted, as long as its context lasts.
CloseListener ==
  /\ MainAt("down") /\ main' = "draining" /\ listener' = "closed"
  /\ UNCHANGED <<ready, shuttingDown, starter, shutdownErr, poolClosed, exit, request, effects>>

Idle_NoConnection == Acquired = {}
Idle == \A r \in Requests : ~InFlight(r)

Drained ==
  /\ MainAt("draining") /\ Idle /\ main' = "drained"
  /\ UNCHANGED <<ready, shuttingDown, starter, listener, shutdownErr, poolClosed, exit,
                 request, effects>>

\* An error does not keep Shutdown from closing the rest.
AfterTimeout_Returns == "closed"
AfterTimeout == "drained"

DrainTimeout ==
  /\ MainAt("draining") /\ main' = AfterTimeout /\ shutdownErr' = TRUE
  /\ UNCHANGED <<ready, shuttingDown, starter, listener, poolClosed, exit, request, effects>>

\* db.Close refuses further connections and waits for those that are out,
\* however long that takes.
ClosePool ==
  /\ MainAt("drained") /\ main' = "closing" /\ poolClosed' = TRUE
  /\ UNCHANGED <<ready, shuttingDown, starter, listener, shutdownErr, exit, request, effects>>

PoolIsClosed ==
  /\ MainAt("closing") /\ Acquired = {} /\ main' = "closed"
  /\ UNCHANGED <<ready, shuttingDown, starter, listener, shutdownErr, poolClosed, exit,
                 request, effects>>

\* The shutdown of tracing may fail too; main returns.
Return ==
  /\ MainAt("closed")
  /\ \E failed \in BOOLEAN : shutdownErr' = (shutdownErr \/ failed)
  /\ exit' = "returned"
  /\ UNCHANGED <<ready, shuttingDown, starter, listener, main, poolClosed, request, effects>>

Shutdown ==
  \/ StoreNotReady \/ StoreShuttingDown \/ CloseListener \/ Drained \/ DrainTimeout
  \/ ClosePool \/ PoolIsClosed \/ Return

Next ==
  \/ \E r \in Requests : Connect(r) \/ Handle(r) \/ TimeOut(r)
  \/ SetReady \/ Listen \/ StopServing \/ Fatal
  \/ Signal \/ Shutdown

Spec == Init /\ [][Next]_vars

\* Handlers go on whenever they can, the database answers in some way, and the
\* pool serves those that wait in their order; a connection brings its request
\* or ends (ReadHeaderTimeout, IdleTimeout).  No other timeout has to come, nor
\* does any request or signal.
FairSpec == Spec /\ WF_vars(Shutdown) /\ \A r \in Requests : WF_vars(Handle(r))

-----------------------------------------------------------------------------
(* Properties. *)

\* A probe that begins once StartShutdown is over never calls the server ready,
\* although App.Start may only now get to set the flag.
ReadinessHonest ==
  \A r \in Probes : request[r].after => request[r].outcome # "ok"

\* main never returns while a handler has a connection, so no transaction is
\* cut off by it, not even when handlers outlast the shutdown timeout.
ReturnsClean == exit = "returned" => Acquired = {}

\* When Shutdown returns no error, every request the server took was handled to
\* its end, none was refused a connection because the pool closed under it, and
\* nothing still comes in.
GracefulStop ==
  exit = "returned" /\ ~shutdownErr =>
    \A r \in Requests : ~InFlight(r) /\ ~request[r].refused

\* A pool at its limit only delays: with any number of connections, and without
\* any timeout, every handler comes to its end.
RequestsEnd == \A r \in Requests : InFlight(r) ~> ~InFlight(r) \/ ~Alive

\* A signal ends the process, whatever the handlers are doing.
SignalEnds == main = "signalled" ~> ~Alive

\* What the client sees of it.
Seen(r) ==
  CASE request[r].pc = "none" -> "new"
    [] request[r].pc = "done" -> request[r].outcome
    [] OTHER -> IF Alive THEN "open" ELSE "lost"

Cycle == INSTANCE RequestCycle
           WITH up <- Alive, state <- [r \in Posts |-> Seen(r)],
                committed <- committed, recorded <- recorded

\* The handlers, the pool and the shutdown keep what clients rely on.
ImplementsRequestCycle == Cycle!Spec
=============================================================================
