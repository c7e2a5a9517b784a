---------------------------- MODULE RequestCycle ----------------------------
(***************************************************************************)
(* What a client may rely on of the server while it posts: a request that  *)
(* is answered with success is committed, a key is recorded only for what  *)
(* is committed, and after the process has stopped nothing happens to a    *)
(* request any more.  Everything else is open: a request that failed, whose *)
(* answer was lost or that the stop cut off may be committed or not.       *)
(***************************************************************************)
CONSTANT Posts   \* the requests that post something

VARIABLES
  up,          \* the process lives
  state,       \* what the client knows of each request
  committed,   \* the requests whose transaction the database has
  recorded     \* the requests whose idempotency key has a record

cycleVars == <<up, state, committed, recorded>>

Outcomes == {"ok", "failed", "lost"}

Init ==
  /\ up = TRUE
  /\ state = [r \in Posts |-> "new"]
  /\ committed = {} /\ recorded = {}

Open(r) ==
  /\ up /\ state[r] = "new"
  /\ state' = [state EXCEPT ![r] = "open"]
  /\ UNCHANGED <<up, committed, recorded>>

Commit(r) ==
  /\ up /\ state[r] = "open" /\ r \notin committed
  /\ committed' = committed \union {r}
  /\ UNCHANGED <<up, state, recorded>>

Record(r) ==
  /\ up /\ state[r] = "open" /\ r \in committed
  /\ recorded' = recorded \union {r}
  /\ UNCHANGED <<up, state, committed>>

Answer(r, outcome) ==
  /\ up /\ state[r] = "open"
  /\ outcome = "ok" => r \in committed
  /\ state' = [state EXCEPT ![r] = outcome]
  /\ UNCHANGED <<up, committed, recorded>>

\* The process ends; what was open gets no answer.
Stop ==
  /\ up
  /\ up' = FALSE
  /\ state' = [r \in Posts |-> IF state[r] = "open" THEN "lost" ELSE state[r]]
  /\ UNCHANGED <<committed, recorded>>

CycleStep(r) ==
  \/ Open(r) \/ Commit(r) \/ Record(r)
  \/ \E outcome \in Outcomes : Answer(r, outcome)

Next == Stop \/ \E r \in Posts : CycleStep(r)

Spec == Init /\ [][Next]_cycleVars
=============================================================================
