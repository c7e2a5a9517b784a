----------------------------- MODULE TrafficGen -----------------------------
(***************************************************************************)
(* The load generator beside the server: it creates its accounts one by    *)
(* one, then a producer hands tokens to workers through a channel, each    *)
(* worker sends a batch for a token and counts what comes of it, another   *)
(* goroutine reports the counts every second, and at the end of the time   *)
(* the producer closes the channel, waits for the workers and prints.      *)
(* The server is RequestCycle: it may answer, fail, be silent or stop.     *)
(***************************************************************************)
EXTENDS Accounts

CONSTANTS
  Batches,       \* bound: the batches of a run, one for each token
  Worker,        \* the workers
  Seeds          \* the accounts the generator creates, in order

ASSUME TrafficAssumption ==
  /\ Worker # {} /\ IsFiniteSet(Worker) /\ IsFiniteSet(Batches)
  /\ Seeds \in Seq(Acct) /\ IsInjective(Seeds) /\ Len(Seeds) >= 2

VARIABLES
  up, state, committed,   \* the server
  paced,       \* a rate is given, so a ticker paces the producer
  producer,    \* where main is
  over,        \* the time of the run is over
  produced,    \* the tokens put into the channel
  taken,       \* those taken out
  worker,      \* the workers
  success, failed,   \* the counters
  live,        \* the goroutine of printLiveStats
  summary      \* what printSummary says

serverVars == <<up, state, committed>>
mainVars   == <<paced, producer, over, produced, summary>>
workVars   == <<taken, worker, success, failed>>
loadVars   == <<serverVars, mainVars, workVars, live>>

\* No key is sent twice, so what the server records of them is left out.
Cycle == INSTANCE RequestCycle WITH Posts <- Batches, recorded <- {}

NoSummary == [printed |-> FALSE, success |-> 0, failed |-> 0]

LoadInit ==
  /\ Cycle!Init
  /\ paced = FALSE /\ producer = "seed" /\ over = FALSE
  /\ produced = 0 /\ taken = 0
  /\ worker = [w \in Worker |-> [pc |-> "none", ok |-> FALSE, batch |-> "none"]]
  /\ success = 0 /\ failed = 0
  /\ live = [pc |-> "none", loaded |-> 0, prevSuccess |-> 0, prevFailed |-> 0,
             success |-> 0, failed |-> 0]
  /\ summary = NoSummary

-----------------------------------------------------------------------------
(* main. *)

Seeded == {i \in DOMAIN Seeds : creation[Seeds[i]].pc = "created"}

\* seedAccounts asks for one account after the other.
SeedNext ==
  /\ up /\ producer = "seed" /\ Cardinality(Seeded) < Len(Seeds)
  /\ BeginCreate(Seeds[Cardinality(Seeded) + 1])
  /\ UNCHANGED loadVars

\* The first account that fails, or does not come in time, ends the program.
SeedFails ==
  /\ producer = "seed"
  /\ \/ ~up
     \/ \E i \in DOMAIN Seeds : creation[Seeds[i]].pc \in {"begun", "inserting", "failed", "unsure"}
  /\ producer' = "exit"
  /\ UNCHANGED <<serverVars, paced, over, produced, summary, workVars, live, acctVars>>

\* The workers, the timer of the run and printLiveStats are started.
StartLoad ==
  /\ producer = "seed" /\ Cardinality(Seeded) = Len(Seeds)
  /\ producer' = "select" /\ paced' \in BOOLEAN
  /\ worker' = [w \in Worker |-> [worker[w] EXCEPT !.pc = "idle"]]
  /\ live' = [live EXCEPT !.pc = "idle"]
  /\ UNCHANGED <<serverVars, over, produced, summary, taken, success, failed, acctVars>>

TimeIsUp ==
  /\ producer \notin {"seed", "exit"} /\ ~over
  /\ over' = TRUE
  /\ UNCHANGED <<serverVars, paced, producer, produced, summary, workVars, live, acctVars>>

Room == produced - taken < 2 * Cardinality(Worker)

\* The paced producer chooses the tick, and then sends it whether or not the
\* time is over meanwhile; the other one sends in the select itself.
Tick ==
  /\ producer = "select" /\ paced /\ produced < Cardinality(Batches)
  /\ producer' = "send"
  /\ UNCHANGED <<serverVars, paced, over, produced, summary, workVars, live, acctVars>>

SendToken ==
  /\ producer = IF paced THEN "send" ELSE "select"
  /\ Room /\ produced < Cardinality(Batches)
  /\ produced' = produced + 1 /\ producer' = "select"
  /\ UNCHANGED <<serverVars, paced, over, summary, workVars, live, acctVars>>

CloseChannel ==
  /\ producer = "select" /\ over
  /\ producer' = "wait"
  /\ UNCHANGED <<serverVars, paced, over, produced, summary, workVars, live, acctVars>>

\* workers.Wait, then printSummary loads the counters.
WorkersDone_ChannelEmpty == taken = produced
WorkersDone == \A w \in Worker : worker[w].pc = "done"

PrintSummary ==
  /\ producer = "wait" /\ WorkersDone
  /\ producer' = "exit"
  /\ summary' = [printed |-> TRUE, success |-> success, failed |-> failed]
  /\ UNCHANGED <<serverVars, paced, over, produced, workVars, live, acctVars>>

Running == producer # "exit"

-----------------------------------------------------------------------------
(* The workers. *)

Work(w, pc, ok, batch) == worker' = [worker EXCEPT ![w] = [pc |-> pc, ok |-> ok, batch |-> batch]]

Take(w) ==
  /\ Running /\ worker[w].pc = "idle" /\ taken < produced
  /\ taken' = taken + 1
  /\ Work(w, "token", FALSE, "none")
  /\ UNCHANGED <<serverVars, mainVars, success, failed, live, acctVars>>

\* The channel is closed and empty.
LeaveLoop(w) ==
  /\ Running /\ worker[w].pc = "idle" /\ taken = produced /\ producer = "wait"
  /\ Work(w, "done", FALSE, "none")
  /\ UNCHANGED <<serverVars, mainVars, taken, success, failed, live, acctVars>>

\* Every batch is new and under keys of its own; which one is next is all one.
NewBatch == CHOOSE b \in Batches : state[b] = "new"

SendBatch(w) ==
  /\ Running /\ worker[w].pc = "token" /\ NewBatch \in Batches
  /\ Cycle!Open(NewBatch) /\ Work(w, "sent", FALSE, NewBatch)
  /\ UNCHANGED <<mainVars, taken, success, failed, live, acctVars>>

\* Nobody listens.
Unreachable(w) ==
  /\ Running /\ worker[w].pc = "token" /\ ~up
  /\ Work(w, "result", FALSE, "none")
  /\ UNCHANGED <<serverVars, mainVars, taken, success, failed, live, acctVars>>

\* A status other than 2xx and a lost answer are errors alike.
Succeeded_AnyAnswer(outcome) == outcome \in {"ok", "failed"}
Succeeded(outcome) == outcome = "ok"

Answered(w) ==
  /\ Running /\ worker[w].pc = "sent" /\ state[worker[w].batch] \in Cycle!Outcomes
  /\ Work(w, "result", Succeeded(state[worker[w].batch]), "none")
  /\ UNCHANGED <<serverVars, mainVars, taken, success, failed, live, acctVars>>

\* The timeout of the client.
ClientTimeout_None == FALSE
ClientTimeout == TRUE

GiveUp(w) ==
  /\ Running /\ worker[w].pc = "sent" /\ state[worker[w].batch] = "open"
  /\ ClientTimeout
  /\ Work(w, "result", FALSE, "none")
  /\ UNCHANGED <<serverVars, mainVars, taken, success, failed, live, acctVars>>

\* record counts it, and the worker is back at the channel.
AfterRecord_StopOnError(w) == IF worker[w].ok THEN "idle" ELSE "done"
AfterRecord(w) == "idle"

Record(w) ==
  /\ Running /\ worker[w].pc = "result"
  /\ IF worker[w].ok THEN success' = success + 1 /\ UNCHANGED failed
                     ELSE failed' = failed + 1 /\ UNCHANGED success
  /\ Work(w, AfterRecord(w), FALSE, "none")
  /\ UNCHANGED <<serverVars, mainVars, taken, live, acctVars>>

WorkerStep(w) ==
  \/ Take(w) \/ LeaveLoop(w) \/ SendBatch(w) \/ Unreachable(w)
  \/ Answered(w) \/ GiveUp(w) \/ Record(w)

-----------------------------------------------------------------------------
(* printLiveStats: two loads, then a row with what is new since the last one. *)

LoadSuccess ==
  /\ Running /\ live.pc = "idle"
  /\ live' = [live EXCEPT !.pc = "loaded", !.loaded = success]
  /\ UNCHANGED <<serverVars, mainVars, workVars, acctVars>>

AddRow ==
  /\ Running /\ live.pc = "loaded"
  /\ live' = [live EXCEPT !.pc = "idle", !.loaded = 0,
                          !.success = @ + (live.loaded - live.prevSuccess),
                          !.failed = @ + (failed - live.prevFailed),
                          !.prevSuccess = live.loaded, !.prevFailed = failed]
  /\ UNCHANGED <<serverVars, mainVars, workVars, acctVars>>

EndLive ==
  /\ Running /\ live.pc = "idle" /\ over
  /\ live' = [live EXCEPT !.pc = "done"]
  /\ UNCHANGED <<serverVars, mainVars, workVars, acctVars>>

-----------------------------------------------------------------------------
(* The server, without any promise to go on.  What it does with a batch that *)
(* no worker waits for any more is left out: it can only commit it.  An      *)
(* answer that is lost on its way is one that does not come.                 *)

Awaited == {worker[w].batch : w \in Worker} \intersect Batches

ServerStep ==
  /\ \/ Cycle!Stop
     \/ \E b \in Awaited : \/ Cycle!Commit(b)
                           \/ \E outcome \in {"ok", "failed"} : Cycle!Answer(b, outcome)
  /\ UNCHANGED <<mainVars, workVars, live, acctVars>>

Main == SeedFails \/ StartLoad \/ Tick \/ SendToken \/ PrintSummary

LoadStep ==
  \/ SeedNext \/ TimeIsUp \/ CloseChannel \/ Main
  \/ \E w \in Worker : WorkerStep(w)
  \/ LoadSuccess \/ AddRow \/ EndLive
  \/ ServerStep

\* Others create accounts, change them and read them.
AccountsStep ==
  /\ up
  /\ \/ \E a \in Acct \ Range(Seeds) : BeginCreate(a)
     \/ \E a \in Acct : Creation(a) \/ UpdateAccountMetadata(a)
     \/ AcctTick \/ Walking
  /\ UNCHANGED loadVars

allVars == <<loadVars, acctVars>>

LoadNext == LoadStep \/ AccountsStep

LoadSpec == AcctInit /\ LoadInit /\ [][LoadNext]_allVars

\* The scheduler runs every goroutine, timers fire, and a select that finds
\* both of its cases ready for ever takes each of them.
LoadFairness ==
  /\ WF_loadVars(SendToken) /\ WF_loadVars(PrintSummary)
  /\ WF_loadVars(TimeIsUp) /\ SF_loadVars(CloseChannel)
  /\ \A w \in Worker : WF_loadVars(WorkerStep(w))

-----------------------------------------------------------------------------
(* Properties. *)

\* The summary tells of every batch that was handed out, once, and calls no
\* more of them a success than the server has committed.
SummaryTrue ==
  summary.printed =>
    /\ summary.success + summary.failed = produced
    /\ summary.success <= Cardinality(committed)
    /\ live.success <= summary.success /\ live.failed <= summary.failed

\* The generator ends when its time is over, also with a server that never
\* answers again.
GeneratorEnds == over ~> producer = "exit"
=============================================================================
