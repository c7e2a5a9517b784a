-------------------------- MODULE CurrencyBalances --------------------------
(***************************************************************************)
(* GetMultiCurrencyBalance: one goroutine per currency of the account,     *)
(* each running the query of BalanceReads, a channel with room for every   *)
(* result, a goroutine that closes it when all have sent, and the caller,  *)
(* which collects and returns at the first error while others still run.   *)
(***************************************************************************)
EXTENDS Naturals, FiniteSets

CONSTANT Currency   \* the rows of account_currencies an account may have

ASSUME CurrencyAssumption == IsFiniteSet(Currency)

VARIABLES
  caller,     \* what the caller is about to do
  currencies, \* what getAccountCurrencies returned
  worker,     \* the goroutine of each currency
  failed,     \* the currencies whose query failed
  results,    \* the channel: the currencies whose result is in it
  closed,     \* whether the channel is closed
  balances    \* the currencies the caller has a balance of

vars == <<caller, currencies, worker, failed, results, closed, balances>>

Init ==
  /\ caller = "list"
  /\ currencies = {}
  /\ worker = [c \in Currency |-> "none"]
  /\ failed = {}
  /\ results = {}
  /\ closed = FALSE
  /\ balances = {}

\* make(chan result, len(currencies)).
Capacity_One == 1
Capacity == Cardinality(currencies)

\* The WaitGroup: wg.Add before the goroutine starts, wg.Done when it ends.
WaitedFor_OnceRunning == {c \in currencies : worker[c] \in {"query", "send", "sent"}}
WaitedFor_NeverDone == {c \in currencies : worker[c] # "none"}
WaitedFor == {c \in currencies : worker[c] \in {"started", "query", "send", "sent"}}

Set(c, state) == worker' = [worker EXCEPT ![c] = state]

-----------------------------------------------------------------------------
(* The caller. *)

\* getAccountCurrencies, which may fail; an account without currencies has an
\* empty answer.
GetAccountCurrencies ==
  /\ caller = "list"
  /\ \/ caller' = "error" /\ UNCHANGED currencies
     \/ \E S \in SUBSET Currency :
          /\ currencies' = S
          /\ caller' = IF S = {} THEN "answered" ELSE "start"
  /\ UNCHANGED <<worker, failed, results, closed, balances>>

\* The loop that starts the goroutines, one at a time.
StartWorker(c) ==
  /\ caller = "start"
  /\ c \in currencies /\ worker[c] = "none"
  /\ Set(c, "started")
  /\ caller' = IF \A d \in currencies \ {c} : worker[d] # "none" THEN "collect" ELSE "start"
  /\ UNCHANGED <<currencies, failed, results, closed, balances>>

\* The range over the channel.  The order of the results is immaterial: they
\* go into a map, and any error ends the call.
Receive_ErrorSkipped(c) == caller' = "collect" /\ balances' = balances \union ({c} \ failed)
Receive(c) == IF c \in failed THEN caller' = "error" /\ UNCHANGED balances
                              ELSE caller' = "collect" /\ balances' = balances \union {c}

Collect(c) ==
  /\ caller = "collect"
  /\ c \in results
  /\ results' = results \ {c}
  /\ Receive(c)
  /\ UNCHANGED <<currencies, worker, failed, closed>>

ReturnBalances ==
  /\ caller = "collect"
  /\ closed /\ results = {}
  /\ caller' = "answered"
  /\ UNCHANGED <<currencies, worker, failed, results, closed, balances>>

Caller == \/ GetAccountCurrencies \/ ReturnBalances
          \/ \E c \in Currency : StartWorker(c) \/ Collect(c)

-----------------------------------------------------------------------------
(* The goroutines. *)

Run(c) ==
  /\ worker[c] = "started"
  /\ Set(c, "query")
  /\ UNCHANGED <<caller, currencies, failed, results, closed, balances>>

\* GetCurrentBalance: a balance, or an error of the pool, of the database or
\* of the context of the request.
Query(c) ==
  /\ worker[c] = "query"
  /\ Set(c, "send")
  /\ failed' \in {failed, failed \union {c}}
  /\ UNCHANGED <<caller, currencies, results, closed, balances>>

\* The channel takes a result while it has room; sending on a closed channel
\* would panic.
Room == Cardinality(results) < Capacity

Send(c) ==
  /\ worker[c] = "send"
  /\ ~closed /\ Room
  /\ results' = results \union {c}
  /\ Set(c, "sent")
  /\ UNCHANGED <<caller, currencies, failed, closed, balances>>

Done(c) ==
  /\ worker[c] = "sent"
  /\ Set(c, "done")
  /\ UNCHANGED <<caller, currencies, failed, results, closed, balances>>

Worker(c) == Run(c) \/ Query(c) \/ Send(c) \/ Done(c)

\* wg.Wait, then close.  This goroutine starts after the loop.
Close ==
  /\ currencies # {} /\ caller # "start" /\ ~closed
  /\ WaitedFor = {}
  /\ closed' = TRUE
  /\ UNCHANGED <<caller, currencies, worker, failed, results, balances>>

Next == Caller \/ Close \/ \E c \in Currency : Worker(c)

Spec == Init /\ [][Next]_vars

\* Goroutines are scheduled, and a query ends or fails.
Fairness == WF_vars(Caller) /\ WF_vars(Close) /\ \A c \in Currency : WF_vars(Worker(c))

FairSpec == Spec /\ Fairness

-----------------------------------------------------------------------------
(* Properties. *)

TypeOK ==
  /\ caller \in {"list", "start", "collect", "answered", "error"}
  /\ currencies \subseteq Currency
  /\ worker \in [Currency -> {"none", "started", "query", "send", "sent", "done"}]
  /\ failed \subseteq Currency
  /\ results \subseteq Currency
  /\ closed \in BOOLEAN
  /\ balances \subseteq Currency

\* No goroutine ever sends on the closed channel, which would end the process,
\* nor blocks on a full one, although the caller may long have returned.
SendsAreFree == \A c \in Currency : worker[c] = "send" => ~closed /\ Room

\* An answer has the balance of every currency of the account; whatever failed
\* makes the whole call an error.
AnswerComplete == caller = "answered" => balances = currencies /\ failed = {}

\* No goroutine is left behind, also when the call returned early, and every
\* call returns.
CallEnds   == <>(caller \in {"answered", "error"})
WorkersEnd == \A c \in Currency : worker[c] = "started" ~> worker[c] = "done"
=============================================================================
