----------------------- MODULE CurrencyBalancesProofs -----------------------
(***************************************************************************)
(* What GetMultiCurrencyBalance keeps for any number of currencies.        *)
(***************************************************************************)
EXTENDS CurrencyBalances, FiniteSetTheorems, TLAPS

\* Only the currencies of the account have goroutines, and a result is in the
\* channel or in the answer exactly if it was sent and the call goes on.
Sent == {c \in Currency : worker[c] \in {"sent", "done"}}

Results ==
  /\ \A c \in Currency : worker[c] # "none" => c \in currencies
  /\ results \subseteq Sent /\ balances \subseteq Sent
  /\ caller # "error" => Sent \subseteq results \union balances

\* Errors: a query failed before it sent, and no failure becomes a balance.
Errors == \A c \in failed : worker[c] \in {"send", "sent", "done"} /\ c \notin balances

\* The order of the call: goroutines start in the loop, the channel is closed
\* after the last of them, and a call answers after that.
Order ==
  /\ caller = "list" => currencies = {}
  /\ caller \in {"list", "start"} => ~closed
  /\ caller \notin {"list", "start"} => \A c \in currencies : worker[c] # "none"
  /\ closed \/ caller = "answered" => \A c \in currencies : worker[c] = "done"

Inv == TypeOK /\ Results /\ Errors /\ Order /\ AnswerComplete

\* The initial state satisfies the invariant.
LEMMA InvInit == Init => Inv
  BY DEF Init, Inv, TypeOK, Results, Sent, Errors, Order, AnswerComplete

\* The steps of the caller keep the invariant.
LEMMA CallerStep ==
  ASSUME Inv, Caller
  PROVE  Inv'
<1> USE DEF Inv, TypeOK
<1>1. CASE GetAccountCurrencies
  <2>1. caller = "list" /\ currencies = {} /\ ~closed
    BY <1>1 DEF GetAccountCurrencies, Order
  <2>2. \A c \in Currency : worker[c] = "none"
    BY <2>1 DEF Results
  <2>3. results = {} /\ balances = {} /\ failed = {}
    BY <2>2 DEF Results, Sent, Errors
  <2>4. /\ caller' \in {"error", "answered", "start"} /\ currencies' \subseteq Currency
        /\ caller' # "start" => currencies' = {}
    BY <1>1, <2>1 DEF GetAccountCurrencies
  <2> QED
    BY <1>1, <2>1, <2>2, <2>3, <2>4
       DEF GetAccountCurrencies, Results, Sent, Errors, Order, AnswerComplete
<1>2. CASE ReturnBalances
  <2>1. /\ caller = "collect" /\ closed /\ results = {} /\ caller' = "answered"
        /\ UNCHANGED <<currencies, worker, failed, results, closed, balances>>
    BY <1>2 DEF ReturnBalances
  <2>2. \A c \in currencies : worker[c] = "done"
    BY <2>1 DEF Order
  <2>3. balances = currencies
    <3>1. currencies \subseteq balances
      BY <2>1, <2>2 DEF Results, Sent
    <3>2. balances \subseteq currencies
      BY DEF Results, Sent
    <3> QED BY <3>1, <3>2
  <2>4. failed = {}
    <3>1. ASSUME NEW c \in failed PROVE FALSE
      <4>1. c \in currencies
        BY DEF Errors, Results
      <4> QED BY <4>1, <2>3 DEF Errors
    <3> QED BY <3>1
  <2> QED
    BY <2>1, <2>2, <2>3, <2>4 DEF Results, Sent, Errors, Order, AnswerComplete
<1>3. ASSUME NEW c \in Currency, StartWorker(c) PROVE Inv'
  <2>1. /\ caller = "start" /\ c \in currencies /\ worker[c] = "none"
        /\ worker' = [worker EXCEPT ![c] = "started"]
        /\ caller' = IF \A d \in currencies \ {c} : worker[d] # "none" THEN "collect" ELSE "start"
        /\ UNCHANGED <<currencies, failed, results, closed, balances>>
    BY <1>3 DEF StartWorker, Set
  <2>2. Sent' = Sent
    BY <2>1 DEF Sent
  <2>3. ~closed
    BY <2>1 DEF Order
  <2>4. Results' /\ TypeOK'
    BY <2>1, <2>2 DEF Results
  <2>5. Errors'
    BY <2>1 DEF Errors
  <2>6. Order' /\ AnswerComplete'
    BY <2>1, <2>3 DEF Order, AnswerComplete
  <2> QED BY <2>4, <2>5, <2>6
<1>4. ASSUME NEW c \in Currency, Collect(c) PROVE Inv'
  <2>1. /\ caller = "collect" /\ c \in results /\ results' = results \ {c}
        /\ UNCHANGED <<currencies, worker, failed, closed>>
        /\ \/ c \in failed /\ caller' = "error" /\ balances' = balances
           \/ c \notin failed /\ caller' = "collect" /\ balances' = balances \union {c}
    BY <1>4 DEF Collect, Receive
  <2>2. Results' /\ TypeOK'
    BY <2>1 DEF Results, Sent
  <2>3. Errors'
    BY <2>1 DEF Errors
  <2>4. Order' /\ AnswerComplete'
    BY <2>1 DEF Order, AnswerComplete
  <2> QED BY <2>2, <2>3, <2>4
<1> QED BY <1>1, <1>2, <1>3, <1>4 DEF Caller

\* The steps of the goroutines keep the invariant.
LEMMA WorkerStep ==
  ASSUME Inv, NEW c \in Currency, Worker(c)
  PROVE  Inv'
<1> USE DEF Inv, TypeOK
<1>1. /\ worker[c] \in {"started", "query", "send", "sent"}
      /\ UNCHANGED <<caller, currencies, closed, balances>>
  BY DEF Worker, Run, Query, Send, Done
<1>2. c \in currencies
  BY <1>1 DEF Results
<1>3. ~closed /\ caller # "answered"
  BY <1>1, <1>2 DEF Order
<1>4. CASE Run(c)
  <2>1. worker[c] = "started" /\ worker' = [worker EXCEPT ![c] = "query"]
        /\ UNCHANGED <<failed, results>>
    BY <1>4 DEF Run, Set
  <2> QED BY <1>1, <1>2, <1>3, <2>1 DEF Results, Sent, Errors, Order, AnswerComplete
<1>5. CASE Query(c)
  <2>1. worker[c] = "query" /\ worker' = [worker EXCEPT ![c] = "send"]
        /\ failed' \in {failed, failed \union {c}} /\ results' = results
    BY <1>5 DEF Query, Set
  <2>2. c \notin balances
    BY <2>1 DEF Results, Sent
  <2>3. Errors'
    BY <1>1, <2>1, <2>2 DEF Errors
  <2>4. Results' /\ TypeOK'
    BY <1>1, <1>2, <2>1 DEF Results, Sent
  <2> QED BY <1>1, <1>2, <1>3, <2>1, <2>3, <2>4 DEF Order, AnswerComplete
<1>6. CASE Send(c)
  <2>1. worker[c] = "send" /\ worker' = [worker EXCEPT ![c] = "sent"]
        /\ results' = results \union {c} /\ failed' = failed
    BY <1>6 DEF Send, Set
  <2> QED BY <1>1, <1>2, <1>3, <2>1 DEF Results, Sent, Errors, Order, AnswerComplete
<1>7. CASE Done(c)
  <2>1. worker[c] = "sent" /\ worker' = [worker EXCEPT ![c] = "done"]
        /\ UNCHANGED <<failed, results>>
    BY <1>7 DEF Done, Set
  <2> QED BY <1>1, <1>2, <1>3, <2>1 DEF Results, Sent, Errors, Order, AnswerComplete
<1> QED BY <1>4, <1>5, <1>6, <1>7 DEF Worker

\* The goroutine that closes the channel keeps the invariant: when nobody is
\* waited for and all were started, all are done.
LEMMA CloseStep ==
  ASSUME Inv, Close
  PROVE  Inv'
<1> USE DEF Inv, TypeOK
<1>1. /\ currencies # {} /\ caller # "start" /\ WaitedFor = {} /\ closed' = TRUE
      /\ UNCHANGED <<caller, currencies, worker, failed, results, balances>>
  BY DEF Close
<1>2. caller # "list"
  BY <1>1 DEF Order
<1>3. \A c \in currencies : worker[c] = "done"
  BY <1>1, <1>2 DEF Order, WaitedFor
<1> QED BY <1>1, <1>2, <1>3 DEF Results, Sent, Errors, Order, AnswerComplete

\* Every step keeps the invariant.
LEMMA InvStep == Inv /\ [Next]_vars => Inv'
<1> SUFFICES ASSUME Inv, [Next]_vars PROVE Inv'
  OBVIOUS
<1>1. CASE UNCHANGED vars
  BY <1>1 DEF vars, Inv, TypeOK, Results, Sent, Errors, Order, AnswerComplete
<1> QED BY <1>1, CallerStep, WorkerStep, CloseStep DEF Next

\* The invariant holds in every reachable state.
LEMMA Invariant == Spec => []Inv
  BY InvInit, InvStep, PTL DEF Spec

\* A goroutine that is about to send finds the channel open, because it is
\* itself waited for, and with room, because the results in it are of other
\* currencies.
LEMMA FreeByInv == Inv => SendsAreFree
<1> SUFFICES ASSUME Inv, NEW c \in Currency, worker[c] = "send" PROVE ~closed /\ Room
  BY DEF SendsAreFree
<1> USE DEF Inv, TypeOK
<1>1. c \in currencies /\ c \notin results
  BY DEF Results, Sent
<1>2. ~closed
  BY <1>1 DEF Order
<1>3. results \subseteq currencies /\ results # currencies
  BY <1>1 DEF Results, Sent
<1>4. IsFiniteSet(currencies)
  BY CurrencyAssumption, FS_Subset
<1>5. /\ Cardinality(results) <= Cardinality(currencies)
      /\ Cardinality(results) # Cardinality(currencies)
  BY <1>3, <1>4, FS_Subset
<1>6. Cardinality(results) \in Nat /\ Cardinality(currencies) \in Nat
  BY <1>3, <1>4, FS_Subset, FS_CardinalityType
<1> QED BY <1>2, <1>5, <1>6 DEF Room, Capacity

\* No goroutine of GetMultiCurrencyBalance sends on a closed channel or blocks
\* on a full one, whenever the caller returned.
THEOREM CurrencySendsFree == Spec => []SendsAreFree
  BY FreeByInv, Invariant, PTL

\* An answer of GetMultiCurrencyBalance is complete, and no failure is hidden.
THEOREM CurrencyAnswerComplete == Spec => []AnswerComplete
<1>1. Inv => AnswerComplete
  BY DEF Inv
<1> QED BY <1>1, Invariant, PTL
=============================================================================
