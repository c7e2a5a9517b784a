------------------------------- MODULE Books -------------------------------
(***************************************************************************)
(* The entries: what TransactionValidator and validateAccountsForPost let  *)
(* into the ledger, what a reversal enters against it, and the balances    *)
(* the entries add up to.  Every operation is the atomic step Ledger makes *)
(* of it; a request that is refused is no step.  Metadata, which can only  *)
(* refuse a request, is left out.                                          *)
(***************************************************************************)
EXTENDS LedgerRows, Integers, Sequences, Functions

CONSTANTS
  Guarded,     \* the <<account, currency>> pairs that may not go negative
  Open,        \* the pairs with allow_negative
  Supported,   \* the currencies of NewTransactionValidator
  NoAccount,   \* the account identifier ""
  MaxPlaces,   \* maxDecimalPlaces, and the scale of entries.amount
  Unit,        \* how many of the units amounts are written in here make the
               \* last of those places
  Requests     \* the entries and the state of the transactions a run offers

VARIABLE entries   \* the entries of each transaction, in order

vars == <<ledger, entries>>

Pairs == Guarded \union Open

Accounts == {pair[1] : pair \in Pairs}

Debit  == "debit"
Credit == "credit"

\* An amount is a number of units and the decimal places it is written with.
Entry == [account : STRING, currency : STRING, type : {Debit, Credit, "other"},
          units : Int, places : Nat]

AmountOK(e) == e.places <= MaxPlaces => e.units % Unit = 0

ASSUME BooksAssumption ==
  /\ IsFiniteSet(Pairs) /\ Guarded \intersect Open = {}
  /\ \A pair \in Pairs : pair[2] \in Supported
  /\ NoAccount \notin Accounts /\ MaxPlaces \in Nat /\ Unit \in Nat \ {0}
  /\ \A r \in Requests : /\ r.state \in Posted /\ r.entries \in Seq(Entry)
                         /\ \A i \in DOMAIN r.entries : AmountOK(r.entries[i])

-----------------------------------------------------------------------------
(* Sums. *)

\* Credits less debits, as every balance is computed.
Signed(e) == IF e.type = Credit THEN e.units ELSE -e.units

PairOf(e) == <<e.account, e.currency>>

Net(es, S) == SumFunctionOnSet([i \in DOMAIN es |-> Signed(es[i])], S)

Impact(es, pair) == Net(es, {i \in DOMAIN es : PairOf(es[i]) = pair})

Sum(S, pair) == SumFunction([t \in S |-> Impact(entries[t], pair)])

InState(s) == {t \in Txn : ledger[t].state = s}

Settled(pair)   == Sum(InState("settled"), pair)
Pending(pair)   == Sum(InState("pending"), pair)
Available(pair) == Settled(pair) + Pending(pair)

-----------------------------------------------------------------------------
(* What is let in. *)

ValidPrecision_Always(e) == TRUE
ValidPrecision(e) == e.places <= MaxPlaces

ValidEntry(e) ==
  /\ e.account # NoAccount
  /\ e.currency \in Supported
  /\ e.type \in {Debit, Credit}
  /\ e.units >= 0
  /\ ValidPrecision(e)

\* One total of debits and one of credits, over every currency.
DoubleEntry(es) == Net(es, DOMAIN es) = 0

ValidateTransaction(es) ==
  /\ es # <<>>
  /\ \A i \in DOMAIN es : ValidEntry(es[i])
  /\ DoubleEntry(es)

\* GetCurrentBalanceInTx sums the entries and locks them FOR UPDATE in one
\* statement, which PostgreSQL refuses (0A000) whatever the entries are.
LockingSumWorks_AsMeant == TRUE
LockingSumWorks == FALSE

PolicyAllows(pair, impact) ==
  \/ pair \in Open
  \/ impact >= 0
  \/ LockingSumWorks /\ Available(pair) + impact >= 0

\* An account must be there and have the currency of the entry.
AccountsAllow_AnyCurrency(es) ==
  \A i \in DOMAIN es :
    LET pair == PairOf(es[i])
    IN  es[i].account \in Accounts /\ PolicyAllows(pair, Impact(es, pair))
AccountsAllow(es) ==
  \A i \in DOMAIN es :
    LET pair == PairOf(es[i])
    IN  pair \in Pairs /\ PolicyAllows(pair, Impact(es, pair))

Accepted(es) == ValidateTransaction(es) /\ AccountsAllow(es)

\* NUMERIC(28, 8) rounds an amount to its scale, halves up.
Stored(es) ==
  [i \in DOMAIN es |-> [es[i] EXCEPT
     !.units = ((@ + (Unit \div 2)) \div Unit) * Unit, !.places = MaxPlaces]]

Opposite(type) == IF type = Debit THEN Credit ELSE Debit

\* createReversalEntries.
ReversalOf_NotFlipped(es) == es
ReversalOf(es) == [i \in DOMAIN es |-> [es[i] EXCEPT !.type = Opposite(@)]]

-----------------------------------------------------------------------------
(* The operations. *)

Init == ledger = [t \in Txn |-> NoRow] /\ entries = [t \in Txn |-> <<>>]

Post(r, t) ==
  /\ ~Exists(t)
  /\ Accepted(r.entries)
  /\ ledger' = [ledger EXCEPT ![t] = NewRow(NoKey, r.state, NoTxn)]
  /\ entries' = [entries EXCEPT ![t] = Stored(r.entries)]

\* Every item of a batch is checked before any of them is inserted.  The
\* bound here is a batch of two items.
PostBatch(r, s, t, u) ==
  /\ t # u /\ ~Exists(t) /\ ~Exists(u)
  /\ Accepted(r.entries) /\ Accepted(s.entries)
  /\ ledger' = [ledger EXCEPT ![t] = NewRow(NoKey, r.state, NoTxn),
                              ![u] = NewRow(NoKey, s.state, NoTxn)]
  /\ entries' = [entries EXCEPT ![t] = Stored(r.entries), ![u] = Stored(s.entries)]

Settle(t) ==
  /\ ledger[t].state = "pending"
  /\ ledger' = [ledger EXCEPT ![t] = SettledRow(@)]
  /\ UNCHANGED entries

Cancel_Settled(t) ==
  /\ ledger[t].state \in {"pending", "settled"}
  /\ ledger' = [ledger EXCEPT ![t] = CancelledRow(@)]
  /\ UNCHANGED entries
Cancel(t) ==
  /\ ledger[t].state = "pending"
  /\ ledger' = [ledger EXCEPT ![t] = CancelledRow(@)]
  /\ UNCHANGED entries

Reverse(t, st, r) ==
  /\ Reversible(ledger[t])
  /\ ~Exists(r)
  /\ Accepted(ReversalOf(entries[t]))
  /\ ledger' = [ledger EXCEPT ![r] = NewRow(NoKey, st, t), ![t] = ReversedRow(@, r)]
  /\ entries' = [entries EXCEPT ![r] = Stored(ReversalOf(entries[t]))]

Next ==
  \/ \E r \in Requests, t \in Txn : Post(r, t)
  \/ \E r, s \in Requests, t, u \in Txn : PostBatch(r, s, t, u)
  \/ \E t, r \in Txn, st \in Posted : Reverse(t, st, r)
  \/ \E t \in Txn : Settle(t) \/ Cancel(t)

Spec == Init /\ [][Next]_vars

-----------------------------------------------------------------------------
(* Properties. *)

EntryOK(e) ==
  /\ PairOf(e) \in Pairs
  /\ e.type \in {Debit, Credit}
  /\ e.units \in Nat /\ e.places = MaxPlaces /\ AmountOK(e)

TypeOK ==
  /\ LedgerTypeOK /\ entries \in [Txn -> Seq(Entry)]
  /\ \A t \in Txn : /\ entries[t] = <<>> <=> ~Exists(t)
                    /\ \A i \in DOMAIN entries[t] : EntryOK(entries[t][i])

\* Debits equal credits: whatever was posted, cancelled and reversed, the
\* balances of all accounts, settled and available, add up to nothing, also
\* after the column has rounded the amounts.
TrialBalance ==
  /\ SumFunction([pair \in Pairs |-> Settled(pair)]) = 0
  /\ SumFunction([pair \in Pairs |-> Available(pair)]) = 0

\* Once a reversal is settled its original has no effect on any balance.
ReversalNets ==
  \A t \in InState("settled") : ledger[t].reverses # NoTxn =>
    \A pair \in Pairs : Sum({t, ledger[t].reverses}, pair) = 0

\* The negative balance policy: no operation and no order of operations
\* leaves a guarded account with less than nothing, settled or available.
PolicyKept == \A pair \in Guarded : Settled(pair) >= 0 /\ Available(pair) >= 0

L == INSTANCE Ledger WITH ledger <- ledger

\* With their entries the operations are still those of the atomic ledger: what
\* entries let in or keep out decides whether an operation happens, never what
\* it does to the rows.
BooksImplementLedger == L!Spec

-----------------------------------------------------------------------------
(* What the documents say and the code does not do: each is violated. *)

\* Readme: the engine "enforces strict double-entry rules (debits = credits)"
\* and tracks the balances of currencies independently.
CurrenciesBalance ==
  \A c \in Supported :
    SumFunction([pair \in {p \in Pairs : p[2] = c} |-> Available(pair)]) = 0

\* GetCurrentBalanceWithLock "computes the current balance with row-level
\* locking": a transaction that is valid and whose accounts have what it takes
\* out of them is accepted.
Covered(es) ==
  \A pair \in Guarded : Impact(es, pair) >= 0 \/ Available(pair) + Impact(es, pair) >= 0

CoveredAccepted ==
  \A r \in Requests :
    /\ ValidateTransaction(r.entries) /\ Covered(r.entries)
    /\ \A i \in DOMAIN r.entries : PairOf(r.entries[i]) \in Pairs
    => AccountsAllow(r.entries)
=============================================================================
