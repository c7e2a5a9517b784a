----------------------------- MODULE DatedBooks -----------------------------
(***************************************************************************)
(* Books with transactions.posted_at.  A post takes its time from the      *)
(* clock of the server before it inserts and commits later, so the order   *)
(* of posted_at is not the order in which transactions become visible.     *)
(***************************************************************************)
EXTENDS Books

CONSTANTS
  MaxClock,   \* bound: the last instant
  MaxLag      \* bound: how many instants a commit comes after its posted_at

ASSUME ClockAssumption == MaxClock \in Nat /\ MaxLag \in Nat

VARIABLES
  clock,     \* time.Now
  postedAt   \* posted_at of each transaction that is there

datedVars == <<ledger, entries, clock, postedAt>>

DatedInit ==
  /\ Init
  /\ clock = 0
  /\ postedAt = [t \in Txn |-> 0]

Tick ==
  /\ clock < MaxClock
  /\ clock' = clock + 1
  /\ UNCHANGED <<ledger, entries, postedAt>>

\* The times an operation that commits now may have taken.
Stamps == {clock - lag : lag \in 0..MaxLag} \intersect Nat

\* The items of a batch get the time of the batch, each an instant later.
Dated(ts, s) ==
  postedAt' = [t \in Txn |-> IF t \in Range(ts)
                               THEN s + (CHOOSE i \in DOMAIN ts : ts[i] = t) - 1
                               ELSE postedAt[t]]

\* settled_at is written by Settle and read by no query.
Operation ==
  /\ \/ \E s \in Stamps :
          \/ \E r \in Requests, t \in Txn : Post(r, t) /\ Dated(<<t>>, s)
          \/ \E q, r \in Requests, t, u \in Txn : PostBatch(q, r, t, u) /\ Dated(<<t, u>>, s)
          \/ \E t, r \in Txn, st \in Posted : Reverse(t, st, r) /\ Dated(<<r>>, s)
     \/ \E t \in Txn : (Settle(t) \/ Cancel(t)) /\ UNCHANGED postedAt
  /\ UNCHANGED clock

DatedNext == Operation \/ Tick

DatedSpec == DatedInit /\ [][DatedNext]_datedVars

-----------------------------------------------------------------------------
(* Historical balances: posted_at selects, but the state is today's. *)

InStateAsOf(s, asOf) == {t \in InState(s) : postedAt[t] <= asOf}

SettledAsOf(pair, asOf)   == Sum(InStateAsOf("settled", asOf), pair)
AvailableAsOf(pair, asOf) == SettledAsOf(pair, asOf) + Sum(InStateAsOf("pending", asOf), pair)

\* GetHistoricalBalance "computes the balance as of a specific timestamp": the
\* balance an account had at an instant that is over does not change.
PastFixed ==
  [][\A pair \in Pairs, i \in 0..(clock - MaxLag - 1) :
       /\ SettledAsOf(pair, i)' = SettledAsOf(pair, i)
       /\ AvailableAsOf(pair, i)' = AvailableAsOf(pair, i)]_datedVars
=============================================================================
