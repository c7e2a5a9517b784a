---------------------------- MODULE BalanceReads ----------------------------
(***************************************************************************)
(* GetCurrentBalance and GetHistoricalBalance beside the operations of     *)
(* DatedBooks.  A query asks the pool for the settled and then for the     *)
(* pending entries, two statements that each see the ledger of their own   *)
(* moment.  The snapshot it asks for first is never there: nothing in the  *)
(* program writes balance_snapshots.                                       *)
(***************************************************************************)
EXTENDS DatedBooks

VARIABLE reader   \* the query, with what it has counted so far

\* What the two statements sum up, in their order.
Parts_PendingFirst == <<"pending", "settled">>
Parts == <<"settled", "pending">>

\* A current balance has no condition on posted_at.
Latest == MaxClock + 2

NoRead == [part |-> 0, asOf |-> Latest, before |-> {},
           counted |-> [s \in {"settled", "pending"} |-> {}]]

Answered == reader.part > Len(Parts)

StatesNow == {<<t, ledger[t].state>> : t \in {u \in Txn : Exists(u)}}

\* A query begins.  before is history: the ledger it found.
StartRead(asOf) ==
  /\ reader.part = 0
  /\ reader' = [NoRead EXCEPT !.part = 1, !.asOf = asOf, !.before = StatesNow]

Selected_NotReversed(s, asOf) == {t \in InStateAsOf(s, asOf) : ledger[t].reversedBy = NoTxn}
Selected(s, asOf) == InStateAsOf(s, asOf)

\* The settled sum, then the pending sum.
ReadPart ==
  /\ reader.part \in DOMAIN Parts
  /\ LET s == Parts[reader.part] IN
       reader' = [reader EXCEPT !.part = @ + 1, !.counted[s] = Selected(s, reader.asOf)]

\* The answer, or a statement failed.
Return ==
  /\ reader.part # 0
  /\ reader' = NoRead

ReadStep ==
  /\ \/ \E asOf \in 0..clock \union {Latest} : StartRead(asOf)
     \/ ReadPart
     \/ Return
  /\ UNCHANGED datedVars

balanceVars == <<ledger, entries, clock, postedAt, reader>>

BalanceInit == DatedInit /\ reader = NoRead
BalanceNext ==
  \/ DatedNext /\ UNCHANGED reader
  \/ ReadStep
BalanceSpec == BalanceInit /\ [][BalanceNext]_balanceVars

-----------------------------------------------------------------------------
(* Properties. *)

\* A transaction that settles while a balance is read may be missed, but no
\* amount is ever counted twice.
CountedOnce == reader.counted["settled"] \intersect reader.counted["pending"] = {}

\* A transaction that stays as the query found it is counted as what it is,
\* if it was posted by the time asked about.
SteadyCounted ==
  Answered =>
    \A t \in Txn, s \in {"settled", "pending"} :
      <<t, ledger[t].state>> \in reader.before =>
        (t \in reader.counted[s] <=> ledger[t].state = s /\ postedAt[t] <= reader.asOf)
=============================================================================
