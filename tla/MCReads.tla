------------------------------- MODULE MCReads -------------------------------
(***************************************************************************)
(* Both kinds of queries beside the operations of MCBooks.  Queries change *)
(* nothing, so one at a time is enough: a balance query or a walk through  *)
(* a list, never both.                                                     *)
(***************************************************************************)
EXTENDS MCBooks, BalanceReads, Queries

readsVars == <<ledger, entries, clock, postedAt, reader, list>>

ListOf(account, currency, state, order, limit, to) ==
  [account |-> account, currency |-> currency, state |-> state, order |-> order,
   limit |-> limit, from |-> 0, to |-> to]

\* The statement of a, all transactions newest first, and the pending ones
\* with USD on b that were posted up to instant 1.
MCLists ==
  {ListOf("a", Unset, Unset, "timestamp_asc", 1, Latest),
   ListOf(Unset, Unset, Unset, "timestamp_desc", 1, Latest),
   ListOf("b", "USD", "pending", "timestamp_asc", 0, 1)}

ReadsInit == DatedInit /\ reader = NoRead /\ list = NoList

ReadsNext ==
  \/ Operation /\ Noticed /\ UNCHANGED reader
  \/ Tick /\ UNCHANGED <<reader, list>>
  \/ list.part = "none" /\ ReadStep /\ UNCHANGED list
  \/ reader.part = 0 /\ ListStep /\ UNCHANGED reader

ReadsSpec == ReadsInit /\ [][ReadsNext]_readsVars

MCSymmetry == Permutations(Txn)
=============================================================================
