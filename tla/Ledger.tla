------------------------------- MODULE Ledger -------------------------------
(***************************************************************************)
(* What the transaction processor promises: every operation that succeeds  *)
(* is one atomic step on the committed rows, taken in a state that allows  *)
(* it.  There are no requests, locks, retries or crashes here; a step that *)
(* fails is no step at all.  TransactionProcessor implements this.         *)
(***************************************************************************)
EXTENDS LedgerRows

Init == ledger = [t \in Txn |-> NoRow]

\* The rows of a post or of a batch: all of them or none, under identifiers
\* and keys that nobody has used.
Post ==
  \E S \in (SUBSET {t \in Txn : ~Exists(t)}) \ {{}} :
    \E key \in [S -> Key \union {NoKey}], state \in [S -> Posted] :
      /\ \A t \in S : ~KeyCommitted(key[t])
      /\ \A t, u \in S : key[t] = key[u] /\ key[t] # NoKey => t = u
      /\ ledger' = [t \in Txn |-> IF t \in S THEN NewRow(key[t], state[t], NoTxn)
                                             ELSE ledger[t]]

Settle(t) ==
  /\ ledger[t].state = "pending"
  /\ ledger' = [ledger EXCEPT ![t] = SettledRow(ledger[t])]

Cancel(t) ==
  /\ ledger[t].state = "pending"
  /\ ledger' = [ledger EXCEPT ![t] = CancelledRow(ledger[t])]

\* The reversal r of t is inserted and t is marked, in the same step.
Reverse(t, r) ==
  /\ Reversible(ledger[t])
  /\ ~Exists(r)
  /\ \E k \in Key \union {NoKey}, st \in Posted :
       /\ ~KeyCommitted(k)
       /\ ledger' = [ledger EXCEPT ![t] = ReversedRow(ledger[t], r),
                                   ![r] = NewRow(k, st, t)]

Next ==
  \/ Post
  \/ \E t \in Txn : Settle(t) \/ Cancel(t)
  \/ \E t, r \in Txn : Reverse(t, r)

Spec == Init /\ [][Next]_ledger
=============================================================================
