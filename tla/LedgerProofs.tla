---------------------------- MODULE LedgerProofs ----------------------------
(***************************************************************************)
(* Proofs about the atomic ledger, for any set of transactions and keys.   *)
(***************************************************************************)
EXTENDS Ledger, TLAPS

\* Every step of the ledger keeps the rows well typed.
LEMMA LedgerTypeStep == LedgerTypeOK /\ [Next]_ledger => LedgerTypeOK'
<1> SUFFICES ASSUME LedgerTypeOK, [Next]_ledger PROVE LedgerTypeOK'
  OBVIOUS
<1> USE DEF LedgerTypeOK, Row, States, Posted, NewRow
<1>1. CASE Post
  BY <1>1 DEF Post
<1>2. ASSUME NEW t \in Txn, Settle(t) \/ Cancel(t) PROVE LedgerTypeOK'
  BY <1>2 DEF Settle, Cancel, SettledRow, CancelledRow
<1>3. ASSUME NEW t \in Txn, NEW r \in Txn, Reverse(t, r) PROVE LedgerTypeOK'
  BY <1>3 DEF Reverse, ReversedRow
<1>4. CASE UNCHANGED ledger
  BY <1>4
<1>5. QED
  BY <1>1, <1>2, <1>3, <1>4 DEF Next

\* The empty ledger is typed.
LEMMA LedgerTypeInit == Init => LedgerTypeOK
BY DEF Init, LedgerTypeOK, Row, NoRow, States

\* The rows of the ledger are always rows of the transactions table.
THEOREM LedgerTyped == Spec => []LedgerTypeOK
BY LedgerTypeInit, LedgerTypeStep, PTL DEF Spec

-----------------------------------------------------------------------------

\* A row nobody has inserted carries no key and no link; this is what makes
\* the two properties below inductive.
AbsentIsBlank == \A t \in Txn : ledger[t].state = "absent" => ledger[t] = NoRow

LedgerInv == LedgerTypeOK /\ AbsentIsBlank /\ KeyUnique /\ ReversalLinks

\* The empty ledger satisfies the invariant.
LEMMA LedgerInvInit == Init => LedgerInv
<1> SUFFICES ASSUME Init PROVE LedgerInv
  OBVIOUS
<1>1. LedgerTypeOK
  BY LedgerTypeInit
<1>2. AbsentIsBlank /\ KeyUnique /\ ReversalLinks
  BY NullsAssumption DEF Init, AbsentIsBlank, KeyUnique, ReversalLinks, NoRow
<1>3. QED
  BY <1>1, <1>2 DEF LedgerInv

\* Every atomic operation keeps the invariant.
LEMMA LedgerInvStep == LedgerInv /\ [Next]_ledger => LedgerInv'
<1> SUFFICES ASSUME LedgerInv, [Next]_ledger PROVE LedgerInv'
  OBVIOUS
<1>t. LedgerTypeOK'
  BY LedgerTypeStep DEF LedgerInv
<1> USE NullsAssumption DEF LedgerInv, LedgerTypeOK, Row
<1>1. CASE Post
  <2> PICK S \in (SUBSET {t \in Txn : ~Exists(t)}) \ {{}} :
        \E key \in [S -> Key \union {NoKey}], state \in [S -> Posted] :
          /\ \A t \in S : ~KeyCommitted(key[t])
          /\ \A t, u \in S : key[t] = key[u] /\ key[t] # NoKey => t = u
          /\ ledger' = [t \in Txn |-> IF t \in S THEN NewRow(key[t], state[t], NoTxn)
                                                 ELSE ledger[t]]
    BY <1>1 DEF Post
  <2> PICK key \in [S -> Key \union {NoKey}], state \in [S -> Posted] :
        /\ \A t \in S : ~KeyCommitted(key[t])
        /\ \A t, u \in S : key[t] = key[u] /\ key[t] # NoKey => t = u
        /\ ledger' = [t \in Txn |-> IF t \in S THEN NewRow(key[t], state[t], NoTxn)
                                               ELSE ledger[t]]
    OBVIOUS
  <2>1. AbsentIsBlank'
    BY DEF AbsentIsBlank, NewRow, Posted
  <2>2. KeyUnique'
    BY DEF KeyUnique, KeyCommitted, NewRow
  <2>3. ReversalLinks'
    BY DEF ReversalLinks, NewRow, Exists, AbsentIsBlank, NoRow
  <2>4. QED
    BY <1>t, <2>1, <2>2, <2>3
<1>2. ASSUME NEW t \in Txn, Settle(t) \/ Cancel(t) PROVE LedgerInv'
  <2>1. AbsentIsBlank'
    BY <1>2 DEF AbsentIsBlank, Settle, Cancel, SettledRow, CancelledRow
  <2>2. KeyUnique'
    BY <1>2 DEF KeyUnique, Settle, Cancel, SettledRow, CancelledRow
  <2>3. ReversalLinks'
    BY <1>2 DEF ReversalLinks, Settle, Cancel, SettledRow, CancelledRow
  <2>4. QED
    BY <1>t, <2>1, <2>2, <2>3
<1>3. ASSUME NEW t \in Txn, NEW r \in Txn, Reverse(t, r) PROVE LedgerInv'
  <2> PICK k \in Key \union {NoKey}, st \in Posted :
        /\ ~KeyCommitted(k)
        /\ ledger' = [ledger EXCEPT ![t] = ReversedRow(ledger[t], r),
                                    ![r] = NewRow(k, st, t)]
    BY <1>3 DEF Reverse
  <2>0. t # r /\ Reversible(ledger[t]) /\ ledger[r] = NoRow
    BY <1>3 DEF Reverse, Reversible, Exists, AbsentIsBlank
  <2>1. AbsentIsBlank'
    BY <2>0 DEF AbsentIsBlank, NewRow, Posted, ReversedRow, Reversible
  <2>2. KeyUnique'
    BY <2>0 DEF KeyUnique, KeyCommitted, NewRow, ReversedRow
  <2>3. ReversalLinks'
    <3>1. \A u \in Txn \ {t, r} : ledger'[u] = ledger[u]
      OBVIOUS
    <3>2. ledger'[t] = ReversedRow(ledger[t], r) /\ ledger'[r] = NewRow(k, st, t)
      BY <2>0
    <3>3. \A u \in Txn : ledger[u].reverses \notin {t, r} /\ ledger[u].reversedBy \notin {t, r}
      BY <2>0 DEF ReversalLinks, Reversible, NoRow
    <3>4. QED
      BY <2>0, <3>1, <3>2, <3>3 DEF ReversalLinks, ReversedRow, NewRow, Reversible
  <2>4. QED
    BY <1>t, <2>1, <2>2, <2>3
<1>4. CASE UNCHANGED ledger
  BY <1>4 DEF AbsentIsBlank, KeyUnique, ReversalLinks
<1>5. QED
  BY <1>1, <1>2, <1>3, <1>4 DEF Next

\* No two transactions of the ledger ever carry one idempotency key.
THEOREM LedgerKeyUnique == Spec => []KeyUnique
<1>1. LedgerInv => KeyUnique
  BY DEF LedgerInv
<1>2. QED
  BY <1>1, LedgerInvInit, LedgerInvStep, PTL DEF Spec

\* Reversal links always come in pairs, once, and between the right states.
THEOREM LedgerReversalLinks == Spec => []ReversalLinks
<1>1. LedgerInv => ReversalLinks
  BY DEF LedgerInv
<1>2. QED
  BY <1>1, LedgerInvInit, LedgerInvStep, PTL DEF Spec

-----------------------------------------------------------------------------

\* Every step moves every row along its life.
LEMMA LifecycleStep ==
  LedgerInv /\ [Next]_ledger => [\A t \in Txn : RowStep(ledger[t], ledger'[t])]_ledger
<1> SUFFICES ASSUME LedgerInv, Next, NEW u \in Txn PROVE RowStep(ledger[u], ledger'[u])
  OBVIOUS
<1> USE DEF LedgerInv, LedgerTypeOK, Row, RowStep, Posted
<1>1. CASE Post
  BY <1>1 DEF Post, NewRow, Exists, AbsentIsBlank, NoRow
<1>2. ASSUME NEW t \in Txn, Settle(t) \/ Cancel(t) PROVE RowStep(ledger[u], ledger'[u])
  BY <1>2 DEF Settle, Cancel, SettledRow, CancelledRow
<1>3. ASSUME NEW t \in Txn, NEW r \in Txn, Reverse(t, r) PROVE RowStep(ledger[u], ledger'[u])
  <2> PICK k \in Key \union {NoKey}, st \in Posted :
        ledger' = [ledger EXCEPT ![t] = ReversedRow(ledger[t], r),
                                 ![r] = NewRow(k, st, t)]
    BY <1>3 DEF Reverse
  <2>1. t # r /\ Reversible(ledger[t]) /\ ledger[r] = NoRow
    BY <1>3 DEF Reverse, Reversible, Exists, AbsentIsBlank
  <2>2. QED
    BY <2>1 DEF Reversible, ReversedRow, NewRow, NoRow
<1>4. QED
  BY <1>1, <1>2, <1>3 DEF Next

\* Settled and cancelled are final, nothing disappears, and a row's key and
\* links are written once.
THEOREM LedgerLifecycle == Spec => RowLifecycle
BY LedgerInvInit, LedgerInvStep, LifecycleStep, PTL DEF Spec, RowLifecycle
=============================================================================
