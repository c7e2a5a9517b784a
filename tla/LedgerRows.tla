----------------------------- MODULE LedgerRows -----------------------------
(***************************************************************************)
(* The transactions table: the committed rows every other module talks     *)
(* about, and what the ledger promises of them.                            *)
(*                                                                         *)
(* A row keeps the columns the ledger's control depends on.  The entries,  *)
(* timestamps and metadata of a transaction never change once inserted and *)
(* no guard reads them, so they are left out; the entries are the subject  *)
(* of Books.                                                               *)
(***************************************************************************)
EXTENDS Naturals, FiniteSets

CONSTANTS
  Txn,        \* transaction identifiers (uuid.New never repeats one)
  Key,        \* idempotency keys a client may send
  EmptyKey,   \* the key "": no key for the processor, a value for the column
  NoTxn,      \* the NULL of a transaction reference
  NoKey       \* the NULL of an idempotency key

ASSUME NullsAssumption == NoTxn \notin Txn /\ NoKey \notin Key

VARIABLE ledger   \* the committed rows, by transaction identifier

States  == {"absent", "pending", "settled", "cancelled"}
Posted  == {"pending", "settled"}   \* the states a request may ask for

Row == [state      : States,
        key        : Key \union {NoKey},
        reverses   : Txn \union {NoTxn},
        reversedBy : Txn \union {NoTxn}]

NoRow == [state |-> "absent", key |-> NoKey,
          reverses |-> NoTxn, reversedBy |-> NoTxn]

\* A row as InsertTransaction and InsertReversalTransaction write it.
NewRow(k, st, original) ==
  [state |-> st, key |-> k, reverses |-> original, reversedBy |-> NoTxn]

\* The three updates of a row that is there.
SettledRow(row)        == [row EXCEPT !.state = "settled"]
CancelledRow(row)      == [row EXCEPT !.state = "cancelled"]
ReversedRow(row, r)    == [row EXCEPT !.reversedBy = r]

\* validateReversalEligibility, without its wording.
Reversible_Again(row) == row.reverses = NoTxn /\ row.state = "settled"
Reversible(row) ==
  /\ row.reversedBy = NoTxn
  /\ row.reverses = NoTxn
  /\ row.state = "settled"

Exists(t) == ledger[t].state # "absent"

\* The UNIQUE constraint of transactions.idempotency_key; NULLs never clash.
KeyCommitted(k) == k # NoKey /\ \E t \in Txn : ledger[t].key = k

LedgerTypeOK == ledger \in [Txn -> Row]

(***************************************************************************)
(* What the ledger promises of its rows.                                   *)
(***************************************************************************)

\* No two transactions carry the same idempotency key: concurrent
\* duplicates of one submission post it at most once.
KeyUnique ==
  \A t, u \in Txn : ledger[t].key = ledger[u].key /\ ledger[t].key # NoKey => t = u

\* The two columns of a reversal name each other, a transaction is reversed
\* at most once, only when it is settled, and a reversal is never reversed.
ReversalLinks ==
  \A t \in Txn :
    /\ ledger[t].reverses # NoTxn =>
         /\ ledger[ledger[t].reverses].reversedBy = t
         /\ ledger[t].reversedBy = NoTxn
    /\ ledger[t].reversedBy # NoTxn =>
         /\ ledger[ledger[t].reversedBy].reverses = t
         /\ ledger[t].state = "settled"

\* The row's life: nothing is ever deleted, settled and cancelled are final,
\* the key and the reversed transaction are fixed at insertion and
\* reversed_by is written at most once.
RowStep(old, new) ==
  /\ <<old.state, new.state>> \in
       {<<"absent", "pending">>, <<"absent", "settled">>,
        <<"pending", "settled">>, <<"pending", "cancelled">>}
     \/ old.state = new.state
  /\ old.state # "absent" => new.key = old.key /\ new.reverses = old.reverses
  /\ old.reversedBy # NoTxn => new.reversedBy = old.reversedBy

RowLifecycle == [][\A t \in Txn : RowStep(ledger[t], ledger'[t])]_ledger
=============================================================================
