----------------------- MODULE MCTransactionProcessor -----------------------
(***************************************************************************)
(* TransactionProcessor on small instances: the requests each run offers.  *)
(***************************************************************************)
EXTENDS TransactionProcessor, TLC

CONSTANTS k1, k2

MCItem(k, st) == [key |-> k, state |-> st]
MCPost(k, st) == [op |-> "post", items |-> <<MCItem(k, st)>>, target |-> NoTxn]
MCBatch(k, l) == [op |-> "batch", items |-> <<MCItem(k, "settled"), MCItem(l, "pending")>>,
                  target |-> NoTxn]
MCReverse(t, k, st) == [op |-> "reverse", items |-> <<MCItem(k, st)>>, target |-> t]
MCChange(op, t) == [op |-> op, items |-> <<>>, target |-> t]

\* The life of single transactions, some posted under a key, some under "".
MCRequests ==
  {MCPost(k1, "pending"), MCPost(EmptyKey, "settled")}
    \union {MCReverse(t, NoKey, "pending") : t \in Txn}
    \union {MCChange(op, t) : op \in {"settle", "cancel"}, t \in Txn}

\* Batches that take two keys in opposite orders or one key twice, and a post
\* and reversals that take one of the keys, with their row locks.
MCBatchRequests ==
  {MCPost(k1, "settled"), MCBatch(k1, k2), MCBatch(k2, k1), MCBatch(k1, k1)}
    \union {MCReverse(t, k2, "settled") : t \in Txn}

\* One client that posts under one key and submits again.
MCOneKey == {MCPost(k1, "settled")}

\* One client that posts, reverses pending and cancels.
MCReversals == {MCPost(NoKey, "settled")}
                 \union {MCReverse(t, NoKey, "pending") : t \in Txn}
                 \union {MCChange("cancel", t) : t \in Txn}

MCSymmetry == Permutations(Txn) \union Permutations(Proc)
=============================================================================
