\* One session: post, reverse pending, cancel the reversal.
CONSTANTS
  k1 = k1
  k2 = k2
  EmptyKey = EmptyKey
  NoTxn = NoTxn
  NoKey = NoKey
  Txn = {t1, t2, t3}
  Key = {k1}
  Proc = {p1}
  Requests <- MCReversals
  MaxRetries = 1
  MayFail = FALSE
  MayExpire = FALSE
SPECIFICATION Spec
INVARIANT ReversedIsNegated
