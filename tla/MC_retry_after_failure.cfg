\* One session that may fail after its commit, and its retry.
CONSTANTS
  k1 = k1
  k2 = k2
  EmptyKey = EmptyKey
  NoTxn = NoTxn
  NoKey = NoKey
  Txn = {t1, t2, t3}
  Key = {k1}
  Proc = {p1}
  Requests <- MCOneKey
  MaxRetries = 1
  MayFail = TRUE
  MayExpire = FALSE
SPECIFICATION Spec
INVARIANT DuplicateAnswered
