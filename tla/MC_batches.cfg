\* Batches with opposite key orders: waiting, deadlock, retries; no crash.
CONSTANTS
  k1 = k1
  k2 = k2
  EmptyKey = EmptyKey
  NoTxn = NoTxn
  NoKey = NoKey
  Txn = {t1, t2, t3}
  Key = {k1, k2}
  Proc = {p1, p2}
  Requests <- MCBatchRequests
  MaxRetries = 1
  MayFail = FALSE
  MayExpire = FALSE
SPECIFICATION FairSpec
PROPERTIES ImplementsLedger RequestsEnd KeysRecorded
