\* Two sessions, three transaction identifiers, failures and expiry.
CONSTANTS
  k1 = k1
  k2 = k2
  EmptyKey = EmptyKey
  NoTxn = NoTxn
  NoKey = NoKey
  Txn = {t1, t2, t3}
  Key = {k1, EmptyKey}
  Proc = {p1, p2}
  Requests <- MCRequests
  MaxRetries = 1
  MayFail = TRUE
  MayExpire = TRUE
SPECIFICATION Spec
SYMMETRY MCSymmetry
INVARIANTS TypeOK KeyUnique ReversalLinks RecordsAgree AnswersKept
PROPERTIES RowLifecycle ChangesAnnounced ImplementsLedger
