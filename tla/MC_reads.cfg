\* Balance queries and walks through lists beside the operations.
CONSTANTS
  t1 = t1
  t2 = t2
  t3 = t3
  Txn = {t1, t2, t3}
  Key = {}
  EmptyKey = EmptyKey
  NoTxn = NoTxn
  NoKey = NoKey
  Guarded <- MCGuarded
  Open <- MCOpen
  Supported = {"USD", "EUR"}
  NoAccount = ""
  MaxPlaces = 8
  Unit = 2
  Requests <- MCRequests
  MaxClock = 1
  MaxLag = 1
  Unset = Unset
  DefaultLimit = 2
  MaxLimit = 2
  Lists <- MCLists
SPECIFICATION ReadsSpec
SYMMETRY MCSymmetry
INVARIANTS TypeOK TrialBalance ReversalNets PolicyKept CountedOnce SteadyCounted
  ListedWhole MoreIsThere QuietWalk AscendingWalk
PROPERTIES BooksImplementLedger
