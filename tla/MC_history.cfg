\* A settlement and the balances of an instant that is over.
CONSTANTS
  t1 = t1
  t2 = t2
  t3 = t3
  Txn = {t1, t2, t3}
  Key = {}
  EmptyKey = EmptyKey
  NoTxn = NoTxn
  NoKey = NoKey
  Guarded <- MCGuarded
  Open <- MCOpen
  Supported = {"USD", "EUR"}
  NoAccount = ""
  MaxPlaces = 8
  Unit = 2
  Requests <- MCRequests
  MaxClock = 1
  MaxLag = 0
  Unset = Unset
  DefaultLimit = 2
  MaxLimit = 2
  Lists <- MCLists
SPECIFICATION ReadsSpec
PROPERTY PastFixed
