\* One transaction that moves value from one currency to another.
CONSTANTS
  t1 = t1
  t2 = t2
  t3 = t3
  Txn = {t1, t2, t3}
  Key = {}
  EmptyKey = EmptyKey
  NoTxn = NoTxn
  NoKey = NoKey
  Guarded <- MCGuarded
  Open <- MCOpen
  Supported = {"USD", "EUR"}
  NoAccount = ""
  MaxPlaces = 8
  Unit = 2
  Requests <- MCRequests
SPECIFICATION Spec
INVARIANT CurrenciesBalance
