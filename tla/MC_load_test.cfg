\* Two seeded accounts and another one; one worker, whose channel fills up.
CONSTANTS
  a1 = a1
  a2 = a2
  a3 = a3
  Acct = {a1, a2, a3}
  Wanted <- MCWanted
  KindOf <- MCKindOf
  AnyValue = AnyValue
  DefaultLimit = 2
  Reads <- MCReads
  MaxClock = 2
  Batches = {b1, b2, b3, b4}
  Worker = {w1}
  Seeds <- MCSeeds
SPECIFICATION Spec
CHECK_DEADLOCK FALSE
INVARIANTS AccountsWhole WalkComplete SummaryTrue
PROPERTIES GeneratorEnds
