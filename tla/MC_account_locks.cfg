\* Posts beside batches and reversals; account 4 is unknown.
CONSTANTS
  p1 = p1
  p2 = p2
  p3 = p3
  Proc = {p1, p2, p3}
  Account = {1, 2, 3, 4}
  Known = {1, 2, 3}
  Requests <- MCRequests
  MaxRetries = 1
SPECIFICATION FairSpec
INVARIANTS LocksTypeOK PostsNeverCircle CirclesAtLocks
PROPERTY PostsEnd
