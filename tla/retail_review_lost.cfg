\* The worker dies between two commits.
CONSTANTS
  Sales = {s1}
  ClientIds = {s1}
  KeyOf <- SomeShared
  BasketOf <- OwnBasket
  Free = {}
  Offline = {s1}
  Flawed = {s1}
  Requests = {r1, r2}
  SnapshotIsolation = TRUE
  MaxTimeOuts = 0
  MaxBreaks = 1
  None = None
SPECIFICATION Spec
CHECK_DEADLOCK FALSE
INVARIANT LateSaleIsReviewed
