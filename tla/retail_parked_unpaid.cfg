\* The Payment Entry is refused at its insert.
CONSTANTS
  Sales = {s1}
  ClientIds = {s1}
  KeyOf <- SomeShared
  BasketOf <- OwnBasket
  Free = {}
  Offline = {s1}
  Flawed = {}
  Requests = {r1, r2}
  SnapshotIsolation = TRUE
  MaxTimeOuts = 0
  MaxBreaks = 0
  None = None
SPECIFICATION Spec
CHECK_DEADLOCK FALSE
PROPERTY UnpaidIsPending
