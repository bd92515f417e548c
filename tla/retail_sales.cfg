\* Two of three sales: one offline and one free under one client_id, or two
\* offline ones under their own; fair tills and workers.
CONSTANTS
  Sales = {s1, s2, s3}
  ClientIds = {s1, s3}
  KeyOf <- SomeShared
  BasketOf <- OwnBasket
  Free = {s2}
  Offline = {s1, s3}
  Flawed = {s1, s3}
  Requests = {r1, r2}
  SnapshotIsolation = TRUE
  MaxTimeOuts = 1
  MaxBreaks = 1
  None = None
SPECIFICATION MCSpec
CHECK_DEADLOCK FALSE
INVARIANT PaymentNeedsInvoice
PROPERTIES SalesKeepTheirWord MissedOnlyInARace SaleIsAnswered
