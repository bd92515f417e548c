\* Two requests at once on the two stops of one courier, or one after the
\* other on three stops of two couriers, with snapshot isolation.
CONSTANTS
  Stops = {s1, s2, s3}
  Boys = {b1, b2}
  Manager = manager
  Desk = desk
  Requests = {r1, r2}
  SnapshotIsolation = TRUE
  None = None
SPECIFICATION MCSpec
SYMMETRY Symmetry
INVARIANT BusyUnlessExcused
PROPERTIES DeliveryIsRewarded ClosedStopIsFinal
