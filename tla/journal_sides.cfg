\* One entry, its lines to a total of two.
CONSTANTS
  Requests = {r1}
  SnapshotIsolation = TRUE
  None = None
  Vouchers = {v1}
  MaxAmount = 2
SPECIFICATION JournalSpec
CHECK_DEADLOCK FALSE
INVARIANT OppositeSides
