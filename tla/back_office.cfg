\* One small instance of each larger module of the back office.
CONSTANTS
  Requests = {r1, r2}
  SnapshotIsolation = TRUE
  None = None
  Users = {u1, u2}
  Admin = admin
  Below <- Team
  Tops = {}
  Careful = {u1}
  Tasks = {x1, x2}
  Sessions = {y1, y2, y3}
  ChatUsers = {u1, u2}
  ChatManagers = {u2}
  Chats = {s1}
  OwnerOf <- Owner
  Tokens = {k1}
  Cap = 1
  MaxQueue = 1
  DoubleClicks = FALSE
  Cids = {c1, c2}
  Items = {c2}
  Stocked = {c2}
  MaxRev = 3
  MaxOps = 2
  Invoices <- InvoiceNumbers
  SelfPaying = {2}
  Total = 2
  Payments = {x1, x2}
  MaxPay = 3
  VanUsers = {u1, u2}
  VanAdmins = {}
  OrderIds = {o1}
  InvoiceIds = {x1, x2}
  StockIds = {e1}
SPECIFICATION BackOfficeSpec
CHECK_DEADLOCK FALSE
SYMMETRY Symmetry
INVARIANTS BackOfficeTypeOK StoppedOnceBilled SingleActive StoredWhole NeverOverpaid
PROPERTIES PapersKeepTheirWord TaskLife TokenOnce NoLostUpdate MoneyIsKept
