\* A delivery order is paid by card in a request that dies, then sent again
\* as cash on delivery.
CONSTANTS
  Orders = {o1}
  DeliveryOrders = {o1}
  Customers = {walkin}
  KnownCustomers = {walkin}
  CustomerOf <- MCCustomerOf
  Tables = {}
  TablesOf <- NoTables
  Rows = {i1}
  MaxQty = 1
  ClientIds = {c1, c2}
  KeysOf <- SharedKeys
  Requests = {r1, r2}
  SnapshotIsolation = TRUE
  None = None
SPECIFICATION Spec
SYMMETRY Symmetry
INVARIANT CodIsUnpaid
