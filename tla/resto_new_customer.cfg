\* Two tills check one order out whose customer has to be created, with
\* snapshot isolation.
CONSTANTS
  Orders = {o1}
  DeliveryOrders = {o1}
  Customers = {walkin}
  KnownCustomers = {}
  CustomerOf <- MCCustomerOf
  Tables = {}
  TablesOf <- NoTables
  Rows = {i1}
  MaxQty = 1
  ClientIds = {c1, c2}
  KeysOf <- SharedKeys
  Requests = {r1, r2}
  SnapshotIsolation = TRUE
  None = None
SPECIFICATION Spec
SYMMETRY Symmetry
INVARIANT OneInvoicePerOrder
