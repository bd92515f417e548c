\* Two requests on one delivery order, two client_ids; MariaDB with snapshot
\* isolation; the customer is on file.
CONSTANTS
  Orders = {o1}
  DeliveryOrders = {o1}
  Customers = {walkin}
  KnownCustomers = {walkin}
  CustomerOf <- MCCustomerOf
  Tables = {}
  TablesOf <- NoTables
  Rows = {i1}
  MaxQty = 2
  ClientIds = {c1, c2}
  KeysOf <- SharedKeys
  Requests = {r1, r2}
  SnapshotIsolation = TRUE
  None = None
SPECIFICATION Spec
SYMMETRY Symmetry
INVARIANTS InvoiceRemembered OneInvoicePerOrder NoDoublePayment PaidOrderIsInvoiced
PROPERTIES InvoiceBillsTheItems LivesItsLife
