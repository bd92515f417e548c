\* MariaDB without snapshot isolation: two tills on the bill of one order,
\* whose customer has to be created, under two client_ids; and two tills, two
\* orders and one table.
CONSTANTS
  Billed = o1
  Seated = o2
  Moved = o3
  Orders = {o1, o2, o3}
  DeliveryOrders = {}
  Customers = {walkin}
  KnownCustomers = {}
  CustomerOf <- MCCustomerOf
  Tables = {t1}
  TablesOf <- MCTablesOf
  Rows = {i1}
  MaxQty = 1
  ClientIds = {c1, c2}
  KeysOf <- MCKeysOf
  Requests = {r1, r2}
  SnapshotIsolation = FALSE
  None = None
SPECIFICATION Spec
ACTION_CONSTRAINT Apart
SYMMETRY Symmetry
INVARIANTS OneTicketPerRow TableServesItsOrder
PROPERTY ClosedOrderIsFinal
