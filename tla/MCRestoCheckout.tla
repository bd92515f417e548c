--------------------------- MODULE MCRestoCheckout ---------------------------
(* Small instances of RestoCheckout for TLC.                               *)
EXTENDS RestoLife, TLC

\* Every order names the same walk-in customer.
MCCustomerOf == [o \in Orders |-> CHOOSE x \in Customers : TRUE]

\* One order: its checkouts draw on all client_ids.
SharedKeys == [o \in Orders |-> ClientIds]

\* Orders without a table.
NoTables == [o \in Orders |-> {None}]

\* Requests are alike, and so are client_ids that all serve one order.
Symmetry == Permutations(Requests) \cup Permutations(ClientIds)
=============================================================================
