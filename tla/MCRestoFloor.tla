------------------------------ MODULE MCRestoFloor ------------------------------
(* RestoCheckout on a database without snapshot isolation, in two small     *)
(* instances that share a run: the bill of one order, and the floor with two *)
(* orders and one table.                                                     *)
EXTENDS RestoCheckout, TLC

CONSTANTS Billed, Seated, Moved

\* The first order never sits; of the two others one is always sent for the table
\* and the other is sent with it and without it.
MCTablesOf ==
  (Billed :> {None}) @@ (Seated :> Tables) @@ (Moved :> Tables \cup {None})
MCKeysOf == [o \in Orders |-> IF o = Billed THEN ClientIds ELSE {}]
MCCustomerOf == [o \in Orders |-> CHOOSE x \in Customers : TRUE]

\* Nobody has worked on the bill, on the floor.
BillUnused ==
  order[Billed].status = "Absent" /\ \A r \in Requests : job[r].o # Billed
FloorUnused ==
  /\ \A o \in {Seated, Moved} : order[o].status = "Absent"
  /\ \A t \in Tables : table[t] = FreeTable
  /\ \A r \in Requests : job[r].o \in {Billed, None} /\ job[r].op # "set_table_status"

\* They share nothing: a behaviour is about one of them.
Apart == (BillUnused \/ FloorUnused)'

Symmetry == Permutations(Requests) \cup Permutations(ClientIds)
=============================================================================
