------------------------------- MODULE RestoLife -------------------------------
(***************************************************************************)
(* RestoCheckout implements OrderLife: requests, locks, snapshots, client  *)
(* ids and documents are forgotten, and the bill of an order is whatever   *)
(* Sales Invoice was made for it.                                          *)
(***************************************************************************)
EXTENDS RestoCheckout

InvoicesOf(o) == {c \in ClientIds : invoice[c].order = o}

BillOf(o) ==
  IF \E c \in InvoicesOf(o) : invoice[c].docstatus = 1 THEN "posted"
  ELSE IF InvoicesOf(o) # {} THEN "cancelled" ELSE "none"

Life == INSTANCE OrderLife WITH
  status <- [o \in Orders |-> order[o].status],
  bill <- [o \in Orders |-> BillOf(o)],
  paid <- {o \in Orders : \E c \in InvoicesOf(o) : invoice[c].paid > 0}

\* Every step of every request, also of those that are killed, retried or
\* served together, is a step of the order's life or none: whatever the order
\* of their commits, an order is billed once, never voided around its bill,
\* and final once closed (pay(), void_order() and the edits as a whole).
LivesItsLife == Life!LifeSpec
=============================================================================
