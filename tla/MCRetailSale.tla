----------------------------- MODULE MCRetailSale -----------------------------
(* Constants for model checking RetailSale: how the sales share client_ids   *)
(* and baskets, and which of them meet.                                      *)
EXTENDS RetailSale

\* A sale's client_id is named like it; one that has none of its own was given,
\* by mistake, that of another.
SomeShared ==
  [s \in Sales |-> IF s \in ClientIds THEN s ELSE CHOOSE c \in ClientIds : TRUE]

\* Each sale its own basket, named like the sale.
OwnBasket == [s \in Sales |-> s]

\* The sales that are not parked share a client_id, or each has its own.
MCInit ==
  /\ Init
  /\ LET waiting == {s \in Sales : answer[s] = "waiting"} IN
       waiting = ClientIds \/ \E c \in ClientIds : waiting = {s \in Sales : KeyOf[s] = c}

\* Cancellations meet the sales of one client_id: those under
\* another share nothing with them but the naming series.
Alone(c) == \A s \in Sales : KeyOf[s] # c => answer[s] = "parked"
MCNext ==
  /\ Next
  /\ \A c \in ClientIds :
       \/ invoice'[c].docstatus = 2 /\ invoice[c].docstatus # 2
       \/ payment'[c] = 2 /\ payment[c] # 2
       => Alone(c)

MCSpec == MCInit /\ [][MCNext]_vars /\ Fairness
=============================================================================
