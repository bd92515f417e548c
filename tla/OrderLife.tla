------------------------------- MODULE OrderLife -------------------------------
(***************************************************************************)
(* What the Resto POS promises about an order, whoever works on it at the  *)
(* same time: it is billed at most once, and from then on it is either     *)
(* closed as paid or waits for an accountant to cancel the bill; nobody    *)
(* voids it while the bill stands; a closed order stays closed.            *)
(* RestoCheckout implements this (see RestoLife).                          *)
(***************************************************************************)
CONSTANT Orders

VARIABLES
  status,  \* of each order
  bill,    \* its invoice: "none", "posted", "cancelled"
  paid     \* the orders whose bill has been paid

lifeVars == <<status, bill, paid>>

Busy(o) == status[o] \in {"Open", "Sent"}

LifeInit ==
  /\ status = [o \in Orders |-> "Absent"]
  /\ bill = [o \in Orders |-> "none"]
  /\ paid = {}

Open(o) ==
  /\ status[o] = "Absent"
  /\ status' = [status EXCEPT ![o] = "Open"]
  /\ UNCHANGED <<bill, paid>>

Send(o) ==
  /\ Busy(o)
  /\ status' = [status EXCEPT ![o] = "Sent"]
  /\ UNCHANGED <<bill, paid>>

Bill(o) ==
  /\ Busy(o)
  /\ bill[o] = "none"
  /\ bill' = [bill EXCEPT ![o] = "posted"]
  /\ UNCHANGED <<status, paid>>

\* Also after another checkout of the order closed it as cash on delivery.
Collect(o) ==
  /\ bill[o] = "posted"
  /\ o \notin paid
  /\ paid' = paid \cup {o}
  /\ UNCHANGED <<status, bill>>

Close(o) ==
  /\ Busy(o)
  /\ bill[o] # "none"
  /\ status' = [status EXCEPT ![o] = "Paid"]
  /\ UNCHANGED <<bill, paid>>

Void(o) ==
  /\ Busy(o)
  /\ bill[o] # "posted"
  /\ status' = [status EXCEPT ![o] = "Void"]
  /\ UNCHANGED <<bill, paid>>

CancelBill(o) ==
  /\ bill[o] = "posted"
  /\ bill' = [bill EXCEPT ![o] = "cancelled"]
  /\ paid' = paid \ {o}
  /\ UNCHANGED status

LifeNext ==
  \E o \in Orders :
    \/ Open(o) \/ Send(o) \/ Bill(o) \/ Collect(o) \/ Close(o) \/ Void(o)
    \/ CancelBill(o)

LifeSpec == LifeInit /\ [][LifeNext]_lifeVars
=============================================================================
