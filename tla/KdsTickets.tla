------------------------------ MODULE KdsTickets ------------------------------
(***************************************************************************)
(* Kitchen display: ZG KDS Tickets that cooks advance and recall one by    *)
(* one or serve station by station (api/v1/resto_pos/kds_tickets.py).      *)
(***************************************************************************)
EXTENDS Backend, Sequences, SequencesExt

CONSTANTS Tickets, Stations, StationOf

ASSUME KdsAssumption == StationOf \in [Tickets -> Stations]

VARIABLE ticket  \* status of each ticket

kdsVars == <<ticket>>

\* _STATUS_FLOW
Flow == <<"Queued", "Preparing", "Ready", "Served">>

At(status) == CHOOSE i \in DOMAIN Flow : Flow[i] = status

KdsTypeOK == ticket \in [Tickets -> ToSet(Flow)]

KdsInit == ticket = [t \in Tickets |-> "Queued"]

\* advance and recall, with by = 1 and by = -1.
LoadTicket(r, t, by) ==
  /\ At(ticket[t]) + by \in DOMAIN Flow
  /\ Load(r, [op |-> "move", t |-> t, to |-> Flow[At(ticket[t]) + by]])
  /\ UNCHANGED ticket

SaveTicket(r) ==
  /\ call[r].op = "move"
  /\ Fresh(r, call[r].t)
  /\ ticket' = [ticket EXCEPT ![call[r].t] = call[r].to]
  /\ Done(r, {call[r].t})

\* bump_station lists what is ready ...
LoadBump(r, s) ==
  /\ Load(r, [op |-> "bump", s |-> s,
              names |-> {t \in Tickets : StationOf[t] = s /\ ticket[t] = "Ready"}])
  /\ UNCHANGED ticket

\* Faulty: the tickets are written over whatever was done to them.
BumpBlind(r) ==
  /\ call[r].op = "bump"
  /\ ticket' = [t \in Tickets |-> IF t \in call[r].names THEN "Served" ELSE ticket[t]]
  /\ Done(r, call[r].names)

\* ... and writes it with no look at its status.
Bump(r) ==
  /\ call[r].op = "bump"
  /\ SnapshotIsolation => \A t \in call[r].names : Fresh(r, t)
  /\ ticket' = [t \in Tickets |-> IF t \in call[r].names THEN "Served" ELSE ticket[t]]
  /\ Done(r, call[r].names)

GiveUpKds(r) == call[r] # Idle /\ Done(r, {}) /\ UNCHANGED ticket

KdsNext ==
  \E r \in Requests :
    \/ SaveTicket(r) \/ Bump(r) \/ GiveUpKds(r)
    \/ \E t \in Tickets, by \in {-1, 1} : LoadTicket(r, t, by)
    \/ \E s \in Stations : LoadBump(r, s)

KdsSpec == BackendInit /\ KdsInit /\ [][KdsNext]_<<backendVars, kdsVars>>

-----------------------------------------------------------------------------
(* Properties.                                                             *)

\* A dish takes one step at a time, whoever else moves its ticket, and is
\* served only from Ready: a bump that listed it before it was recalled does
\* not serve it, as long as the database refuses writes to rows that changed
\* since the snapshot (bump_station).
OneStepAtATime ==
  [][\A t \in Tickets : ticket'[t] # ticket[t] =>
       At(ticket'[t]) - At(ticket[t]) \in {-1, 1}]_ticket
=============================================================================
