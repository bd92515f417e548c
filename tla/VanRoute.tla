-------------------------------- MODULE VanRoute -------------------------------
(***************************************************************************)
(* The stops of a salesman's route (services/vansalex_service.py): stops   *)
(* are planned, put in another order by the app's route optimizer, edited, *)
(* visited, and linked to the sale made there.  Visits and edits save the  *)
(* whole document as it was loaded; the optimizer and the link write one   *)
(* column, the link without even touching `modified`.                      *)
(***************************************************************************)
EXTENDS Backend

CONSTANTS
  Stops,   \* client ids of stops
  Sales,   \* submitted invoices that name a stop as their trip
  MaxSeq   \* bound on the positions of the route

ASSUME RouteAssumption == MaxSeq \in Nat /\ None \notin Sales

VARIABLE stop  \* ZG Trip of each client id, or None

routeVars == stop

VisitStatus == {"Planned", "Checked In", "Completed", "Skipped"}

Rows == [seq : 1..MaxSeq, status : VisitStatus, sale : Sales \cup {None}]

RouteTypeOK == stop \in [Stops -> {None} \cup Rows]

RouteInit == stop = [t \in Stops |-> None]

Planned == {t \in Stops : stop[t] # None}

\* set_value changes one column; with snapshot isolation a transaction that saw
\* the row before loses, and a write that moves `modified` is seen by saves.
Unseen(t) == IF SnapshotIsolation THEN {t} ELSE {}

-----------------------------------------------------------------------------
\* The position is given, or one more than the highest of the day, which nothing
\* locks: two stops may end up with the same.
LoadTrip(r, t, seq) ==
  /\ t \notin Planned
  /\ Load(r, [op |-> "plan", trip |-> t,
              row |-> [seq |-> seq, status |-> "Planned", sale |-> None]])
  /\ UNCHANGED stop

\* create_trip: the loser of a race for the id answers with the winner's stop.
CreateTrip(r) ==
  LET t == call[r].trip
  IN  /\ call[r].op = "plan"
      /\ stop' = [stop EXCEPT ![t] = IF t \in Planned THEN @ ELSE call[r].row]
      /\ Done(r, {t} \ Planned)

\* update_visit and update_trip load the stop ...
LoadVisit(r, t, status) ==
  /\ t \in Planned
  /\ Load(r, [op |-> "visit", trip |-> t, row |-> [stop[t] EXCEPT !.status = status]])
  /\ UNCHANGED stop

LoadEdit(r, t, seq) ==
  /\ t \in Planned
  /\ Load(r, [op |-> "edit", trip |-> t, row |-> [stop[t] EXCEPT !.seq = seq]])
  /\ UNCHANGED stop

\* ... and save all of it, unless it changed in between.
SaveTrip(r) ==
  LET t == call[r].trip
  IN  /\ call[r].op \in {"visit", "edit"} /\ Fresh(r, t)
      /\ stop' = [stop EXCEPT ![t] = call[r].row]
      /\ Done(r, {t})

\* Faulty: whole stops are written, from the copy of the app.
ReorderWhole(r, order) ==
  /\ call[r] = Idle /\ DOMAIN order \subseteq Planned
  /\ stop' = [t \in Stops |->
       IF t \in DOMAIN order
         THEN [seq |-> order[t], status |-> "Planned", sale |-> None] ELSE stop[t]]
  /\ Done(r, DOMAIN order)

\* reorder_trips
ReorderTrips(r, order) ==
  /\ call[r] = Idle /\ DOMAIN order \subseteq Planned
  /\ stop' = [t \in Stops |->
       IF t \in DOMAIN order THEN [stop[t] EXCEPT !.seq = order[t]] ELSE stop[t]]
  /\ Done(r, DOMAIN order)

\* A sale names the stop: linked once, after the sale was committed.
LinkSale(r, t, s) ==
  /\ call[r] = Idle /\ t \in Planned
  /\ \A u \in Planned : stop[u].sale # s
  /\ stop' = [stop EXCEPT ![t].sale = s]
  /\ Done(r, Unseen(t))

GiveUpRoute(r) ==
  /\ call[r].op \in {"plan", "visit", "edit"}
  /\ Done(r, {})
  /\ UNCHANGED stop

RouteNext ==
  \E r \in Requests :
    \/ \E t \in Stops, seq \in 1..MaxSeq : LoadTrip(r, t, seq)
    \/ CreateTrip(r)
    \/ \E t \in Stops, status \in VisitStatus : LoadVisit(r, t, status)
    \/ \E t \in Stops, seq \in 1..MaxSeq : LoadEdit(r, t, seq)
    \/ SaveTrip(r)
    \/ \E some \in SUBSET Stops \ {{}} : \E order \in [some -> 1..MaxSeq] :
         ReorderTrips(r, order)
    \/ \E t \in Stops, s \in Sales : LinkSale(r, t, s)
    \/ GiveUpRoute(r)

RouteSpec == BackendInit /\ RouteInit /\ [][RouteNext]_<<backendVars, routeVars>>

-----------------------------------------------------------------------------
\* Only a visit changes the status of a stop, and a sale that was linked to it is
\* replaced by another at most: no edit, reordering or link made from an older
\* copy takes a check-in or a sale back (reorder_trips: "this can never disturb a
\* visit already in progress"; the link in create_order moves no `modified`).
VisitStands ==
  [][\A t \in Planned :
       /\ stop'[t].status # stop[t].status =>
            \E r \in Requests : call[r].op = "visit" /\ call[r].trip = t
                                  /\ call'[r] = Idle /\ stop'[t] = call[r].row
       /\ stop[t].sale # None => stop'[t].sale # None]_<<stop, call>>
=============================================================================
