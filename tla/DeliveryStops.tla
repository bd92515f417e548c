----------------------------- MODULE DeliveryStops -----------------------------
(***************************************************************************)
(* Courier deliveries: api/v1/delivery/stops.py.  Dispatchers create and   *)
(* (re)assign delivery stops, couriers move their own stops through the    *)
(* driver workflow, and each request also keeps the status and the score   *)
(* of the courier (a ZG Delivery Boy) up to date.                          *)
(*                                                                         *)
(* A request is one database transaction in two steps: it loads, which     *)
(* takes the snapshot all its reads see, and it saves and commits.         *)
(* Document.save() of the stop is refused when its `modified` moved since  *)
(* the load; db.set_value on the courier checks nothing.  With             *)
(* SnapshotIsolation both are refused (error 1020) on a row that another   *)
(* transaction committed after the snapshot.  Every refusal ends the       *)
(* request without writing: EndRequest.                                    *)
(***************************************************************************)
EXTENDS Naturals, FiniteSets

CONSTANTS
  Stops,             \* names of ZG Delivery Stop documents
  Boys,              \* names of ZG Delivery Boy documents, and their users
  Manager,           \* a user with one of _STOP_MANAGER_ROLES
  Desk,              \* any other user who may write stops
  Requests,          \* concurrent HTTP requests
  SnapshotIsolation, \* innodb_snapshot_isolation is ON
  None

ASSUME BooleanAssumption == SnapshotIsolation \in BOOLEAN
ASSUME NamesAssumption ==
  /\ None \notin Stops \cup Boys \cup Nat
  /\ Stops \cap Boys = {}
  /\ Manager \notin Boys \cup {Desk, None}
  /\ Desk \notin Boys \cup {None}

VARIABLES
  stop,    \* ZG Delivery Stop rows, committed
  boy,     \* ZG Delivery Boy rows, committed
  form,    \* the score on a courier's Desk form that may still be saved, or
           \* None: the courier's `modified` has moved since it was opened
  job,     \* what each request was asked to do; op "none" when it is idle
  doc,     \* the stop a request has loaded
  view,    \* what its snapshot says of the courier it concerns
  bumped,  \* stops whose `modified` moved since the request's load
  touched  \* rows others committed since its snapshot

vars == <<stop, boy, form, job, doc, view, bumped, touched>>

-----------------------------------------------------------------------------
Active == {"Assigned", "Accepted", "Reached Restaurant", "Picked Up",
           "Out For Delivery"}
Terminal == {"Delivered", "Failed", "Rejected", "Cancelled", "Returned"}
Status == Active \cup Terminal

\* _TRANSITIONS: the driver workflow.
Transitions ==
  [s \in Status |->
     CASE s = "Assigned" -> {"Accepted", "Rejected", "Cancelled"}
       [] s = "Accepted" -> {"Reached Restaurant", "Picked Up",
                             "Out For Delivery", "Failed", "Cancelled"}
       [] s = "Reached Restaurant" -> {"Picked Up", "Failed", "Cancelled"}
       [] s = "Picked Up" -> {"Out For Delivery", "Failed", "Cancelled",
                              "Returned"}
       [] s = "Out For Delivery" -> {"Delivered", "Failed", "Cancelled",
                                     "Returned"}
       [] OTHER -> {}]

StopDoc == [status : Status \cup {"Absent"}, boy : Boys \cup {None}]
NoStop == [status |-> "Absent", boy |-> None]

BoyStatus == {"Available", "On Route", "Off Duty"}
\* points is always 10 * deliveries_done: one db.set_value writes both.
BoyDoc == [status : BoyStatus, done : Nat]

Job == [op : {"none", "create", "assign", "apply"}, s : Stops \cup {None},
        b : Boys \cup {None}, user : Boys \cup {Manager, Desk, None}]
NoJob == [op |-> "none", s |-> None, b |-> None, user |-> None]

\* busy: the courier has active stops other than the one concerned.
View == [status : BoyStatus, done : Nat, busy : BOOLEAN]
NoView == [status |-> "Available", done |-> 0, busy |-> FALSE]

TypeOK ==
  /\ stop \in [Stops -> StopDoc]
  /\ boy \in [Boys -> BoyDoc]
  /\ form \in [Boys -> Nat \cup {None}]
  /\ job \in [Requests -> Job]
  /\ doc \in [Requests -> StopDoc]
  /\ view \in [Requests -> View]
  /\ bumped \in [Requests -> SUBSET Stops]
  /\ touched \in [Requests -> SUBSET (Stops \cup Boys)]

Init ==
  /\ stop = [s \in Stops |-> NoStop]
  /\ boy = [b \in Boys |-> [status |-> "Available", done |-> 0]]
  /\ form = [b \in Boys |-> None]
  /\ job = [r \in Requests |-> NoJob]
  /\ doc = [r \in Requests |-> NoStop]
  /\ view = [r \in Requests |-> NoView]
  /\ bumped = [r \in Requests |-> {}]
  /\ touched = [r \in Requests |-> {}]

-----------------------------------------------------------------------------
(* Transactions.                                                           *)

ActiveStops(b) == {s \in Stops : stop[s].boy = b /\ stop[s].status \in Active}

\* What a snapshot taken now says of courier b, for a request about stop s.
Seen(b, s) ==
  IF b = None THEN NoView
  ELSE [status |-> boy[b].status, done |-> boy[b].done,
        busy |-> ActiveStops(b) \ {s} # {}]

Arrive(r, j, d) ==
  /\ job[r].op = "none"
  /\ job' = [job EXCEPT ![r] = j]
  /\ doc' = [doc EXCEPT ![r] = d]
  /\ view' = [view EXCEPT ![r] = Seen(j.b, j.s)]
  /\ UNCHANGED <<stop, boy, form, bumped, touched>>

\* The request of r is over; it has written the rows `written`.
Finish(r, written) ==
  /\ job' = [job EXCEPT ![r] = NoJob]
  /\ doc' = [doc EXCEPT ![r] = NoStop]
  /\ view' = [view EXCEPT ![r] = NoView]
  /\ bumped' = [q \in Requests |->
                  IF q = r \/ job[q].op = "none" THEN {}
                  ELSE bumped[q] \cup (written \cap {job[q].s})]
  /\ touched' = [q \in Requests |->
                   IF q = r \/ job[q].op = "none" \/ ~SnapshotIsolation THEN {}
                   ELSE touched[q] \cup (written \cap {job[q].s, job[q].b})]

NoConflict(r, d) == d \notin touched[r]

\* Document.save() of stop s by r is accepted.
CanSave(r, s) == s \notin bumped[r] /\ NoConflict(r, s)

EndRequest(r) ==
  /\ job[r].op # "none"
  /\ Finish(r, {})
  /\ UNCHANGED <<stop, boy, form>>

\* r saves stop s as d and, when `writes`, courier b as c, and commits; `moves`
\* says whether the courier's `modified` moves with it.
Commit(r, s, d, writes, b, c, moves) ==
  /\ stop' = [stop EXCEPT ![s] = d]
  /\ writes => NoConflict(r, b)
  /\ boy' = IF writes THEN [boy EXCEPT ![b] = c] ELSE boy
  /\ form' = IF writes /\ moves THEN [form EXCEPT ![b] = None] ELSE form
  /\ Finish(r, IF writes THEN {s, b} ELSE {s})

\* _set_boy_on_route: only a courier who was Available when this was read.
CommitOnRoute(r, s, d) ==
  Commit(r, s, d, d.boy # None /\ view[r].status = "Available", d.boy,
         [boy[d.boy] EXCEPT !.status = "On Route"], TRUE)

\* Faulty: the courier is freed without counting his active stops.
CommitClosedFrees(r, s, d, award) ==
  Commit(r, s, d, d.boy # None, d.boy,
         [status |-> "Available",
          done |-> IF award THEN view[r].done + 1 ELSE boy[d.boy].done], TRUE)

\* _award_delivery_points (update_modified=False), then _maybe_free_boy: both
\* write what follows from what was read.
CommitClosed(r, s, d, award) ==
  Commit(r, s, d, d.boy # None /\ (award \/ ~view[r].busy), d.boy,
         [status |-> IF view[r].busy THEN boy[d.boy].status ELSE "Available",
          done |-> IF award THEN view[r].done + 1 ELSE boy[d.boy].done],
         ~view[r].busy)

-----------------------------------------------------------------------------
(* The API.                                                                *)

LoadCreate(r) ==
  \E b \in Boys \cup {None} :
    Arrive(r, [op |-> "create", s |-> None, b |-> b, user |-> Desk], NoStop)

\* Also called by give_to_delivery() of the Resto POS, with status Assigned.
\* A stop may be created in any status.
Create(r) ==
  /\ job[r].op = "create"
  /\ \E s \in Stops, x \in Status :
       LET d == [status |-> x, boy |-> job[r].b]
       IN /\ stop[s].status = "Absent"
          /\ IF x \in Active THEN CommitOnRoute(r, s, d)
             ELSE Commit(r, s, d, FALSE, None, None, FALSE)

\* Anyone but a courier may (re)assign a stop.
LoadAssign(r) ==
  \E s \in Stops, b \in Boys :
    /\ stop[s].status # "Absent"
    /\ Arrive(r, [op |-> "assign", s |-> s, b |-> b, user |-> Desk], stop[s])

\* Faulty: whatever its status, the stop starts over.
AssignReopens(r) ==
  /\ job[r].op = "assign"
  /\ CanSave(r, job[r].s)
  /\ CommitOnRoute(r, job[r].s, [status |-> "Assigned", boy |-> job[r].b])

\* The stop may be in any status; the courier it is taken from is left alone.
Assign(r) ==
  /\ job[r].op = "assign"
  /\ CanSave(r, job[r].s)
  /\ CommitOnRoute(r, job[r].s, [doc[r] EXCEPT !.boy = job[r].b])

\* A user may act on a stop: a manager, or the courier it is assigned to.
OwnsStop(user, d) == user = Manager \/ (user # None /\ user = d.boy)

LoadApply(r) ==
  \E s \in Stops, u \in Boys \cup {Manager} :
    /\ stop[s].status # "Absent"
    /\ OwnsStop(u, stop[s])
    /\ Arrive(r, [op |-> "apply", s |-> s, b |-> stop[s].boy, user |-> u],
              stop[s])

\* Faulty: points for every call that says Delivered, repeated ones too.
ApplyStatusAwards(r) ==
  LET s == job[r].s
      now == doc[r].status
  IN /\ job[r].op = "apply"
     /\ CanSave(r, s)
     /\ \E nxt \in {now} \cup Transitions[now] :
          LET d == [doc[r] EXCEPT !.status = nxt]
          IN IF nxt \in Active THEN CommitOnRoute(r, s, d)
             ELSE CommitClosed(r, s, d, nxt = "Delivered")

\* _apply_status, which also accepts the status the stop has.
ApplyStatus(r) ==
  LET s == job[r].s
      now == doc[r].status
  IN /\ job[r].op = "apply"
     /\ CanSave(r, s)
     /\ \E nxt \in {now} \cup Transitions[now] :
          LET d == [doc[r] EXCEPT !.status = nxt]
          IN IF nxt \in Active THEN CommitOnRoute(r, s, d)
             ELSE CommitClosed(r, s, d, nxt = "Delivered" /\ now # "Delivered")

\* A dispatcher opens a courier's form in Desk (of several forms at most one
\* more can be saved).
OpenForm(b) ==
  /\ form' = [form EXCEPT ![b] = boy[b].done]
  /\ UNCHANGED <<stop, boy, job, doc, view, bumped, touched>>

\* ... and saves it with a status of his choice: every column is written, the
\* score as it was when the form was opened.
SaveForm(b) ==
  /\ form[b] # None
  /\ \E x \in BoyStatus : boy' = [boy EXCEPT ![b] = [status |-> x, done |-> form[b]]]
  /\ form' = [form EXCEPT ![b] = None]
  /\ touched' = [q \in Requests |->
                   IF SnapshotIsolation /\ job[q].b = b
                     THEN touched[q] \cup {b} ELSE touched[q]]
  /\ UNCHANGED <<stop, job, doc, view, bumped>>

Next ==
  \/ \E r \in Requests :
       \/ LoadCreate(r) \/ Create(r) \/ LoadAssign(r) \/ Assign(r)
       \/ LoadApply(r) \/ ApplyStatus(r) \/ EndRequest(r)
  \/ \E b \in Boys : OpenForm(b) \/ SaveForm(b)

Spec == Init /\ [][Next]_vars

-----------------------------------------------------------------------------
(* Properties.                                                             *)

\* A stop that was delivered, failed, rejected, cancelled or returned stays
\* so: no request that loaded it earlier, a reassignment among them, opens it
\* again (_TRANSITIONS and the save's check of `modified`).
ClosedStopIsFinal ==
  [][\A s \in Stops :
       stop[s].status \in Terminal => stop'[s].status = stop[s].status]_vars

\* A courier changes the status of a stop only while it is assigned to him,
\* also when it is reassigned between the check and the save
\* (_assert_own_stop).
OnlyOwnStops ==
  [][\A r \in Requests :
       job[r].op = "apply" /\ job[r].user \in Boys /\ stop' # stop
         /\ job'[r].op = "none"
       => stop[job[r].s].boy = job[r].user]_vars

Earned(b) ==
  {s \in Stops : /\ stop[s].status \notin {"Absent", "Delivered"}
                 /\ stop'[s].status = "Delivered"
                 /\ stop'[s].boy = b}

\* What a request does to a courier's score is to add the points of exactly the
\* deliveries it completes, whatever was written between its read and its write
\* (_award_delivery_points).  A form that is saved in Desk puts the score it
\* shows back: an award in between does not move `modified` and is erased.
DeliveryIsRewarded ==
  [][\A b \in Boys :
       \/ boy'[b].done = boy[b].done + Cardinality(Earned(b))
       \/ job' = job /\ boy'[b].done = form[b]]_vars

-----------------------------------------------------------------------------
(* The inductive invariant behind ClosedStopIsFinal and OnlyOwnStops.      *)

\* As long as `modified` has not moved, the loaded stop is the stop.
CopyIsCurrent ==
  \A r \in Requests :
    job[r].op \in {"assign", "apply"} =>
      /\ job[r].s \in Stops
      /\ doc[r].status \in Status
      /\ job[r].s \notin bumped[r] => doc[r] = stop[job[r].s]

\* A courier at work on a stop was found to be its courier.
CheckedOwner ==
  \A r \in Requests :
    job[r].op = "apply" =>
      /\ job[r].b = doc[r].boy
      /\ OwnsStop(job[r].user, doc[r])

StopInv == TypeOK /\ CopyIsCurrent /\ CheckedOwner
=============================================================================
