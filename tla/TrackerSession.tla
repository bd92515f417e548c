----------------------------- MODULE TrackerSession -----------------------------
(***************************************************************************)
(* Task management: the live timers of workers (services/activity.py), the *)
(* lifecycle of the tasks they work on (services/review.py, assign.py) and *)
(* the time logs that stopped timers leave on the draft Timesheet of their *)
(* user.  A call the service refuses on what it loads has no step: Load    *)
(* actions take the ones that go on to write.                              *)
(***************************************************************************)
EXTENDS Backend

CONSTANTS
  Users,      \* users with an active Employee
  Admin,      \* a System Manager
  Below,      \* Below[u]: the users under u in the reports_to tree
  Tops,       \* users with the top Tracker role
  Careful,    \* users whose client waits for an answer before the next call
  Tasks,
  Sessions    \* names for Tracker Activity Sessions

ASSUME TrackerAssumption ==
  /\ Below \in [Users -> SUBSET Users]
  /\ Tops \subseteq Users /\ Careful \subseteq Users
  /\ Admin \notin Users
  /\ None \notin Sessions \cup Tasks
  /\ Sessions \cap Users = {} /\ Sessions \cap Tasks = {} /\ Tasks \cap Users = {}

VARIABLES
  session,   \* Tracker Activity Sessions; None when the name is free
  stage,     \* status of each ERPNext Task
  assignees, \* its _assign
  billed     \* number of time logs of each session, on its user's Timesheet

trackerVars == <<session, stage, assignees, billed>>

\* long: 0.01 hours or more.  sheet: its `timesheet` is set.
SessionDoc == [user : Users, task : Tasks, long : BOOLEAN, sheet : BOOLEAN,
               status : {"Running", "Paused", "Stopped"}]

ASSUME SessionAssumption == None \notin SessionDoc

Stages == {"Open", "Working", "Pending Review", "Completed"}

TrackerTypeOK ==
  /\ session \in [Sessions -> SessionDoc \cup {None}]
  /\ stage \in [Tasks -> Stages]
  /\ assignees \in [Tasks -> SUBSET Users]
  /\ billed \in [Sessions -> Nat]

TrackerInit ==
  /\ session = [s \in Sessions |-> None]
  /\ stage = [t \in Tasks |-> "Open"]
  /\ assignees = [t \in Tasks |-> {}]
  /\ billed = [s \in Sessions |-> 0]

Of(u) == {s \in Sessions : session[s] # None /\ session[s].user = u}
Running(u) == {s \in Of(u) : session[s].status = "Running"}
ActiveSessions(u) == {s \in Of(u) : session[s].status # "Stopped"}

\* A careful client has no other call under way.
MayCall(u) ==
  u \in Careful => ~ \E q \in Requests : call[q] # Idle /\ call[q].user = u

-----------------------------------------------------------------------------
(* Timers.                                                                 *)

\* mark_working_on_start: u may start a timer on t.
Startable(u, t) == u \in assignees[t] /\ stage[t] \in {"Open", "Working"}

StartCall(u, t) == [op |-> "start", user |-> u, task |-> t,
                    first |-> stage[t] = "Open"]

\* Faulty: nothing looks for a timer that is not stopped.
LoadStartAnyway(r, u, t) ==
  /\ MayCall(u)
  /\ Startable(u, t)
  /\ Load(r, StartCall(u, t))
  /\ UNCHANGED <<session, stage, assignees, billed>>

LoadStart(r, u, t) ==
  /\ MayCall(u)
  /\ ActiveSessions(u) = {}
  /\ Startable(u, t)
  /\ Load(r, StartCall(u, t))
  /\ UNCHANGED <<session, stage, assignees, billed>>

\* The first timer on a task saves the task as Working.
Start(r) ==
  /\ call[r].op = "start"
  /\ LET c == call[r]
     IN /\ c.first => Fresh(r, c.task)
        /\ stage' = IF c.first THEN [stage EXCEPT ![c.task] = "Working"] ELSE stage
        /\ \E s \in Sessions :
             /\ session[s] = None
             /\ session' = [session EXCEPT ![s] =
                  [user |-> c.user, task |-> c.task, long |-> FALSE,
                   sheet |-> FALSE, status |-> "Running"]]
        /\ Done(r, IF c.first THEN {c.task} ELSE {})
  /\ UNCHANGED <<assignees, billed>>

\* A start on the task of a paused timer resumes it, with no look at the task.
LoadResume(r, u, s) ==
  /\ MayCall(u)
  /\ s \in Of(u)
  /\ session[s].status = "Paused"
  /\ Running(u) = {}
  /\ Load(r, [op |-> "resume", user |-> u, s |-> s])
  /\ UNCHANGED <<session, stage, assignees, billed>>

LoadPause(r, u, s) ==
  /\ MayCall(u)
  /\ s \in Running(u)
  /\ Load(r, [op |-> "pause", user |-> u, s |-> s])
  /\ UNCHANGED <<session, stage, assignees, billed>>

\* pause_session and resume_session.
Turn(r) ==
  /\ call[r].op \in {"pause", "resume"}
  /\ LET s == call[r].s
     IN /\ Fresh(r, s)
        /\ session' = [session EXCEPT ![s].status =
                         IF call[r].op = "pause" THEN "Paused" ELSE "Running"]
        /\ Done(r, {s})
  /\ UNCHANGED <<stage, assignees, billed>>

\* u stops s, for good or to start a timer on task `next`.  One that is too
\* short is refused unless it has its time log already.
LoadStop(r, u, s, next) ==
  /\ MayCall(u)
  /\ session[s] # None
  /\ u \in {session[s].user, Admin}
  /\ next # None =>
       /\ s \in ActiveSessions(u) /\ session[s].status = "Paused"
       /\ session[s].task # next
  /\ session[s].long \/ session[s].sheet
  /\ Load(r, [op |-> "stop", user |-> u, s |-> s, next |-> next, logs |-> billed])
  /\ UNCHANGED <<session, stage, assignees, billed>>

\* _flush_to_timesheet: the log goes to the draft Timesheet of the owner,
\* which is saved as it was loaded, or to a new one.
Flushed(u, s, logs) ==
  IF \E x \in Of(u) : logs[x] > 0
    THEN [x \in Sessions |->
            IF x = s THEN logs[x] + 1 ELSE IF x \in Of(u) THEN logs[x] ELSE billed[x]]
    ELSE [billed EXCEPT ![s] = @ + 1]

\* Faulty: the Timesheet is written whatever became of it since the load.
StopBlindSheet(r) ==
  /\ call[r].op = "stop"
  /\ LET c == call[r]
         s == c.s
         u == session[s].user
     IN /\ Fresh(r, s)
        /\ session' = [session EXCEPT ![s].status = "Stopped", ![s].sheet = TRUE]
        /\ billed' = IF session[s].sheet THEN billed ELSE Flushed(u, s, c.logs)
        /\ Commit(r, Idle, {s, u})
  /\ UNCHANGED <<stage, assignees>>

\* The Timesheet of a user goes by the user's name.
Stop(r) ==
  /\ call[r].op = "stop"
  /\ LET c == call[r]
         s == c.s
         u == session[s].user
     IN /\ Fresh(r, s)
        /\ session' = [session EXCEPT ![s].status = "Stopped", ![s].sheet = TRUE]
        /\ IF session[s].sheet
             THEN UNCHANGED billed
             ELSE /\ (\E x \in Of(u) : c.logs[x] > 0) => Fresh(r, u)
                  /\ billed' = Flushed(u, s, c.logs)
        /\ Commit(r, IF c.next = None THEN Idle
                     ELSE [op |-> "next", user |-> c.user, task |-> c.next],
                  IF session[s].sheet THEN {s} ELSE {s, u})
  /\ UNCHANGED <<stage, assignees>>

\* start_session goes on after it has stopped the paused timer.
StartNext(r) ==
  /\ call[r].op = "next"
  /\ LET c == call[r]
     IN /\ Startable(c.user, c.task)
        /\ Commit(r, StartCall(c.user, c.task), {})
  /\ UNCHANGED <<session, stage, assignees, billed>>

\* A running timer reaches the shortest time that can be billed.
Pass(s) ==
  /\ session[s] # None
  /\ session[s].status = "Running" /\ ~session[s].long
  /\ session' = [session EXCEPT ![s].long = TRUE]
  /\ UNCHANGED <<call, stale, stage, assignees, billed>>

-----------------------------------------------------------------------------
(* Tasks.                                                                  *)

\* assign_task writes _assign and leaves `modified` alone.
Assign(u, v, t) ==
  /\ v \in Below[u]
  /\ assignees' = [assignees EXCEPT ![t] = @ \cup {v}]
  /\ UNCHANGED <<call, stale, session, stage, billed>>

Works(u, t) == u \in assignees[t] \cup {Admin}

\* _can_review_task.
Reviews(u, t) ==
  \/ u \in Tops \cup {Admin}
  \/ u \in Users /\ Below[u] # {} /\
       (assignees[t] = {} \/ \E a \in assignees[t] \ {u} : a \in Below[u])

\* What each call makes of a task.
To == [set_in_progress |-> "Working", submit_for_review |-> "Pending Review",
       approve |-> "Completed", rework |-> "Working"]

LoadMove(r, u, op, t) ==
  /\ MayCall(u)
  /\ CASE op = "set_in_progress" ->
            stage[t] = "Open" /\ assignees[t] # {} /\ Works(u, t)
       [] op = "submit_for_review" -> stage[t] = "Working" /\ Works(u, t)
       [] OTHER -> stage[t] = "Pending Review" /\ Reviews(u, t)
  /\ Load(r, [op |-> op, user |-> u, task |-> t])
  /\ UNCHANGED <<session, stage, assignees, billed>>

\* Faulty: set_value instead of a save.
MoveBlind(r) ==
  /\ call[r].op \in DOMAIN To
  /\ LET t == call[r].task
     IN stage' = [stage EXCEPT ![t] = To[call[r].op]] /\ Done(r, {t})
  /\ UNCHANGED <<session, assignees, billed>>

Move(r) ==
  /\ call[r].op \in DOMAIN To
  /\ LET t == call[r].task
     IN /\ Fresh(r, t)
        /\ stage' = [stage EXCEPT ![t] = To[call[r].op]]
        /\ Done(r, {t})
  /\ UNCHANGED <<session, assignees, billed>>

\* Whatever is under way may be refused, or its worker die.
GiveUpTracker(r) ==
  /\ call[r] # Idle
  /\ Done(r, {})
  /\ UNCHANGED <<session, stage, assignees, billed>>

TrackerNext ==
  \/ \E r \in Requests :
       \/ Start(r) \/ Turn(r) \/ Stop(r) \/ StartNext(r) \/ Move(r)
       \/ GiveUpTracker(r)
       \/ \E u \in Users \cup {Admin}, s \in Sessions :
            \/ LoadResume(r, u, s) \/ LoadPause(r, u, s)
            \/ \E next \in Tasks \cup {None} : LoadStop(r, u, s, next)
       \/ \E u \in Users, t \in Tasks : LoadStart(r, u, t)
       \/ \E u \in Users \cup {Admin}, t \in Tasks, op \in DOMAIN To :
            LoadMove(r, u, op, t)
  \/ \E s \in Sessions : Pass(s)
  \/ \E u, v \in Users, t \in Tasks : Assign(u, v, t)

TrackerSpec == BackendInit /\ TrackerInit /\ [][TrackerNext]_<<backendVars, trackerVars>>

-----------------------------------------------------------------------------
(* Properties.                                                             *)

\* A stopped timer has exactly one time log and any other none, however often
\* and by however many it is stopped, and whatever else saves the Timesheet
\* (_flush_to_timesheet).
StoppedOnceBilled ==
  \A s \in Sessions :
    /\ billed[s] = (IF session[s] # None /\ session[s].status = "Stopped" THEN 1 ELSE 0)
    /\ session[s] # None => (session[s].sheet <=> session[s].status = "Stopped")

\* A user who makes one call at a time has at most one timer that is not
\* stopped, although others may stop it meanwhile (start_session).  Two starts
\* at once may both find none: the service locks nothing.
SingleActive == \A u \in Careful : Cardinality(ActiveSessions(u)) <= 1

\* A task goes through its lifecycle one step at a time, and a Completed one
\* stays so, whoever else is about to save it (review.py).
TaskLife ==
  [][\A t \in Tasks : stage'[t] # stage[t] =>
       <<stage[t], stage'[t]>> \in
         {<<"Open", "Working">>, <<"Working", "Pending Review">>,
          <<"Pending Review", "Working">>, <<"Pending Review", "Completed">>}]_stage
=============================================================================
