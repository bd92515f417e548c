----------------------------- MODULE ScheduledTasks -----------------------------
(***************************************************************************)
(* Scheduled assistant tasks: chat_ai/erpnext/scheduled_tasks.py.  Every   *)
(* scheduler tick releases tasks that are stuck and queues a job for those *)
(* that are due; a background worker runs the job and records how it went; *)
(* owners run a task now, or edit it in a form that holds a copy of the    *)
(* whole document.  Queued jobs may be lost and workers may die.           *)
(***************************************************************************)
EXTENDS Backend

CONSTANTS
  Plans,    \* AI Scheduled Tasks
  MaxTime,  \* bound on the clock
  MaxJobs,  \* bound on jobs of a task in the queue
  MaxEdits  \* bound on forms that are saved

ASSUME PlanAssumption == MaxTime \in Nat /\ None \notin Nat

MaxFailures == 3

VARIABLES
  plan,   \* the documents
  old,    \* plans whose `modified` is more than 45 minutes ago
  jobs,   \* number of jobs in the queue
  now,    \* which occurrence the clock has reached
  taken,  \* taken[p][n]: how often a tick queued the occurrence due at n
  edits

planVars == <<plan, old, jobs, now, taken, edits>>

Times == 0..MaxTime
PlanDoc == [enabled : BOOLEAN, state : {"Idle", "Queued", "Running"},
            next : Nat \cup {None}, fails : 0..MaxFailures + 1]

PlanTypeOK ==
  /\ plan \in [Plans -> PlanDoc]
  /\ old \in SUBSET Plans
  /\ jobs \in [Plans -> Nat]
  /\ now \in Nat

PlanInit ==
  /\ plan = [p \in Plans |-> [enabled |-> TRUE, state |-> "Idle", next |-> 1, fails |-> 0]]
  /\ old = {}
  /\ jobs = [p \in Plans |-> 0]
  /\ now = 0
  /\ taken = [p \in Plans |-> [n \in Times |-> 0]]
  /\ edits = 0

\* Faulty: the occurrence that is due stays due.
NextRunSame(after) == after

\* next_run_after: the first occurrence strictly after `after`.
NextRun(after) == after + 1

PassTime ==
  /\ now < MaxTime
  /\ now' = now + 1
  /\ UNCHANGED <<call, stale, plan, old, jobs, taken, edits>>

Runs(r, p) == call[r].op \in {"start", "run"} /\ call[r].p = p

\* A job is killed after 15 minutes, so a plan that is being run is not old.
Age(p) ==
  /\ plan[p].state # "Idle" /\ p \notin old
  /\ ~ \E r \in Requests : Runs(r, p)
  /\ old' = old \cup {p}
  /\ UNCHANGED <<call, stale, plan, jobs, now, taken, edits>>

-----------------------------------------------------------------------------
(* Ticks: run_due, one transaction.                                        *)

\* Faulty: nothing looks after stuck tasks.
LoadTickOnly(r) ==
  /\ Load(r, [op |-> "tick", now |-> now, due |->
       {p \in Plans : /\ plan[p].enabled /\ plan[p].next # None /\ plan[p].next <= now
                      /\ plan[p].state = "Idle"}])
  /\ UNCHANGED <<plan, old, jobs, now, taken, edits>>

\* _release_stuck leaves `modified` alone; then the listing of what is due.
LoadTick(r) ==
  /\ plan' = [p \in Plans |->
                IF p \in old THEN [plan[p] EXCEPT !.state = "Idle"] ELSE plan[p]]
  /\ old' = {}
  /\ Load(r, [op |-> "tick", now |-> now, due |->
       {p \in Plans : /\ plan[p].enabled /\ plan[p].next # None /\ plan[p].next <= now
                      /\ plan[p].state = "Idle" \/ p \in old}])
  /\ UNCHANGED <<jobs, now, taken, edits>>

\* The UPDATE of _claim looks at run_state only, as it is now.
Claimable(r, p) ==
  /\ plan[p].state = "Idle"
  /\ SnapshotIsolation => Fresh(r, p)

ClaimableQueued(r, p) == SnapshotIsolation => Fresh(r, p)

\* The tick commits its claims, all or those it made before an error.
Tick(r) ==
  /\ call[r].op = "tick"
  /\ \E claimed \in SUBSET {p \in call[r].due : Claimable(r, p) /\ jobs[p] < MaxJobs} :
       /\ plan' = [p \in Plans |->
            IF p \in claimed
              THEN [plan[p] EXCEPT !.state = "Queued", !.next = NextRun(call[r].now)]
              ELSE plan[p]]
       /\ old' = old \ claimed
       /\ jobs' = [p \in Plans |-> IF p \in claimed THEN jobs[p] + 1 ELSE jobs[p]]
       /\ taken' = [p \in Plans |->
            IF p \in claimed /\ plan[p].next \in Times
              THEN [taken[p] EXCEPT ![plan[p].next] = @ + 1] ELSE taken[p]]
       /\ Done(r, claimed)
  /\ UNCHANGED <<now, edits>>

\* run_now: a claim that writes back the next_run it loaded.
LoadRunNow(r, p) ==
  /\ Load(r, [op |-> "now", p |-> p, next |-> plan[p].next])
  /\ UNCHANGED <<plan, old, jobs, now, taken, edits>>

RunNow(r) ==
  /\ call[r].op = "now"
  /\ LET p == call[r].p
     IN /\ Claimable(r, p) /\ jobs[p] < MaxJobs
        /\ plan' = [plan EXCEPT ![p].state = "Queued", ![p].next = call[r].next]
        /\ old' = old \ {p}
        /\ jobs' = [jobs EXCEPT ![p] = @ + 1]
        /\ Done(r, {p})
  /\ UNCHANGED <<now, taken, edits>>

-----------------------------------------------------------------------------
(* Jobs: execute.                                                          *)

\* A worker takes a job, which it drops unless the plan is Queued.
TakeJob(r, p) ==
  /\ jobs[p] > 0
  /\ jobs' = [jobs EXCEPT ![p] = @ - 1]
  /\ IF plan[p].state = "Queued"
       THEN Load(r, [op |-> "start", p |-> p, fails |-> plan[p].fails])
       ELSE call[r] = Idle /\ UNCHANGED <<call, stale>>
  /\ UNCHANGED <<plan, old, now, taken, edits>>

LoseJob(p) ==
  /\ jobs[p] > 0
  /\ jobs' = [jobs EXCEPT ![p] = @ - 1]
  /\ UNCHANGED <<call, stale, plan, old, now, taken, edits>>

StartRun(r) ==
  /\ call[r].op = "start"
  /\ LET p == call[r].p
     IN /\ SnapshotIsolation => Fresh(r, p)
        /\ plan' = [plan EXCEPT ![p].state = "Running"]
        /\ old' = old \ {p}
        /\ Commit(r, [call[r] EXCEPT !.op = "run"], {p})
  /\ UNCHANGED <<jobs, now, taken, edits>>

\* Faulty: a failure leaves a state nothing else knows.
RecordFailed(r, failed) ==
  /\ call[r].op = "run"
  /\ plan' = [plan EXCEPT ![call[r].p].state = IF failed THEN "Failed" ELSE "Idle"]
  /\ Done(r, {})
  /\ UNCHANGED <<old, jobs, now, taken, edits>>

\* Faulty: failures are counted and nothing is switched off.
RecordKeeps(r, failed) ==
  /\ call[r].op = "run"
  /\ LET p == call[r].p
     IN /\ plan' = [plan EXCEPT ![p].state = "Idle",
                      ![p].fails = IF failed /\ @ < 3 THEN @ + 1 ELSE 0]
        /\ old' = old \ {p}
  /\ Done(r, {})
  /\ UNCHANGED <<jobs, now, taken, edits>>

\* _record: set_value leaves `modified` alone and counts failures on from
\* what the job loaded.
Record(r, failed) ==
  /\ call[r].op = "run"
  /\ failed => call[r].fails <= MaxFailures  \* a bound on runs of a task that is off
  /\ LET p == call[r].p
         fails == IF failed THEN call[r].fails + 1 ELSE 0
         off == fails >= MaxFailures
     IN /\ plan' = [plan EXCEPT ![p] =
             [enabled |-> @.enabled /\ ~off, state |-> "Idle", fails |-> fails,
              next |-> IF off THEN None ELSE @.next]]
        /\ old' = old \ {p}
  /\ Done(r, {})
  /\ UNCHANGED <<jobs, now, taken, edits>>

\* A worker dies, a request fails.
GiveUpPlan(r) ==
  /\ call[r] # Idle
  /\ Done(r, {})
  /\ UNCHANGED <<plan, old, jobs, now, taken, edits>>

-----------------------------------------------------------------------------
(* The form of a task.                                                     *)

LoadForm(r, p) ==
  /\ Load(r, [op |-> "form", p |-> p, doc |-> plan[p]])
  /\ UNCHANGED <<plan, old, jobs, now, taken, edits>>

\* validate: for a task that is on, a change of the schedule, whether of `enabled` or
\* of its days and times (`moved`), is a fresh start.  The rest of the form is saved
\* as it was loaded.
SaveForm(r, on, moved) ==
  /\ call[r].op = "form"
  /\ LET p == call[r].p
         doc == call[r].doc
         fresh == on /\ (moved \/ ~plan[p].enabled)
     IN /\ Fresh(r, p)
        /\ plan' = [plan EXCEPT ![p] =
             [enabled |-> on, state |-> doc.state,
              fails |-> IF fresh THEN 0 ELSE doc.fails,
              next |-> IF ~on THEN None ELSE IF fresh THEN NextRun(now) ELSE doc.next]]
        /\ old' = old \ {p}
        /\ Done(r, {p})
  /\ edits < MaxEdits
  /\ edits' = edits + 1
  /\ UNCHANGED <<jobs, now, taken>>

PlanNext ==
  \/ PassTime
  \/ \E p \in Plans : Age(p) \/ LoseJob(p)
  \/ \E r \in Requests :
       \/ LoadTick(r) \/ Tick(r) \/ RunNow(r) \/ StartRun(r) \/ GiveUpPlan(r)
       \/ \E failed \in BOOLEAN : Record(r, failed)
       \/ \E on, moved \in BOOLEAN : SaveForm(r, on, moved)
       \/ \E p \in Plans : LoadRunNow(r, p) \/ TakeJob(r, p) \/ LoadForm(r, p)

PlanSpec == BackendInit /\ PlanInit /\ [][PlanNext]_<<backendVars, planVars>>

\* Ticks go on for ever and are not kept out by other requests, time passes,
\* and every request comes to an end.
PlanFairness ==
  /\ \A p \in Plans : WF_<<backendVars, planVars>>(Age(p))
  /\ \A r \in Requests : WF_<<backendVars, planVars>>(GiveUpPlan(r))
  /\ SF_<<backendVars, planVars>>(\E r \in Requests : LoadTick(r))

FairPlanSpec == PlanSpec /\ PlanFairness

-----------------------------------------------------------------------------
(* Properties.                                                             *)

\* No two ticks queue the same occurrence, however late their listing is
\* claimed (the first lines of scheduled_tasks.py).
OccurrenceOnce == \A p \in Plans, n \in Times : taken[p][n] <= 1

\* A task that is on has failed fewer than three times in a row by its own
\* count, whichever copies of it were saved in between (_record).
FailingPlanIsOff == \A p \in Plans : plan[p].enabled => plan[p].fails < MaxFailures

\* A lost job, a dead worker or a stale form never blocks a task for good
\* (_release_stuck).
StuckPlanIsReleased ==
  \A p \in Plans : plan[p].state # "Idle" ~> plan[p].state = "Idle"
=============================================================================
