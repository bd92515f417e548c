------------------------- MODULE BackOfficeProofs --------------------------
(***************************************************************************)
(* Proofs about the timers, the sync batches and the turns of a chat, for any *)
(* users, tasks, records, chats and requests, and about MCBackOffice as a  *)
(* whole: what is proved of its parts holds of their sum.                  *)
(***************************************************************************)
EXTENDS MCBackOffice, LedgerProofs

-----------------------------------------------------------------------------
(***************************************************************************)
(* TrackerSession: a stopped timer has one time log, and what a call found *)
(* and nobody saved since is still so.                                     *)
(***************************************************************************)

Callers == Users \cup {Admin}

Moves == {"set_in_progress", "submit_for_review", "approve", "rework"}

TimerCalls ==
  {Idle} \cup [op : {"start"}, user : Users, task : Tasks, first : BOOLEAN]
         \cup [op : {"next"}, user : Callers, task : Tasks]
         \cup [op : {"pause", "resume"}, user : Callers, s : Sessions]
         \cup [op : {"stop"}, user : Callers, s : Sessions, next : Tasks \cup {None},
               logs : [Sessions -> Nat]]
         \cup [op : Moves, user : Callers, task : Tasks]

\* The stage from which a call moves a task.
From(op) ==
  IF op = "set_in_progress" THEN "Open"
  ELSE IF op = "submit_for_review" THEN "Working" ELSE "Pending Review"

\* What r may rely on of its task, ...
TaskReady(r) ==
  /\ call[r].op = "start" /\ call[r].first /\ Fresh(r, call[r].task) =>
       stage[call[r].task] = "Open"
  /\ call[r].op \in Moves /\ Fresh(r, call[r].task) =>
       stage[call[r].task] = From(call[r].op)

\* ... of the timers of its user, ...
TimersReady(r) ==
  /\ call[r].op \in {"start", "next"} /\ call[r].user \in Careful =>
       ActiveSessions(call[r].user) = {}
  /\ call[r].op \in {"pause", "resume"} =>
       /\ session[call[r].s] # None
       /\ Fresh(r, call[r].s) => session[call[r].s].status # "Stopped"

\* ... and, to stop one, of the Timesheet it loaded.
SheetReady(r) ==
  call[r].op = "stop" =>
    /\ session[call[r].s] # None
    /\ Fresh(r, session[call[r].s].user) =>
         \A x \in Of(session[call[r].s].user) : call[r].logs[x] = billed[x]
    /\ \A x \in Sessions : session[x] = None => call[r].logs[x] = 0
    /\ call[r].next # None /\ Fresh(r, call[r].s) =>
         call[r].s \in ActiveSessions(call[r].user)

Prepared(r) == TaskReady(r) /\ TimersReady(r) /\ SheetReady(r)

OneActive == \A u \in Careful : \A s, t \in ActiveSessions(u) : s = t

OneCall ==
  \A q, r \in Requests :
    /\ call[q] # Idle /\ call[r] # Idle
    /\ call[q].user = call[r].user /\ call[q].user \in Careful
    => q = r

TrackerInv ==
  /\ TrackerTypeOK
  /\ call \in [Requests -> TimerCalls]
  /\ StoppedOnceBilled
  /\ OneActive
  /\ OneCall
  /\ \A r \in Requests : Prepared(r)

-----------------------------------------------------------------------------
\* The initial state satisfies the invariant.
LEMMA InitTracked == BackendInit /\ TrackerInit => TrackerInv
<1> SUFFICES ASSUME BackendInit, TrackerInit PROVE TrackerInv
  OBVIOUS
<1>1. \A r \in Requests : call[r] = Idle /\ call[r].op = "none"
  BY DEF BackendInit, Idle
<1>2. TrackerTypeOK
  BY DEF TrackerInit, TrackerTypeOK, Stages
<1>3. StoppedOnceBilled
  BY DEF TrackerInit, StoppedOnceBilled
<1>4. OneActive /\ OneCall
  BY <1>1 DEF OneActive, OneCall, ActiveSessions, Of, TrackerInit
<1>5. \A r \in Requests : Prepared(r)
  BY <1>1 DEF Prepared, TaskReady, TimersReady, SheetReady, Moves
<1>6. call \in [Requests -> TimerCalls]
  BY DEF BackendInit, TimerCalls
<1> QED BY <1>2, <1>3, <1>4, <1>5, <1>6 DEF TrackerInv

\* A request that only reads: it must be ready, and its user free to call.
LEMMA LoadKeepsTimers ==
  ASSUME TrackerInv, NEW r \in Requests, NEW c \in TimerCalls \ {Idle}, Load(r, c),
         UNCHANGED <<session, stage, assignees, billed>>,
         MayCall(c.user), Prepared(r)'
  PROVE  TrackerInv'
<1>1. call' = [call EXCEPT ![r] = c] /\ UNCHANGED stale /\ call[r] = Idle
  BY DEF Load
<1>2. call' \in [Requests -> TimerCalls]
  BY <1>1 DEF TrackerInv
<1>3. \A q \in Requests \ {r} : call'[q] = call[q]
  BY <1>1 DEF TrackerInv
<1>4. \A q \in Requests \ {r} : Prepared(q)'
  BY <1>1, <1>3 DEF TrackerInv, Prepared, TaskReady, TimersReady, SheetReady, Fresh,
     Of, ActiveSessions
<1>5. OneCall'
  BY <1>1, <1>2, <1>3 DEF TrackerInv, OneCall, MayCall
<1>6. TrackerTypeOK' /\ StoppedOnceBilled' /\ OneActive'
  BY DEF TrackerInv, TrackerTypeOK, StoppedOnceBilled, OneActive, ActiveSessions, Of
<1> QED BY <1>2, <1>4, <1>5, <1>6 DEF TrackerInv

\* A commit as the other requests see it.
LEMMA OthersKeepTimers ==
  ASSUME TrackerInv, NEW r \in Requests, NEW c \in TimerCalls, NEW saved,
         call[r] # Idle, Commit(r, c, saved), Prepared(r)',
         c # Idle => c.user = call[r].user,
         TrackerTypeOK', StoppedOnceBilled', OneActive',
         \A t \in Tasks : t \notin saved => stage'[t] = stage[t],
         \A s \in Sessions : session[s] # None =>
           /\ session'[s] # None
           /\ session'[s].user = session[s].user
           /\ s \notin saved => session'[s].status = session[s].status,
         \A s \in Sessions : session[s] = None /\ session'[s] # None =>
           session'[s].status # "Stopped",
         \A u \in Users : u \notin saved => \A x \in Of(u) : billed'[x] = billed[x],
         \A v \in Careful : v # call[r].user => ActiveSessions(v)' \subseteq ActiveSessions(v)
  PROVE  TrackerInv'
<1>1. call' = [call EXCEPT ![r] = c]
  BY DEF Commit
<1>2. call' \in [Requests -> TimerCalls]
  BY <1>1 DEF TrackerInv
<1>3. \A q \in Requests \ {r} :
        call'[q] = call[q] /\ (call[q] # Idle => stale'[q] = stale[q] \cup saved)
  BY DEF TrackerInv, Commit
<1>4. OneCall'
  BY <1>1, <1>2, <1>3 DEF TrackerInv, OneCall
<1>5. ASSUME NEW q \in Requests \ {r} PROVE Prepared(q)'
  <2>1. CASE call[q] = Idle
    BY <1>3, <2>1 DEF Prepared, TaskReady, TimersReady, SheetReady, Idle, Moves
  <2>2. CASE call[q] # Idle
    <3>1. call'[q] = call[q] /\ Prepared(q) /\ call[q] \in TimerCalls \ {Idle}
      BY <1>3, <2>2 DEF TrackerInv
    <3>2. \A d : Fresh(q, d)' => Fresh(q, d) /\ d \notin saved
      BY <1>3, <2>2 DEF Fresh
    <3>3. TaskReady(q)'
      <4>1. call[q].op \in Moves \cup {"start"} => call[q].task \in Tasks
        BY <3>1 DEF TimerCalls, Moves
      <4> QED BY <3>1, <3>2, <4>1 DEF Prepared, TaskReady
    <3>4. TimersReady(q)'
      <4>1. call[q].user = call[r].user => call[q].user \notin Careful
        BY <2>2 DEF TrackerInv, OneCall
      <4>2. call[q].op \in {"pause", "resume"} => call[q].s \in Sessions
        BY <3>1 DEF TimerCalls, Moves
      <4> QED BY <3>1, <3>2, <4>1, <4>2 DEF Prepared, TimersReady
    <3>5. SheetReady(q)'
      <4> SUFFICES ASSUME call[q].op = "stop" PROVE SheetReady(q)'
        BY <3>1 DEF SheetReady
      <4>1. PICK s \in Sessions : s = call[q].s /\ session[s] # None
        BY <3>1 DEF TimerCalls, Moves, Prepared, SheetReady
      <4>2. PICK u \in Users :
              u = session[s].user /\ session'[s] # None /\ session'[s].user = u
        BY <4>1 DEF TrackerInv, TrackerTypeOK, SessionDoc
      <4>3. ASSUME Fresh(q, u)', NEW x \in Of(u)'
            PROVE  call[q].logs[x] = billed'[x]
        <5>1. x \in Sessions /\ session'[x] # None /\ session'[x].user = u
          BY DEF Of
        <5>2. CASE session[x] # None
          <6>1. x \in Of(u)
            BY <5>1, <5>2 DEF Of
          <6> QED BY <3>1, <3>2, <4>1, <4>2, <4>3, <6>1 DEF Prepared, SheetReady
        <5>3. CASE session[x] = None
          <6>1. call[q].logs[x] = 0 /\ billed[x] = 0
            BY <3>1, <5>1, <5>3 DEF Prepared, SheetReady, TrackerInv, StoppedOnceBilled
          <6>2. billed'[x] = 0
            BY <5>1, <5>3 DEF StoppedOnceBilled
          <6> QED BY <6>1, <6>2
        <5> QED BY <5>2, <5>3
      <4>4. \A x \in Sessions : session'[x] = None => call[q].logs[x] = 0
        BY <3>1 DEF Prepared, SheetReady
      <4>5. call[q].next # None /\ Fresh(q, s)' => s \in ActiveSessions(call[q].user)'
        BY <3>1, <3>2, <4>1, <4>2 DEF Prepared, SheetReady, ActiveSessions, Of
      <4> QED BY <3>1, <4>1, <4>2, <4>3, <4>4, <4>5 DEF SheetReady
    <3> QED BY <3>3, <3>4, <3>5 DEF Prepared
  <2> QED BY <2>1, <2>2
<1> QED BY <1>2, <1>4, <1>5 DEF TrackerInv

-----------------------------------------------------------------------------
(* The steps.                                                              *)

LEMMA StartKeeps ==
  ASSUME TrackerInv, NEW r \in Requests, Start(r)
  PROVE  TrackerInv'
<1> DEFINE c == call[r]
           saved == IF c.first THEN {c.task} ELSE {}
<1>1. c \in [op : {"start"}, user : Users, task : Tasks, first : BOOLEAN]
  BY DEF Start, TrackerInv, TimerCalls, Idle, Moves
<1>2. PICK s \in Sessions :
        /\ session[s] = None
        /\ session' = [session EXCEPT ![s] =
             [user |-> c.user, task |-> c.task, long |-> FALSE,
              sheet |-> FALSE, status |-> "Running"]]
  BY DEF Start
<1>3. /\ stage' = IF c.first THEN [stage EXCEPT ![c.task] = "Working"] ELSE stage
      /\ UNCHANGED <<assignees, billed>> /\ Commit(r, Idle, saved)
  BY DEF Start, Done
<1>4. /\ session'[s] # None /\ session'[s].user = c.user
      /\ session'[s].status = "Running" /\ session'[s].sheet = FALSE
  <2>1. /\ session'[s] \in SessionDoc /\ session'[s].user = c.user
        /\ session'[s].status = "Running" /\ session'[s].sheet = FALSE
    BY <1>1, <1>2 DEF TrackerInv, TrackerTypeOK, SessionDoc
  <2> QED BY <2>1, SessionAssumption
<1>5. TrackerTypeOK'
  BY <1>1, <1>2, <1>3 DEF TrackerInv, TrackerTypeOK, SessionDoc, Stages
<1>6. StoppedOnceBilled'
  BY <1>2, <1>3, <1>4 DEF TrackerInv, TrackerTypeOK, StoppedOnceBilled
<1>7. \A v \in Users : ActiveSessions(v)' \subseteq
        ActiveSessions(v) \cup (IF v = c.user THEN {s} ELSE {})
  BY <1>2, <1>4 DEF TrackerInv, TrackerTypeOK, ActiveSessions, Of
<1>8. OneActive'
  BY <1>1, <1>7, TrackerAssumption
     DEF TrackerInv, OneActive, Prepared, TimersReady
<1>9. Prepared(r)'
  BY <1>3 DEF TrackerInv, Commit, Prepared, TaskReady, TimersReady, SheetReady, Idle, Moves
<1>10. \A t \in Tasks : t \notin saved => stage'[t] = stage[t]
  BY <1>1, <1>3 DEF TrackerInv, TrackerTypeOK
<1>11. \A x \in Sessions : session[x] # None => x # s /\ session'[x] = session[x]
  BY <1>2 DEF TrackerInv, TrackerTypeOK
<1>12. \A x \in Sessions : session[x] = None /\ session'[x] # None => x = s
  BY <1>2 DEF TrackerInv, TrackerTypeOK
<1>13. \A v \in Careful : v # c.user => ActiveSessions(v)' \subseteq ActiveSessions(v)
  BY <1>7, TrackerAssumption
<1>14. Idle \in TimerCalls /\ c # Idle
  BY <1>1 DEF TimerCalls, Idle
<1> HIDE DEF saved
<1> QED
  BY <1>3, <1>4, <1>5, <1>6, <1>8, <1>9, <1>10, <1>11, <1>12, <1>13, <1>14, OthersKeepTimers

LEMMA TurnKeeps ==
  ASSUME TrackerInv, NEW r \in Requests, Turn(r)
  PROVE  TrackerInv'
<1> DEFINE c == call[r]
<1>1. c \in [op : {"pause", "resume"}, user : Callers, s : Sessions]
  BY DEF Turn, TrackerInv, TimerCalls, Idle, Moves
<1>2. PICK s \in Sessions : s = c.s
  BY <1>1
<1>3. session[s] # None /\ session[s].status # "Stopped" /\ session[s] \in SessionDoc
  BY <1>1, <1>2 DEF Turn, TrackerInv, Prepared, TimersReady, TrackerTypeOK
<1>4. PICK status \in {"Running", "Paused"} :
        session' = [session EXCEPT ![s].status = status]
  BY <1>2 DEF Turn
<1>5. UNCHANGED <<stage, assignees, billed>> /\ Commit(r, Idle, {s})
  BY <1>2 DEF Turn, Done
<1>6. session'[s] \in SessionDoc /\ session'[s].user = session[s].user
      /\ session'[s].sheet = session[s].sheet /\ session'[s].status = status
  BY <1>3, <1>4 DEF SessionDoc, TrackerInv, TrackerTypeOK
<1>7. \A x \in Sessions \ {s} : session'[x] = session[x]
  BY <1>4 DEF TrackerInv, TrackerTypeOK
<1>8. TrackerTypeOK'
  BY <1>3, <1>4, <1>5 DEF TrackerInv, TrackerTypeOK, SessionDoc
<1>9. session'[s] # None
  BY <1>6, SessionAssumption
<1>10. StoppedOnceBilled'
  BY <1>3, <1>5, <1>6, <1>7, <1>9 DEF TrackerInv, StoppedOnceBilled
<1>11. \A v : ActiveSessions(v)' = ActiveSessions(v)
  BY <1>3, <1>6, <1>7, <1>9 DEF ActiveSessions, Of
<1>12. OneActive'
  BY <1>11 DEF TrackerInv, OneActive
<1>13. Prepared(r)'
  BY <1>5 DEF TrackerInv, Commit, Prepared, TaskReady, TimersReady, SheetReady, Idle, Moves
<1>14. Idle \in TimerCalls /\ c # Idle
  BY <1>1 DEF TimerCalls, Idle
<1> QED
  BY <1>5, <1>6, <1>7, <1>8, <1>9, <1>10, <1>11, <1>12, <1>13, <1>14, OthersKeepTimers

\* What Stop makes of the time logs: the timer gets its one, the others keep theirs.
LEMMA StopBills ==
  ASSUME TrackerInv, NEW r \in Requests, Stop(r), NEW s \in Sessions, s = call[r].s
  PROVE  billed' = [billed EXCEPT ![s] = 1]
<1> DEFINE u == session[s].user
           logs == call[r].logs
<1>1. /\ session[s] # None /\ logs \in [Sessions -> Nat] /\ u \in Users
      /\ Fresh(r, u) => \A x \in Of(u) : logs[x] = billed[x]
  BY DEF Stop, TrackerInv, TimerCalls, Idle, Moves, Prepared, SheetReady, TrackerTypeOK, SessionDoc
<1>2. session[s].sheet \in BOOLEAN /\ billed \in [Sessions -> Nat]
  BY <1>1 DEF TrackerInv, TrackerTypeOK, SessionDoc
<1>3. s \in Of(u)
  BY <1>1 DEF Of
<1>4. CASE session[s].sheet
  <2>1. billed' = billed
    BY <1>4 DEF Stop
  <2>2. billed[s] = 1
    BY <1>1, <1>4 DEF TrackerInv, StoppedOnceBilled
  <2> QED BY <1>2, <2>1, <2>2
<1>5. CASE ~ session[s].sheet
  <2>1. billed[s] = 0
    BY <1>1, <1>5 DEF TrackerInv, StoppedOnceBilled
  <2>2. /\ (\E x \in Of(u) : logs[x] > 0) => Fresh(r, u)
        /\ billed' = Flushed(u, s, logs)
    BY <1>5 DEF Stop
  <2>3. CASE \E x \in Of(u) : logs[x] > 0
    <3>1. \A x \in Of(u) : logs[x] = billed[x]
      BY <1>1, <2>2, <2>3
    <3>2. billed' = [x \in Sessions |->
            IF x = s THEN logs[x] + 1 ELSE IF x \in Of(u) THEN logs[x] ELSE billed[x]]
      BY <2>2, <2>3 DEF Flushed
    <3>3. \A x \in Sessions : billed'[x] = IF x = s THEN 1 ELSE billed[x]
      BY <1>3, <2>1, <3>1, <3>2
    <3> HIDE DEF logs
    <3> QED BY <1>2, <3>2, <3>3
  <2>4. CASE ~ \E x \in Of(u) : logs[x] > 0
    BY <1>2, <2>1, <2>2, <2>4 DEF Flushed
  <2> QED BY <2>3, <2>4
<1> QED BY <1>2, <1>4, <1>5

LEMMA StopKeeps ==
  ASSUME TrackerInv, NEW r \in Requests, Stop(r)
  PROVE  TrackerInv'
<1> DEFINE c == call[r]
           d == IF c.next = None THEN Idle
                ELSE [op |-> "next", user |-> c.user, task |-> c.next]
<1>1. c \in [op : {"stop"}, user : Callers, s : Sessions, next : Tasks \cup {None},
             logs : [Sessions -> Nat]]
  BY DEF Stop, TrackerInv, TimerCalls, Idle, Moves
<1>2. PICK s \in Sessions : s = c.s
  BY <1>1
<1>3. session[s] # None /\ session[s] \in SessionDoc
  BY <1>1, <1>2 DEF TrackerInv, Prepared, SheetReady, TrackerTypeOK
<1>4. PICK u \in Users : u = session[s].user
  BY <1>3 DEF SessionDoc
<1>5. PICK saved \in {{s}, {s, u}} :
        Commit(r, d, saved) /\ (u \in saved \/ UNCHANGED billed)
  BY <1>2, <1>4 DEF Stop
<1>6. /\ session' = [session EXCEPT ![s].status = "Stopped", ![s].sheet = TRUE]
      /\ UNCHANGED <<stage, assignees>> /\ Fresh(r, s)
  BY <1>2 DEF Stop
<1>7. billed' = [billed EXCEPT ![s] = 1]
  BY <1>2, StopBills
<1>8. /\ session'[s] \in SessionDoc /\ session'[s].user = u
      /\ session'[s].sheet = TRUE /\ session'[s].status = "Stopped"
  BY <1>3, <1>4, <1>6 DEF SessionDoc, TrackerInv, TrackerTypeOK
<1>9. session'[s] # None
  BY <1>8, SessionAssumption
<1>10. \A x \in Sessions \ {s} : session'[x] = session[x]
  BY <1>6 DEF TrackerInv, TrackerTypeOK
<1>11. TrackerTypeOK'
  <2>1. session' = [x \in Sessions |-> IF x = s THEN session'[s] ELSE session[x]]
    BY <1>6 DEF TrackerInv, TrackerTypeOK
  <2>2. session' \in [Sessions -> SessionDoc \cup {None}]
    BY <1>8, <2>1 DEF TrackerInv, TrackerTypeOK
  <2> QED BY <1>6, <1>7, <2>2 DEF TrackerInv, TrackerTypeOK
<1>12. StoppedOnceBilled'
  BY <1>7, <1>8, <1>9, <1>10 DEF TrackerInv, StoppedOnceBilled, TrackerTypeOK
<1>13. \A v : ActiveSessions(v)' = ActiveSessions(v) \ {s}
  BY <1>8, <1>9, <1>10 DEF ActiveSessions, Of
<1>14. OneActive'
  BY <1>13 DEF TrackerInv, OneActive
<1>15. d \in TimerCalls /\ c # Idle /\ (d # Idle => d.user = c.user)
  BY <1>1 DEF TimerCalls, Idle
<1>16. Prepared(r)'
  <2>1. call'[r] = d
    BY <1>5 DEF TrackerInv, Commit
  <2>2. CASE c.next = None
    BY <2>1, <2>2 DEF Prepared, TaskReady, TimersReady, SheetReady, Idle, Moves
  <2>3. CASE c.next # None
    <3>1. s \in ActiveSessions(c.user)
      BY <1>1, <1>2, <1>6, <2>3 DEF TrackerInv, Prepared, SheetReady
    <3>2. c.user \in Careful => ActiveSessions(c.user) \ {s} = {}
      BY <3>1 DEF TrackerInv, OneActive
    <3>3. call'[r].op = "next" /\ call'[r].user = c.user
      BY <2>1, <2>3
    <3> QED BY <1>13, <3>2, <3>3 DEF Prepared, TaskReady, TimersReady, SheetReady, Moves
  <2> QED BY <2>2, <2>3
<1>17. \A v \in Users : v \notin saved => \A x \in Of(v) : billed'[x] = billed[x]
  BY <1>4, <1>5, <1>7 DEF Of, TrackerInv, TrackerTypeOK
<1>18. \A x \in Sessions : session[x] # None =>
         /\ session'[x] # None
         /\ session'[x].user = session[x].user
         /\ x \notin saved => session'[x].status = session[x].status
  BY <1>4, <1>5, <1>8, <1>9, <1>10
<1> HIDE DEF d
<1> QED
  BY <1>3, <1>5, <1>6, <1>10, <1>11, <1>12, <1>13, <1>14, <1>15, <1>16, <1>17, <1>18,
     OthersKeepTimers

LEMMA StartNextKeeps ==
  ASSUME TrackerInv, NEW r \in Requests, StartNext(r)
  PROVE  TrackerInv'
<1> DEFINE c == call[r]
           d == StartCall(c.user, c.task)
<1>1. c \in [op : {"next"}, user : Callers, task : Tasks]
  BY DEF StartNext, TrackerInv, TimerCalls, Idle, Moves
<1>2. c.user \in Users
  BY <1>1 DEF StartNext, Startable, TrackerInv, TrackerTypeOK
<1>3. Commit(r, d, {}) /\ UNCHANGED <<session, stage, assignees, billed>>
  BY DEF StartNext
<1>4. d \in TimerCalls /\ d # Idle /\ d.user = c.user /\ c # Idle
  BY <1>1, <1>2 DEF TimerCalls, StartCall, Idle
<1>5. TrackerTypeOK' /\ StoppedOnceBilled' /\ OneActive'
  BY <1>3 DEF TrackerInv, TrackerTypeOK, StoppedOnceBilled, OneActive, ActiveSessions, Of
<1>6. Prepared(r)'
  <2>1. call'[r] = d /\ d.op = "start" /\ d.task = c.task /\ d.first = (stage[c.task] = "Open")
    BY <1>3 DEF TrackerInv, Commit, StartCall
  <2>2. c.user \in Careful => ActiveSessions(c.user) = {}
    BY <1>1 DEF TrackerInv, Prepared, TimersReady
  <2>3. TaskReady(r)'
    BY <1>3, <2>1 DEF TaskReady, Moves
  <2>4. TimersReady(r)'
    BY <1>3, <1>4, <2>1, <2>2 DEF TimersReady, ActiveSessions, Of
  <2>5. SheetReady(r)'
    BY <2>1 DEF SheetReady
  <2> QED BY <2>3, <2>4, <2>5 DEF Prepared
<1>7. \A v : ActiveSessions(v)' = ActiveSessions(v)
  BY <1>3 DEF ActiveSessions, Of
<1> HIDE DEF d
<1> QED BY <1>3, <1>4, <1>5, <1>6, <1>7, OthersKeepTimers

\* The moves of a task and the stages they lead to.
LEMMA MovesOK ==
  /\ DOMAIN To = Moves
  /\ \A op \in Moves : To[op] \in Stages /\ <<From(op), To[op]>> \in
       {<<"Open", "Working">>, <<"Working", "Pending Review">>,
        <<"Pending Review", "Working">>, <<"Pending Review", "Completed">>}
<1>1. DOMAIN To = Moves
  BY DEF To, Moves
<1>2. /\ To["set_in_progress"] = "Working"
      /\ To["submit_for_review"] = "Pending Review"
      /\ To["approve"] = "Completed"
      /\ To["rework"] = "Working"
  BY DEF To
<1>3. /\ From("set_in_progress") = "Open"
      /\ From("submit_for_review") = "Working"
      /\ From("approve") = "Pending Review"
      /\ From("rework") = "Pending Review"
  BY DEF From
<1> QED BY <1>1, <1>2, <1>3 DEF Moves, Stages

LEMMA MoveKeeps ==
  ASSUME TrackerInv, NEW r \in Requests, Move(r)
  PROVE  TrackerInv'
<1> DEFINE c == call[r]
<1>1. c \in [op : Moves, user : Callers, task : Tasks]
  <2>1. c.op \in Moves /\ c \in TimerCalls
    BY MovesOK DEF Move, TrackerInv
  <2> QED BY <2>1 DEF TimerCalls, Idle, Moves
<1>2. PICK t \in Tasks : t = c.task
  BY <1>1
<1>3. /\ stage' = [stage EXCEPT ![t] = To[c.op]] /\ Commit(r, Idle, {t})
      /\ UNCHANGED <<session, assignees, billed>>
  BY <1>2 DEF Move, Done
<1>4. To[c.op] \in Stages
  BY <1>1, MovesOK
<1>5. TrackerTypeOK' /\ StoppedOnceBilled' /\ OneActive'
  BY <1>3, <1>4 DEF TrackerInv, TrackerTypeOK, StoppedOnceBilled, OneActive,
     ActiveSessions, Of
<1>6. Prepared(r)'
  BY <1>3 DEF TrackerInv, Commit, Prepared, TaskReady, TimersReady, SheetReady, Idle, Moves
<1>7. \A x \in Tasks : x \notin {t} => stage'[x] = stage[x]
  BY <1>3 DEF TrackerInv, TrackerTypeOK
<1>8. \A v : ActiveSessions(v)' = ActiveSessions(v)
  BY <1>3 DEF ActiveSessions, Of
<1>9. Idle \in TimerCalls /\ c # Idle
  BY <1>1 DEF TimerCalls, Idle, Moves
<1> QED BY <1>3, <1>5, <1>6, <1>7, <1>8, <1>9, OthersKeepTimers

LEMMA GiveUpKeeps ==
  ASSUME TrackerInv, NEW r \in Requests, GiveUpTracker(r)
  PROVE  TrackerInv'
<1>1. /\ call[r] # Idle /\ Commit(r, Idle, {}) /\ Idle \in TimerCalls
      /\ UNCHANGED <<session, stage, assignees, billed>>
  BY DEF GiveUpTracker, Done, TimerCalls
<1>2. TrackerTypeOK' /\ StoppedOnceBilled' /\ OneActive'
  BY <1>1 DEF TrackerInv, TrackerTypeOK, StoppedOnceBilled, OneActive, ActiveSessions, Of
<1>3. Prepared(r)'
  BY <1>1 DEF TrackerInv, Commit, Prepared, TaskReady, TimersReady, SheetReady, Idle, Moves
<1>4. \A v : ActiveSessions(v)' = ActiveSessions(v)
  BY <1>1 DEF ActiveSessions, Of
<1> QED BY <1>1, <1>2, <1>3, <1>4, OthersKeepTimers

(* The calls that load what they need and are ready then.                 *)

LEMMA LoadStartKeeps ==
  ASSUME TrackerInv, NEW r \in Requests, NEW u \in Users, NEW t \in Tasks,
         LoadStart(r, u, t)
  PROVE  TrackerInv'
<1> DEFINE c == StartCall(u, t)
<1>1. /\ Load(r, c) /\ UNCHANGED <<session, stage, assignees, billed>>
      /\ MayCall(u) /\ ActiveSessions(u) = {}
  BY DEF LoadStart
<1>2. c \in TimerCalls \ {Idle} /\ c.user = u /\ c.op = "start" /\ c.task = t
      /\ c.first = (stage[t] = "Open")
  BY DEF StartCall, TimerCalls, Idle
<1> HIDE DEF c
<1>3. call'[r] = c
  BY <1>1 DEF Load, TrackerInv
<1>4. Prepared(r)'
  BY <1>1, <1>2, <1>3 DEF Prepared, TaskReady, TimersReady, SheetReady, Moves,
     ActiveSessions, Of
<1> QED BY <1>1, <1>2, <1>4, LoadKeepsTimers

LEMMA ResumeKeeps ==
  ASSUME TrackerInv, NEW r \in Requests, NEW u \in Callers, NEW s \in Sessions,
         LoadResume(r, u, s)
  PROVE  TrackerInv'
<1> DEFINE c == [op |-> "resume", user |-> u, s |-> s]
<1>1. /\ Load(r, c) /\ UNCHANGED <<session, stage, assignees, billed>>
      /\ MayCall(u) /\ session[s] # None /\ session[s].status = "Paused"
  BY DEF LoadResume, Of
<1>2. c \in TimerCalls \ {Idle} /\ c.user = u /\ c.op = "resume" /\ c.s = s
  BY DEF TimerCalls, Idle
<1> HIDE DEF c
<1>3. call'[r] = c
  BY <1>1 DEF Load, TrackerInv
<1>4. Prepared(r)'
  BY <1>1, <1>2, <1>3 DEF Prepared, TaskReady, TimersReady, SheetReady, Moves
<1> QED BY <1>1, <1>2, <1>4, LoadKeepsTimers

LEMMA PauseKeeps ==
  ASSUME TrackerInv, NEW r \in Requests, NEW u \in Callers, NEW s \in Sessions,
         LoadPause(r, u, s)
  PROVE  TrackerInv'
<1> DEFINE c == [op |-> "pause", user |-> u, s |-> s]
<1>1. /\ Load(r, c) /\ UNCHANGED <<session, stage, assignees, billed>>
      /\ MayCall(u) /\ session[s] # None /\ session[s].status = "Running"
  BY DEF LoadPause, Running, Of
<1>2. c \in TimerCalls \ {Idle} /\ c.user = u /\ c.op = "pause" /\ c.s = s
  BY DEF TimerCalls, Idle
<1> HIDE DEF c
<1>3. call'[r] = c
  BY <1>1 DEF Load, TrackerInv
<1>4. Prepared(r)'
  BY <1>1, <1>2, <1>3 DEF Prepared, TaskReady, TimersReady, SheetReady, Moves
<1> QED BY <1>1, <1>2, <1>4, LoadKeepsTimers

LEMMA LoadStopKeeps ==
  ASSUME TrackerInv, NEW r \in Requests, NEW u \in Callers, NEW s \in Sessions,
         NEW next \in Tasks \cup {None},
         LoadStop(r, u, s, next)
  PROVE  TrackerInv'
<1> DEFINE c == [op |-> "stop", user |-> u, s |-> s, next |-> next, logs |-> billed]
<1>1. /\ Load(r, c) /\ UNCHANGED <<session, stage, assignees, billed>>
      /\ MayCall(u) /\ session[s] # None
      /\ next # None => s \in ActiveSessions(u)
  BY DEF LoadStop
<1>2. c \in TimerCalls \ {Idle} /\ c.user = u /\ c.op = "stop" /\ c.s = s
      /\ c.next = next /\ c.logs = billed
  BY DEF TimerCalls, Idle, TrackerInv, TrackerTypeOK
<1> HIDE DEF c
<1>3. call'[r] = c
  BY <1>1 DEF Load, TrackerInv
<1>4. \A x \in Sessions : session[x] = None => billed[x] = 0
  BY DEF TrackerInv, StoppedOnceBilled
<1>5. SheetReady(r)'
  BY <1>1, <1>2, <1>3, <1>4 DEF SheetReady, ActiveSessions, Of
<1>6. Prepared(r)'
  BY <1>2, <1>3, <1>5 DEF Prepared, TaskReady, TimersReady, Moves
<1> QED BY <1>1, <1>2, <1>6, LoadKeepsTimers

LEMMA LoadMoveKeeps ==
  ASSUME TrackerInv, NEW r \in Requests, NEW u \in Callers, NEW t \in Tasks, NEW op \in DOMAIN To,
         LoadMove(r, u, op, t)
  PROVE  TrackerInv'
<1> DEFINE c == [op |-> op, user |-> u, task |-> t]
<1>1. /\ Load(r, c) /\ UNCHANGED <<session, stage, assignees, billed>>
      /\ MayCall(u)
  BY DEF LoadMove
<1>2. op \in Moves
  BY MovesOK
<1>3. stage[t] = From(op)
  BY <1>2 DEF LoadMove, From, Moves
<1>4. c \in TimerCalls \ {Idle} /\ c.user = u /\ c.op = op /\ c.task = t
  BY <1>2 DEF TimerCalls, Idle, Moves
<1> HIDE DEF c
<1>5. call'[r] = c
  BY <1>1 DEF Load, TrackerInv
<1>6. Prepared(r)'
  BY <1>1, <1>2, <1>3, <1>4, <1>5
     DEF Prepared, TaskReady, TimersReady, SheetReady, Moves
<1> QED BY <1>1, <1>4, <1>6, LoadKeepsTimers

\* A timer that becomes long, and a new assignee, disturb nobody.
LEMMA OutsideKeeps ==
  ASSUME TrackerInv,
         \/ \E s \in Sessions : Pass(s)
         \/ \E u, v \in Users, t \in Tasks : Assign(u, v, t)
  PROVE  TrackerInv'
<1>1. UNCHANGED <<call, stale, stage, billed>>
  BY DEF Pass, Assign
<1>2. /\ session' \in [Sessions -> SessionDoc \cup {None}]
      /\ assignees' \in [Tasks -> SUBSET Users]
      /\ \A x \in Sessions :
           /\ session'[x] = None <=> session[x] = None
           /\ session[x] # None =>
                /\ session'[x].user = session[x].user
                /\ session'[x].status = session[x].status
                /\ session'[x].sheet = session[x].sheet
  <2>1. ASSUME NEW s \in Sessions, Pass(s) PROVE <1>2!:
    <3>1. session[s] \in SessionDoc
      BY <2>1 DEF Pass, TrackerInv, TrackerTypeOK
    <3>2. session' = [session EXCEPT ![s].long = TRUE] /\ UNCHANGED assignees
      BY <2>1 DEF Pass
    <3>3. /\ session'[s] \in SessionDoc
          /\ session'[s].user = session[s].user
          /\ session'[s].status = session[s].status
          /\ session'[s].sheet = session[s].sheet
      BY <3>1, <3>2 DEF SessionDoc, TrackerInv, TrackerTypeOK
    <3>4. session'[s] # None /\ session[s] # None
      BY <3>1, <3>3, SessionAssumption
    <3>5. \A x \in Sessions \ {s} : session'[x] = session[x]
      BY <3>2 DEF TrackerInv, TrackerTypeOK
    <3>6. session' = [x \in Sessions |-> IF x = s THEN session'[s] ELSE session[x]]
      BY <3>2 DEF TrackerInv, TrackerTypeOK
    <3>7. session' \in [Sessions -> SessionDoc \cup {None}]
      BY <3>3, <3>6 DEF TrackerInv, TrackerTypeOK
    <3> QED BY <3>2, <3>3, <3>4, <3>5, <3>7 DEF TrackerInv, TrackerTypeOK
  <2>2. ASSUME NEW u \in Users, NEW v \in Users, NEW t \in Tasks, Assign(u, v, t)
        PROVE  <1>2!:
    BY <2>2 DEF Assign, TrackerInv, TrackerTypeOK
  <2> QED BY <2>1, <2>2
<1>3. \A u : Of(u)' = Of(u) /\ ActiveSessions(u)' = ActiveSessions(u)
  BY <1>2 DEF Of, ActiveSessions
<1>4. TrackerTypeOK' /\ StoppedOnceBilled' /\ OneActive' /\ OneCall'
  BY <1>1, <1>2, <1>3 DEF TrackerInv, TrackerTypeOK, StoppedOnceBilled, OneActive, OneCall
<1>5. ASSUME NEW r \in Requests PROVE Prepared(r)'
  <2>1. TaskReady(r)'
    BY <1>1 DEF TrackerInv, Prepared, TaskReady, Fresh
  <2>2. call[r].op \in {"pause", "resume", "stop"} => call[r].s \in Sessions
    BY DEF TrackerInv, TimerCalls, Idle, Moves
  <2>3. TimersReady(r)'
    BY <1>1, <1>2, <1>3, <2>2 DEF TrackerInv, Prepared, TimersReady, Fresh
  <2>4. SheetReady(r)'
    BY <1>1, <1>2, <1>3, <2>2 DEF TrackerInv, Prepared, SheetReady, Fresh
  <2> QED BY <2>1, <2>3, <2>4 DEF Prepared
<1> QED BY <1>1, <1>4, <1>5 DEF TrackerInv

\* Every step keeps the invariant.
LEMMA StepTracked ==
  ASSUME TrackerInv, [TrackerNext]_<<backendVars, trackerVars>>
  PROVE  TrackerInv'
<1>1. ASSUME NEW r \in Requests,
             \/ Start(r) \/ Turn(r) \/ Stop(r) \/ StartNext(r) \/ Move(r)
             \/ GiveUpTracker(r)
      PROVE  TrackerInv'
  BY <1>1, StartKeeps, TurnKeeps, StopKeeps, StartNextKeeps, MoveKeeps, GiveUpKeeps
<1>2. ASSUME NEW r \in Requests, NEW u \in Callers, NEW s \in Sessions,
             \/ LoadResume(r, u, s) \/ LoadPause(r, u, s)
             \/ \E next \in Tasks \cup {None} : LoadStop(r, u, s, next)
      PROVE  TrackerInv'
  BY <1>2, ResumeKeeps, PauseKeeps, LoadStopKeeps
<1>3. ASSUME NEW r \in Requests, NEW u \in Callers, NEW t \in Tasks,
             \/ u \in Users /\ LoadStart(r, u, t)
             \/ \E op \in DOMAIN To : LoadMove(r, u, op, t)
      PROVE  TrackerInv'
  BY <1>3, LoadStartKeeps, LoadMoveKeeps
<1>4. CASE \/ \E s \in Sessions : Pass(s)
           \/ \E u, v \in Users, t \in Tasks : Assign(u, v, t)
  BY <1>4, OutsideKeeps
<1>5. CASE UNCHANGED <<backendVars, trackerVars>>
  BY <1>5 DEF backendVars, trackerVars, TrackerInv, TrackerTypeOK, StoppedOnceBilled,
     OneActive, OneCall, Prepared, TaskReady, TimersReady, SheetReady, Fresh, Of,
     ActiveSessions
<1> QED BY <1>1, <1>2, <1>3, <1>4, <1>5 DEF TrackerNext, Callers

\* The invariant holds throughout.
THEOREM TrackerInvariant == TrackerSpec => []TrackerInv
<1>1. TrackerInv /\ [TrackerNext]_<<backendVars, trackerVars>> => TrackerInv'
  BY StepTracked
<1> QED BY InitTracked, <1>1, PTL DEF TrackerSpec

\* Every stopped timer has one time log and no other timer has any, whoever stops
\* it how often, and whatever else saves the Timesheet (_flush_to_timesheet).
THEOREM TimersAreBilledOnce == TrackerSpec => []StoppedOnceBilled
<1>1. TrackerInv => StoppedOnceBilled
  BY DEF TrackerInv
<1> QED BY TrackerInvariant, <1>1, PTL

LEMMA OneTimerEach == TrackerInv => SingleActive
<1>1. ASSUME TrackerInv, NEW u \in Careful
      PROVE  Cardinality(ActiveSessions(u)) <= 1
  <2>1. \A s, t \in ActiveSessions(u) : s = t
    BY <1>1 DEF TrackerInv, OneActive
  <2>2. CASE ActiveSessions(u) = {}
    BY <2>2, FS_EmptySet
  <2>3. CASE ActiveSessions(u) # {}
    <3>1. PICK s \in ActiveSessions(u) : ActiveSessions(u) = {s}
      BY <2>1, <2>3
    <3> QED BY <3>1, FS_Singleton
  <2> QED BY <2>2, <2>3
<1> QED BY <1>1 DEF SingleActive

\* A user whose client makes one call at a time never has two timers that are not
\* stopped, whatever the others do to them (start_session).
THEOREM CarefulUsersHaveOneTimer == TrackerSpec => []SingleActive
BY TrackerInvariant, OneTimerEach, PTL

\* A task goes through its lifecycle one step at a time, whoever else is about to
\* save it (review.py, mark_working_on_start).
THEOREM TasksKeepTheirLife == TrackerSpec => TaskLife
<1> DEFINE Steps ==
      {<<"Open", "Working">>, <<"Working", "Pending Review">>,
       <<"Pending Review", "Working">>, <<"Pending Review", "Completed">>}
<1>1. ASSUME TrackerInv, [TrackerNext]_<<backendVars, trackerVars>>,
             NEW t \in Tasks, stage'[t] # stage[t]
      PROVE  <<stage[t], stage'[t]>> \in Steps
  <2>1. PICK r \in Requests : Start(r) \/ Move(r)
    BY <1>1, ZenonT(60) DEF TrackerNext, Turn, Stop, StartNext, GiveUpTracker, LoadResume, LoadPause,
       LoadStop, LoadStart, LoadMove, Pass, Assign, trackerVars
  <2>2. TaskReady(r) /\ stage \in [Tasks -> Stages] /\ call[r] \in TimerCalls
    BY <1>1 DEF TrackerInv, Prepared, TrackerTypeOK
  <2>3. CASE Start(r)
    <3>1. call[r].first /\ call[r].task = t /\ Fresh(r, t) /\ stage'[t] = "Working"
      BY <1>1, <2>2, <2>3 DEF Start
    <3>2. stage[t] = "Open"
      BY <2>2, <2>3, <3>1 DEF Start, TaskReady
    <3> QED BY <3>1, <3>2
  <2>4. CASE Move(r)
    <3>1. call[r].op \in Moves
      BY <2>4, MovesOK DEF Move
    <3>2. call[r].task = t /\ Fresh(r, t) /\ stage'[t] = To[call[r].op]
      BY <1>1, <2>2, <2>4 DEF Move
    <3>3. stage[t] = From(call[r].op)
      BY <2>2, <3>1, <3>2 DEF TaskReady
    <3> QED BY <3>1, <3>2, <3>3, MovesOK
  <2> QED BY <2>1, <2>3, <2>4
<1>2. TrackerInv /\ [TrackerNext]_<<backendVars, trackerVars>> =>
        [\A t \in Tasks : stage'[t] # stage[t] => <<stage[t], stage'[t]>> \in Steps]_stage
  BY <1>1
<1> QED BY TrackerInvariant, <1>2, PTL DEF TrackerSpec, TaskLife

-----------------------------------------------------------------------------
(***************************************************************************)
(* SyncBatch: what a batch has read and nobody saved since is what is      *)
(* stored.                                                                 *)
(***************************************************************************)

Snapshots == [Cids -> RecordDoc \cup {None}]

Kinds == {"create", "update", "delete"}

OpCalls ==
  [op : {"insert", "save", "images"}, c : Cids, kind : Kinds,
   base : 1..MaxRev \cup {None}, seen : Snapshots, left : Nat]

BatchCalls == {Idle} \cup [op : {"sync"}, seen : Snapshots, left : Nat] \cup OpCalls

\* What r saw is still there and, while nobody saved it, in the version seen.
Current(r, c) ==
  call[r].op \in {"sync", "insert", "save"} /\ call[r].seen[c] # None =>
    record[c] # None /\ (Fresh(r, c) => record[c].rev = call[r].seen[c].rev)

\* What r may rely on when it saves.
SaveReady(r) ==
  call[r].op = "save" =>
    /\ call[r].seen[call[r].c] # None
    /\ call[r].kind # "create" /\ call[r].base # None /\ Fresh(r, call[r].c) =>
         call[r].seen[call[r].c].rev = call[r].base

SyncInv ==
  /\ SyncTypeOK
  /\ call \in [Requests -> BatchCalls]
  /\ StoredWhole
  /\ \A r \in Requests : SaveReady(r) /\ \A c \in Cids : Current(r, c)
  /\ \A r \in Requests : call[r].op = "images" => record[call[r].c] # None

\* The initial state satisfies the invariant.
LEMMA InitSynced == BackendInit /\ SyncInit => SyncInv
<1> SUFFICES ASSUME BackendInit, SyncInit PROVE SyncInv
  OBVIOUS
<1>1. \A r \in Requests : call[r] = Idle /\ call[r].op = "none"
  BY DEF BackendInit, Idle
<1> QED
  BY <1>1 DEF BackendInit, SyncInit, SyncInv, SyncTypeOK, StoredWhole, SaveReady, Current,
     BatchCalls

\* A commit of c by r, as the others see it.
LEMMA OthersKeepRecords ==
  ASSUME SyncInv, NEW r \in Requests, NEW d \in BatchCalls, NEW saved, Commit(r, d, saved),
         SyncTypeOK', StoredWhole', SaveReady(r)', \A c \in Cids : Current(r, c)',
         d.op = "images" => record'[d.c] # None,
         \A c \in Cids : record[c] # None =>
           /\ record'[c] # None
           /\ c \notin saved => record'[c].rev = record[c].rev
  PROVE  SyncInv'
<1>1. call' = [call EXCEPT ![r] = d] /\ call' \in [Requests -> BatchCalls]
  BY DEF SyncInv, Commit
<1>2. ASSUME NEW q \in Requests \ {r}
      PROVE  /\ SaveReady(q)' /\ \A c \in Cids : Current(q, c)'
             /\ call'[q].op = "images" => record'[call'[q].c] # None
  <2>1. call'[q] = call[q] /\ call[q] \in BatchCalls
    BY <1>1 DEF SyncInv
  <2>2. CASE call[q] = Idle
    BY <2>1, <2>2 DEF SaveReady, Current, Idle
  <2>3. CASE call[q] # Idle
    <3>1. \A c \in Cids : Fresh(q, c)' => Fresh(q, c) /\ c \notin saved
      BY <2>3 DEF Commit, Fresh
    <3>2. call[q].op \in {"save", "images"} => call[q].c \in Cids
      BY <2>1, <2>3 DEF BatchCalls, OpCalls
    <3>3. SaveReady(q)'
      BY <2>1, <3>1, <3>2 DEF SyncInv, SaveReady
    <3>4. \A c \in Cids : Current(q, c)'
      BY <2>1, <3>1 DEF SyncInv, Current
    <3> QED BY <2>1, <3>2, <3>3, <3>4 DEF SyncInv
  <2> QED BY <2>2, <2>3
<1>3. call'[r] = d
  BY <1>1 DEF SyncInv
<1> QED BY <1>1, <1>2, <1>3 DEF SyncInv

\* The end of a batch.
LEMMA DoneKeeps ==
  ASSUME SyncInv, NEW r \in Requests, Done(r, {}), UNCHANGED record
  PROVE  SyncInv'
<1>1. Idle \in BatchCalls /\ Idle.op = "none" /\ call'[r] = Idle
  BY DEF BatchCalls, Idle, SyncInv, Done, Commit
<1>2. SaveReady(r)' /\ \A c \in Cids : Current(r, c)'
  BY <1>1 DEF SaveReady, Current
<1>3. SyncTypeOK' /\ StoredWhole'
  BY DEF SyncInv, SyncTypeOK, StoredWhole
<1> QED BY <1>1, <1>2, <1>3, OthersKeepRecords DEF Done

\* A committed operation goes on with a new snapshot.
LEMMA NextSnapshot ==
  ASSUME SyncInv, NEW r \in Requests, NEW left \in Nat, NEW saved,
         Commit(r, Between(record', left), saved),
         SyncTypeOK', StoredWhole',
         \A c \in Cids : record[c] # None =>
           /\ record'[c] # None
           /\ c \notin saved => record'[c].rev = record[c].rev
  PROVE  SyncInv'
<1> DEFINE d == Between(record', left)
<1>1. d \in BatchCalls /\ d.op = "sync" /\ d.seen = record'
  BY DEF Between, BatchCalls, Snapshots, SyncTypeOK
<1> HIDE DEF d
<1>2. call'[r] = d
  BY DEF SyncInv, Commit, d
<1>3. SaveReady(r)' /\ \A c \in Cids : Current(r, c)'
  BY <1>1, <1>2 DEF SaveReady, Current
<1> QED BY <1>1, <1>3, OthersKeepRecords DEF d

LEMMA BeginKeeps ==
  ASSUME SyncInv, NEW r \in Requests, NEW c \in Cids, NEW kind \in Kinds,
         NEW base \in 1..MaxRev \cup {None}, BeginOp(r, c, kind, base),
         base # None => record[c] # None /\ base <= record[c].rev
  PROVE  SyncInv'
<1> DEFINE doc == call[r].seen[c]
           d == [op |-> IF doc = None THEN "insert" ELSE "save", c |-> c, kind |-> kind,
                 base |-> base, seen |-> call[r].seen, left |-> call[r].left - 1]
<1>1. /\ call[r].op = "sync" /\ call[r].left > 0
      /\ call' = [call EXCEPT ![r] = d] /\ UNCHANGED <<stale, record>>
      /\ doc # None => ~Conflict(kind, base, doc.rev)
  BY DEF BeginOp
<1>2. call[r] \in [op : {"sync"}, seen : Snapshots, left : Nat]
  BY <1>1 DEF SyncInv, BatchCalls, OpCalls, Idle
<1>3. doc \in RecordDoc \cup {None} /\ call[r].left - 1 \in Nat
  BY <1>1, <1>2 DEF Snapshots
<1>4. /\ d \in BatchCalls /\ d.op = IF doc = None THEN "insert" ELSE "save"
      /\ d.seen = call[r].seen /\ d.c = c /\ d.kind = kind /\ d.base = base
  BY <1>2, <1>3 DEF BatchCalls, OpCalls
<1> HIDE DEF d
<1>5. call'[r] = d /\ \A q \in Requests \ {r} : call'[q] = call[q]
  BY <1>1 DEF SyncInv
<1>6. \A x \in Cids : Current(r, x)'
  BY <1>1, <1>4, <1>5 DEF SyncInv, Current, Fresh
<1>7. SaveReady(r)'
  <2> SUFFICES ASSUME doc # None, kind # "create", base # None, Fresh(r, c)
               PROVE  doc.rev = base
    BY <1>1, <1>4, <1>5 DEF SaveReady, Fresh
  <2>1. ~ (doc.rev > base)
    BY <1>1 DEF Conflict
  <2>2. record[c].rev = doc.rev
    BY <1>1 DEF SyncInv, Current
  <2>3. doc.rev \in Nat /\ base \in Nat
    BY <1>3 DEF RecordDoc
  <2> QED BY <2>1, <2>2, <2>3
<1>8. \A q \in Requests \ {r} : SaveReady(q)' /\ \A x \in Cids : Current(q, x)'
  BY <1>1, <1>5 DEF SyncInv, SaveReady, Current, Fresh
<1>9. \A q \in Requests : call'[q].op = "images" => record'[call'[q].c] # None
  BY <1>1, <1>4, <1>5 DEF SyncInv
<1>10. call' \in [Requests -> BatchCalls] /\ SyncTypeOK' /\ StoredWhole'
  BY <1>1, <1>4 DEF SyncInv, SyncTypeOK, StoredWhole
<1> QED BY <1>6, <1>7, <1>8, <1>9, <1>10 DEF SyncInv

\* A version of c that is written, seen from the other records.
LEMMA WriteKeeps ==
  ASSUME SyncTypeOK, StoredWhole, NEW c \in Cids, NEW doc \in RecordDoc,
         record' = [record EXCEPT ![c] = doc], c \notin Stocked => doc.whole
  PROVE  /\ SyncTypeOK' /\ StoredWhole'
         /\ record'[c] = doc /\ record'[c] # None
         /\ \A x \in Cids \ {c} : record'[x] = record[x]
<1>1. doc # None
  BY RecordAssumption
<1>2. record'[c] = doc /\ \A x \in Cids \ {c} : record'[x] = record[x]
  BY DEF SyncTypeOK
<1>3. SyncTypeOK'
  BY DEF SyncTypeOK
<1>4. StoredWhole'
  BY <1>2 DEF StoredWhole
<1> QED BY <1>1, <1>2, <1>3, <1>4

\* One operation that writes a whole version of its record.
LEMMA StoredKeeps ==
  ASSUME SyncInv, NEW r \in Requests, call[r] \in OpCalls, NEW doc \in RecordDoc,
         NEW saved, Stored(r, doc, saved),
         call[r].c \notin Stocked => doc.whole,
         record[call[r].c] # None =>
           call[r].c \in saved \/ doc.rev = record[call[r].c].rev
  PROVE  SyncInv'
<1>1. PICK c \in Cids : c = call[r].c
  BY DEF OpCalls
<1>2. record' = [record EXCEPT ![c] = doc] /\ call[r].left \in Nat
  BY <1>1 DEF Stored, OpCalls
<1>3. /\ SyncTypeOK' /\ StoredWhole' /\ record'[c] = doc /\ record'[c] # None
      /\ \A x \in Cids \ {c} : record'[x] = record[x]
  <2>1. SyncTypeOK /\ StoredWhole
    BY DEF SyncInv
  <2>2. c \notin Stocked => doc.whole
    BY <1>1
  <2> QED BY <1>2, <2>1, <2>2, WriteKeeps
<1>4. Commit(r, Between(record', call[r].left), saved)
  BY DEF Stored
<1>5. \A x \in Cids : record[x] # None =>
        record'[x] # None /\ (x \notin saved => record'[x].rev = record[x].rev)
  BY <1>1, <1>3
<1> QED BY <1>2, <1>3, <1>4, <1>5, NextSnapshot

LEMMA InsertCustomerKeeps ==
  ASSUME SyncInv, NEW r \in Requests, InsertCustomer(r)
  PROVE  SyncInv'
<1> DEFINE doc == [rev |-> 1, whole |-> TRUE]
<1>1. call[r] \in OpCalls
  BY DEF InsertCustomer, SyncInv, BatchCalls, Idle
<1>2. doc \in RecordDoc /\ doc.whole
  BY SyncAssumption DEF RecordDoc
<1>3. record[call[r].c] = None /\ Stored(r, doc, {call[r].c})
  BY DEF InsertCustomer
<1> HIDE DEF doc
<1> QED BY <1>1, <1>2, <1>3, StoredKeeps

LEMMA InsertItemKeeps ==
  ASSUME SyncInv, NEW r \in Requests, InsertItem(r)
  PROVE  SyncInv'
<1> DEFINE doc(c) == [rev |-> 1, whole |-> c \notin Stocked]
<1>1. call[r] \in OpCalls
  BY DEF InsertItem, SyncInv, BatchCalls, Idle
<1>2. PICK c \in Cids : c = call[r].c
  BY <1>1 DEF OpCalls
<1>3. record[c] = None /\ record' = [record EXCEPT ![c] = doc(c)]
  BY <1>2 DEF InsertItem
<1>4. doc(c) \in RecordDoc /\ (c \notin Stocked => doc(c).whole)
  <2>1. PICK w \in BOOLEAN : w = (c \notin Stocked)
    OBVIOUS
  <2>2. 1 \in 1..MaxRev
    BY SyncAssumption
  <2>3. doc(c) = [rev |-> 1, whole |-> w]
    BY <2>1
  <2>4. doc(c) \in RecordDoc
    BY <2>2, <2>3 DEF RecordDoc
  <2>5. doc(c).whole = (c \notin Stocked)
    OBVIOUS
  <2> QED BY <2>4, <2>5
<1> HIDE DEF doc
<1>5. /\ SyncTypeOK' /\ StoredWhole' /\ record'[c] # None
      /\ \A x \in Cids \ {c} : record'[x] = record[x]
  BY <1>3, <1>4, WriteKeeps DEF SyncInv
<1>6. CASE c \in Stocked
  <2> DEFINE d == [call[r] EXCEPT !.op = "images"]
  <2>1. d \in BatchCalls /\ d.op = "images" /\ d.c = c
    BY <1>1, <1>2 DEF OpCalls, BatchCalls
  <2> HIDE DEF d
  <2>2. Commit(r, d, {c})
    BY <1>2, <1>6 DEF InsertItem, d
  <2>3. call'[r] = d
    BY <2>2 DEF SyncInv, Commit
  <2>4. SaveReady(r)' /\ \A x \in Cids : Current(r, x)'
    BY <2>1, <2>3 DEF SaveReady, Current
  <2> QED BY <1>3, <1>5, <2>1, <2>2, <2>4, OthersKeepRecords
<1>7. CASE c \notin Stocked
  <2>1. Commit(r, Between(record', call[r].left), {c}) /\ call[r].left \in Nat
    BY <1>1, <1>2, <1>7 DEF InsertItem, OpCalls
  <2> QED BY <1>3, <1>5, <2>1, NextSnapshot
<1> QED BY <1>6, <1>7

\* The images, of a new item or in an update that brings nothing else.
LEMMA SaveImagesKeeps ==
  ASSUME SyncInv, NEW r \in Requests, SaveImages(r) \/ SaveAttachments(r)
  PROVE  SyncInv'
<1> DEFINE doc == [record[call[r].c] EXCEPT !.whole = TRUE]
<1>1. call[r] \in OpCalls /\ call[r].op \in {"images", "save"}
  BY DEF SaveImages, SaveAttachments, SyncInv, BatchCalls, Idle
<1>2. record[call[r].c] # None /\ record[call[r].c] \in RecordDoc
  BY <1>1 DEF OpCalls, SyncInv, SaveReady, Current, SyncTypeOK
<1>3. doc \in RecordDoc /\ doc.whole /\ doc.rev = record[call[r].c].rev
  BY <1>2 DEF RecordDoc
<1>4. Stored(r, doc, {})
  BY DEF SaveImages, SaveAttachments
<1> HIDE DEF doc
<1> QED BY <1>1, <1>3, <1>4, StoredKeeps

\* An update or a delete.
LEMMA SavedKeeps ==
  ASSUME SyncInv, NEW r \in Requests, call[r].op = "save", NEW whole \in BOOLEAN,
         record[call[r].c].whole => whole, Saved(r, whole)
  PROVE  SyncInv'
<1> DEFINE doc == [rev |-> record[call[r].c].rev + 1, whole |-> whole]
<1>1. call[r] \in OpCalls
  BY DEF SyncInv, BatchCalls, Idle
<1>2. PICK c \in Cids : c = call[r].c
  BY <1>1 DEF OpCalls
<1>3. record[c] # None /\ record[c] \in RecordDoc /\ record[c].rev < MaxRev
  BY <1>2 DEF Saved, SyncInv, SaveReady, Current, SyncTypeOK
<1>4. record[c].rev + 1 \in 1..MaxRev
  BY <1>3, SyncAssumption DEF RecordDoc
<1>5. doc \in RecordDoc /\ doc.whole = whole
  BY <1>2, <1>4 DEF RecordDoc
<1>6. c \notin Stocked => whole
  BY <1>2, <1>3 DEF SyncInv, StoredWhole
<1>7. Stored(r, doc, {c})
  BY <1>2 DEF Saved
<1> HIDE DEF doc
<1> QED BY <1>1, <1>2, <1>5, <1>6, <1>7, StoredKeeps

\* Each of the three saves is one.
LEMMA SaveIsSaved ==
  ASSUME SyncInv, NEW r \in Requests, SaveCustomer(r) \/ SaveItem(r) \/ Disable(r)
  PROVE  call[r].op = "save" /\ \E whole \in BOOLEAN :
           Saved(r, whole) /\ (record[call[r].c].whole => whole)
<1>1. call[r].op = "save"
  BY DEF SaveCustomer, SaveItem, Disable
<1>2. call[r] \in OpCalls
  BY <1>1 DEF SyncInv, BatchCalls, Idle
<1>3. record[call[r].c] \in RecordDoc
  BY <1>1, <1>2 DEF OpCalls, SyncInv, SaveReady, Current, SyncTypeOK
<1>4. record[call[r].c].whole \in BOOLEAN
  BY <1>3 DEF RecordDoc
<1> QED BY <1>1, <1>4 DEF SaveCustomer, SaveItem, Disable

LEMMA SaveOpKeeps ==
  ASSUME SyncInv, NEW r \in Requests, SaveCustomer(r) \/ SaveItem(r) \/ Disable(r)
  PROVE  SyncInv'
BY SaveIsSaved, SavedKeeps

LEMMA FailOpKeeps ==
  ASSUME SyncInv, NEW r \in Requests, FailOp(r)
  PROVE  SyncInv'
<1>1. CASE call[r].op = "images"
  <2>1. Done(r, {}) /\ UNCHANGED record
    BY <1>1 DEF FailOp
  <2> QED BY <2>1, DoneKeeps
<1>2. CASE call[r].op # "images"
  <2> DEFINE d == Between(call[r].seen, call[r].left)
  <2>1. call[r] \in OpCalls /\ call[r].op \in {"insert", "save"}
    BY <1>2 DEF FailOp, SyncInv, BatchCalls, Idle
  <2>2. call' = [call EXCEPT ![r] = d] /\ UNCHANGED <<stale, record>>
    BY <1>2 DEF FailOp, SyncInv
  <2>3. d \in BatchCalls /\ d.op = "sync" /\ d.seen = call[r].seen
    BY <2>1 DEF Between, OpCalls, BatchCalls
  <2> HIDE DEF d
  <2>4. call'[r] = d /\ \A q \in Requests \ {r} : call'[q] = call[q]
    BY <2>2 DEF SyncInv
  <2>5. SaveReady(r)' /\ \A c \in Cids : Current(r, c)'
    BY <2>1, <2>2, <2>3, <2>4 DEF SyncInv, SaveReady, Current, Fresh
  <2>6. \A q \in Requests \ {r} : SaveReady(q)' /\ \A c \in Cids : Current(q, c)'
    BY <2>2, <2>4 DEF SyncInv, SaveReady, Current, Fresh
  <2>7. \A q \in Requests : call'[q].op = "images" => record'[call'[q].c] # None
    BY <2>2, <2>3, <2>4 DEF SyncInv
  <2>8. call' \in [Requests -> BatchCalls] /\ SyncTypeOK' /\ StoredWhole'
    BY <2>2, <2>3 DEF SyncInv, SyncTypeOK, StoredWhole
  <2> QED BY <2>5, <2>6, <2>7, <2>8 DEF SyncInv
<1> QED BY <1>1, <1>2

LEMMA LoadBatchKeeps ==
  ASSUME SyncInv, NEW r \in Requests, LoadBatch(r)
  PROVE  SyncInv'
<1> DEFINE d == Between(record, MaxOps)
<1>1. call' = [call EXCEPT ![r] = d] /\ UNCHANGED <<stale, record>>
  BY DEF LoadBatch, Load
<1>2. d \in BatchCalls /\ d.op = "sync" /\ d.seen = record
  BY SyncAssumption DEF Between, BatchCalls, Snapshots, SyncInv, SyncTypeOK
<1> HIDE DEF d
<1>3. call'[r] = d /\ \A q \in Requests \ {r} : call'[q] = call[q]
  BY <1>1 DEF SyncInv
<1>4. SaveReady(r)' /\ \A c \in Cids : Current(r, c)'
  BY <1>1, <1>2, <1>3 DEF SaveReady, Current
<1>5. \A q \in Requests \ {r} : SaveReady(q)' /\ \A c \in Cids : Current(q, c)'
  BY <1>1, <1>3 DEF SyncInv, SaveReady, Current, Fresh
<1>6. \A q \in Requests : call'[q].op = "images" => record'[call'[q].c] # None
  BY <1>1, <1>2, <1>3 DEF SyncInv
<1>7. call' \in [Requests -> BatchCalls] /\ SyncTypeOK' /\ StoredWhole'
  BY <1>1, <1>2 DEF SyncInv, SyncTypeOK, StoredWhole
<1> QED BY <1>4, <1>5, <1>6, <1>7 DEF SyncInv

\* A save in Desk makes what a request saw of the record stale.
LEMMA DeskEditKeeps ==
  ASSUME SyncInv, NEW c \in Cids, DeskEdit(c)
  PROVE  SyncInv'
<1>1. record[c] # None /\ record[c] \in RecordDoc /\ record[c].rev < MaxRev
  BY DEF DeskEdit, SyncInv, SyncTypeOK
<1>2. PICK doc : doc = [record[c] EXCEPT !.rev = @ + 1]
  OBVIOUS
<1>3. doc \in RecordDoc /\ doc.whole = record[c].whole
  BY <1>1, <1>2, SyncAssumption DEF RecordDoc
<1>4. record' = [record EXCEPT ![c] = doc]
  BY <1>2 DEF DeskEdit
<1>5. c \notin Stocked => doc.whole
  BY <1>1, <1>3 DEF SyncInv, StoredWhole
<1>6. /\ SyncTypeOK' /\ StoredWhole' /\ record'[c] # None
      /\ \A x \in Cids \ {c} : record'[x] = record[x]
  BY <1>3, <1>4, <1>5, WriteKeeps DEF SyncInv
<1>7. ASSUME NEW q \in Requests
      PROVE  /\ SaveReady(q)' /\ \A x \in Cids : Current(q, x)'
             /\ call'[q].op = "images" => record'[call'[q].c] # None
  <2>1. call' = call /\ call[q] \in BatchCalls
    BY DEF DeskEdit, SyncInv
  <2>2. CASE call[q] = Idle
    BY <2>1, <2>2 DEF SaveReady, Current, Idle
  <2>3. CASE call[q] # Idle
    <3>1. \A x \in Cids : Fresh(q, x)' => Fresh(q, x) /\ x # c
      BY <2>3 DEF DeskEdit, Fresh
    <3>2. call[q].op \in {"save", "images"} => call[q].c \in Cids
      BY <2>1, <2>3 DEF BatchCalls, OpCalls
    <3> QED BY <1>6, <2>1, <3>1, <3>2 DEF SyncInv, SaveReady, Current
  <2> QED BY <2>2, <2>3
<1>8. call' \in [Requests -> BatchCalls]
  BY DEF DeskEdit, SyncInv
<1> QED BY <1>6, <1>7, <1>8 DEF SyncInv

\* Every step keeps the invariant.
LEMMA StepSynced ==
  ASSUME SyncInv, [SyncNext]_<<backendVars, syncVars>>
  PROVE  SyncInv'
<1>1. ASSUME NEW r \in Requests,
             \/ LoadBatch(r) \/ InsertCustomer(r) \/ InsertItem(r) \/ SaveImages(r)
             \/ SaveCustomer(r) \/ SaveItem(r) \/ Disable(r) \/ SaveAttachments(r)
             \/ FailOp(r)
      PROVE  SyncInv'
  BY <1>1, LoadBatchKeeps, InsertCustomerKeeps, InsertItemKeeps, SaveImagesKeeps,
     SaveOpKeeps, FailOpKeeps
<1>2. ASSUME NEW r \in Requests, EndBatch(r)
      PROVE  SyncInv'
  BY <1>2, DoneKeeps DEF EndBatch
<1>3. ASSUME NEW r \in Requests, NEW c \in Cids, NEW kind \in Kinds,
             NEW base \in 1..MaxRev \cup {None},
             base # None => record[c] # None /\ base <= record[c].rev,
             CustomerOp(r, c, kind, base) \/ ItemOp(r, c, kind, base)
      PROVE  SyncInv'
  BY <1>3, BeginKeeps DEF CustomerOp, ItemOp
<1>4. ASSUME NEW c \in Cids, DeskEdit(c)
      PROVE  SyncInv'
  BY <1>4, DeskEditKeeps
<1>5. CASE UNCHANGED <<backendVars, syncVars>>
  BY <1>5 DEF backendVars, syncVars, SyncInv, SyncTypeOK, StoredWhole, SaveReady, Current,
     Fresh
<1> QED BY <1>1, <1>2, <1>3, <1>4, <1>5 DEF SyncNext, Kinds

\* The invariant holds throughout.
THEOREM SyncInvariant == SyncSpec => []SyncInv
<1>1. SyncInv /\ [SyncNext]_<<backendVars, syncVars>> => SyncInv'
  BY StepSynced
<1> QED BY InitSynced, <1>1, PTL DEF SyncSpec

\* Whichever operation of a batch fails, a committed customer or item has its
\* contact, address and images, unless it has opening stock (batch.py).
THEOREM CommittedIsWhole == SyncSpec => []StoredWhole
<1>1. SyncInv => StoredWhole
  BY DEF SyncInv
<1> QED BY SyncInvariant, <1>1, PTL

\* An update or delete that was not forced replaces the version its client had, in
\* a batch of any length, whoever else saves the record (_conflict_response).
THEOREM NobodyIsOverwritten == SyncSpec => NoLostUpdate
<1>1. ASSUME SyncInv, [SyncNext]_<<backendVars, syncVars>>,
             NEW r \in Requests, NEW c \in Cids,
             Saves(r, c), call[r].kind # "create", call[r].base # None
      PROVE  record[c].rev = call[r].base
  <2>1. SaveCustomer(r) \/ SaveItem(r) \/ Disable(r)
    <3>1. /\ call'[r] # call[r] /\ record'[c].rev # record[c].rev
          /\ call[r].op = "save" /\ call[r].c = c
      BY <1>1 DEF Saves
    <3>2. PICK q \in Requests :
            \/ InsertCustomer(q) \/ InsertItem(q) \/ SaveImages(q)
            \/ SaveCustomer(q) \/ SaveItem(q) \/ Disable(q) \/ SaveAttachments(q)
      BY <1>1, <3>1 DEF SyncNext, LoadBatch, FailOp, EndBatch, CustomerOp, ItemOp, BeginOp,
         DeskEdit, syncVars
    <3>3. q = r
      BY <1>1, <3>1, <3>2 DEF SyncInv, InsertCustomer, InsertItem, SaveImages, SaveCustomer,
         SaveItem, Disable, SaveAttachments, Saved, Stored, Commit
    <3>4. CASE SaveAttachments(q)
      <4>1. call[r] \in OpCalls
        BY <1>1, <3>1 DEF SyncInv, BatchCalls, Idle
      <4>2. record[c] \in RecordDoc
        BY <1>1, <3>1, <4>1 DEF OpCalls, SyncInv, SaveReady, Current, SyncTypeOK
      <4>3. record'[c] = [record[c] EXCEPT !.whole = TRUE]
        BY <1>1, <3>1, <3>3, <3>4 DEF SaveAttachments, Stored, SyncInv, SyncTypeOK
      <4> QED BY <3>1, <4>2, <4>3 DEF RecordDoc
    <3> QED BY <3>1, <3>2, <3>3, <3>4 DEF InsertCustomer, InsertItem, SaveImages
  <2>2. Fresh(r, c)
    BY <1>1, <2>1 DEF Saves, SaveCustomer, SaveItem, Disable, Saved
  <2>3. call[r].seen[c] # None
    BY <1>1 DEF Saves, SyncInv, SaveReady
  <2> QED BY <1>1, <2>2, <2>3 DEF Saves, SyncInv, SaveReady, Current
<1>2. SyncInv /\ [SyncNext]_<<backendVars, syncVars>> =>
        [\A r \in Requests, c \in Cids :
           Saves(r, c) /\ call[r].kind # "create" /\ call[r].base # None
             => record[c].rev = call[r].base]_record
  BY <1>1
<1> QED BY SyncInvariant, <1>2, PTL DEF SyncSpec, NoLostUpdate

-----------------------------------------------------------------------------
(***************************************************************************)
(* ChatTurn: a tool that needs a confirmation runs once for each.          *)
(***************************************************************************)

ChatCalls ==
  {Idle} \cup [op : {"begin", "spend tool", "spend plan", "plan", "approved", "run",
                     "persist"},
               turn : TurnDoc, job : BOOLEAN, did : BOOLEAN, row : BOOLEAN]

Carries(r, k) == call[r] # Idle /\ call[r].turn.tok = k

\* A careful client sends a token again only when its turn has been answered.
OneCarrier ==
  \A k \in Tokens :
    /\ \A r, q \in Requests : Carries(r, k) /\ Carries(q, k) => r = q
    /\ \A r \in Requests, t \in queue : Carries(r, k) => t.tok # k
    /\ \A t, u \in queue : t.tok = k /\ u.tok = k => t = u

\* Clients send only tokens that they were given.
Issued ==
  /\ \A r \in Requests, k \in Tokens : Carries(r, k) => token[k] # None
  /\ \A t \in queue, k \in Tokens : t.tok = k => token[k] # None

\* The token was issued for a tool, in this conversation and to this user, and,
\* if clients are careful, the tool has not run.
IsFor(turn, k) ==
  /\ k \in Tokens /\ token[k] # None
  /\ token[k].kind = "tool" /\ token[k].user = turn.user /\ token[k].chat = turn.chat
  /\ DoubleClicks \/ ran[k] = 0

Confirmed(r) ==
  call[r] # Idle =>
    /\ call[r].op \in {"spend tool", "run"} \/ call[r].did =>
         IsFor(call[r].turn, call[r].turn.tok)
    /\ call[r].op = "run" \/ call[r].did => ~token[call[r].turn.tok].live
    /\ call[r].did => call[r].op = "persist"
    /\ call[r].op = "spend plan" => call[r].turn.tok \in Tokens

UnspentNeverRan ==
  \A k \in Tokens : token[k] = None \/ token[k].live => ran[k] = 0

ChatInv ==
  /\ ChatTypeOK
  /\ call \in [Requests -> ChatCalls]
  /\ DoubleClicks \/ OneCarrier
  /\ Issued /\ UnspentNeverRan
  /\ \A r \in Requests : Confirmed(r)

LEMMA InitChat == BackendInit /\ ChatInit => ChatInv
<1> SUFFICES ASSUME BackendInit, ChatInit PROVE ChatInv
  OBVIOUS
<1>1. \A r \in Requests : call[r] = Idle /\ Idle \in ChatCalls
  BY DEF BackendInit, ChatCalls
<1>2. call \in [Requests -> ChatCalls]
  BY <1>1 DEF BackendInit
<1>3. ChatTypeOK
  BY DEF ChatInit, ChatTypeOK
<1> QED BY <1>1, <1>2, <1>3
        DEF ChatInit, ChatInv, OneCarrier, Issued, Carries, UnspentNeverRan, Confirmed

LEMMA ChatCall ==
  ASSUME ChatInv, NEW r \in Requests, call[r] # Idle
  PROVE  /\ call[r] \in ChatCalls \ {Idle} /\ call[r].turn \in TurnDoc
         /\ call[r].turn.user \in ChatUsers /\ call[r].turn.chat \in Chats
         /\ call[r].turn.tok \in Tokens \cup {None}
BY DEF ChatInv, ChatCalls, TurnDoc

LEMMA IdleIsNone == Idle.op = "none"
BY DEF Idle

\* What a step leaves of a token that was issued.
TokensStay ==
  \A k \in Tokens : token[k] # None =>
    /\ token'[k] # None
    /\ token'[k].kind = token[k].kind /\ token'[k].user = token[k].user
    /\ token'[k].chat = token[k].chat
    /\ token'[k].live => token[k].live

\* A step of one turn, which counts runs under no other token than its own.
LEMMA TurnKeepsChat ==
  ASSUME ChatInv, NEW r \in Requests, NEW c \in ChatCalls, call[r] # Idle,
         c = Idle \/ c.turn = call[r].turn,
         call' = [call EXCEPT ![r] = c], queue' = queue,
         ChatTypeOK', TokensStay, UnspentNeverRan',
         \A k \in Tokens : k # call[r].turn.tok => ran'[k] = ran[k],
         Confirmed(r)'
  PROVE  ChatInv'
<1>1. call'[r] = c /\ \A q \in Requests \ {r} : call'[q] = call[q]
  BY DEF ChatInv
<1>2. call' \in [Requests -> ChatCalls]
  BY DEF ChatInv
<1>3. \A q \in Requests, k \in Tokens : Carries(q, k)' => Carries(q, k)
  BY <1>1 DEF Carries
<1>4. DoubleClicks \/ OneCarrier'
  BY <1>3 DEF ChatInv, OneCarrier
<1>6. Issued'
  BY <1>3 DEF ChatInv, Issued, TokensStay
<1>5. ASSUME NEW q \in Requests PROVE Confirmed(q)'
  <2>1. CASE q = r
    BY <2>1
  <2>2. CASE q # r
    <3> SUFFICES ASSUME call[q] # Idle PROVE Confirmed(q)'
      BY <1>1, <2>2 DEF Confirmed
    <3>1. Confirmed(q) /\ call'[q] = call[q]
      BY <1>1, <2>2 DEF ChatInv
    <3> DEFINE k == call[q].turn.tok
    <3>2. DoubleClicks \/ (k \in Tokens => k # call[r].turn.tok)
      BY <2>2 DEF ChatInv, OneCarrier, Carries
    <3>3. ASSUME IsFor(call[q].turn, k) PROVE IsFor(call[q].turn, k)'
      BY <1>1, <2>2, <3>1, <3>2, <3>3 DEF IsFor, TokensStay
    <3>4. k \in Tokens /\ token[k] # None =>
            token'[k] # None /\ (token'[k].live => token[k].live)
      BY DEF TokensStay
    <3>5. IsFor(call[q].turn, k) => k \in Tokens /\ token[k] # None
      BY DEF IsFor
    <3> QED BY <3>1, <3>3, <3>4, <3>5 DEF Confirmed
  <2> QED BY <2>1, <2>2
<1> QED BY <1>2, <1>4, <1>5, <1>6 DEF ChatInv

\* A step that leaves tokens and runs alone, and with it what was confirmed.
LEMMA PlainTurn ==
  ASSUME ChatInv, NEW r \in Requests, NEW c \in ChatCalls, call[r] # Idle,
         c = Idle \/ c.turn = call[r].turn,
         call' = [call EXCEPT ![r] = c], UNCHANGED <<queue, token, ran>>,
         ChatTypeOK', Confirmed(r)'
  PROVE  ChatInv'
<1>1. TokensStay /\ UnspentNeverRan'
  BY DEF TokensStay, ChatInv, UnspentNeverRan
<1> QED BY <1>1, TurnKeepsChat

LEMMA AnyBoolean ==
  ASSUME NEW n PROVE \E x \in BOOLEAN : x = (n > 0)
<1>1. CASE n > 0
  <2>1. (n > 0) = TRUE
    BY <1>1
  <2> QED BY <2>1
<1>2. CASE ~(n > 0)
  <2>1. (n > 0) = FALSE
    BY <1>2
  <2> QED BY <2>1
<1> QED BY <1>1, <1>2

\* A request that is not touched, and neither are tokens and runs.
LEMMA ConfirmedStays ==
  ASSUME NEW r \in Requests, Confirmed(r), call'[r] = call[r], token' = token, ran' = ran
  PROVE  Confirmed(r)'
<1>1. IsFor(call[r].turn, call[r].turn.tok)' <=> IsFor(call[r].turn, call[r].turn.tok)
  BY DEF IsFor
<1> QED BY <1>1 DEF Confirmed

LEMMA SendKeepsChat ==
  ASSUME ChatInv, NEW r \in Requests, NEW u \in ChatUsers,
         NEW s \in Chats, NEW k \in Tokens \cup {None}, Send(r, u, s, k)
  PROVE  ChatInv'
<1> DEFINE turn == [user |-> u, chat |-> s, tok |-> k]
<1>1. /\ turn \in TurnDoc /\ turn.tok = k /\ turn.user = u /\ turn.chat = s
      /\ UNCHANGED <<token, ran, usage>> /\ call[r] = Idle
      /\ k # None => token[k] # None /\ (DoubleClicks \/ k \notin Carried)
  BY DEF Send, TurnDoc, Load
<1>2. PICK x \in BOOLEAN : x = (usage[u] > 0)
  BY AnyBoolean
<1> DEFINE c == [op |-> "begin", turn |-> turn, job |-> FALSE, did |-> FALSE, row |-> x]
<1>3. BeginCall(turn, FALSE) = c
  BY <1>1, <1>2 DEF BeginCall
<1>4. c \in ChatCalls /\ c # Idle
  BY <1>1 DEF ChatCalls, Idle
<1>5. c.turn = turn /\ c.op = "begin" /\ c.did = FALSE
  OBVIOUS
<1> HIDE DEF c, turn
<1>6. ~DoubleClicks /\ k \in Tokens =>
        (\A q \in Requests : ~Carries(q, k)) /\ \A t \in queue : t.tok # k
  BY <1>1, ChatAssumption DEF Carried, Carries
<1>7. CASE Load(r, c) /\ stopped' = stopped \ {s} /\ UNCHANGED queue
  <2>1. call'[r] = c /\ (\A q \in Requests \ {r} : call'[q] = call[q])
        /\ call' \in [Requests -> ChatCalls]
    BY <1>4, <1>7 DEF Load, ChatInv
  <2>2. ChatTypeOK' /\ UnspentNeverRan'
    BY <1>1, <1>7 DEF ChatInv, ChatTypeOK, UnspentNeverRan
  <2>3. \A q \in Requests, h \in Tokens :
          Carries(q, h)' <=> Carries(q, h) \/ (q = r /\ h = k)
    BY <1>1, <1>4, <1>5, <2>1 DEF Carries
  <2>4. DoubleClicks \/ OneCarrier'
    BY <1>6, <1>7, <2>3 DEF ChatInv, OneCarrier
  <2>5. Issued'
    BY <1>1, <1>7, <2>3, ChatAssumption DEF ChatInv, Issued
  <2>6. \A q \in Requests \ {r} : Confirmed(q)'
    BY <1>1, <2>1, ConfirmedStays DEF ChatInv
  <2>7. Confirmed(r)'
    BY <1>5, <2>1 DEF Confirmed
  <2> QED BY <2>1, <2>2, <2>4, <2>5, <2>6, <2>7 DEF ChatInv
<1>8. CASE queue' = queue \cup {turn} /\ UNCHANGED <<call, stale, stopped>>
  <2>1. ChatTypeOK' /\ UnspentNeverRan' /\ call' \in [Requests -> ChatCalls]
    BY <1>1, <1>8 DEF ChatInv, ChatTypeOK, UnspentNeverRan
  <2>2. \A q \in Requests, h \in Tokens : Carries(q, h)' <=> Carries(q, h)
    BY <1>8 DEF Carries
  <2>3. DoubleClicks \/ OneCarrier'
    BY <1>1, <1>6, <1>8, <2>2 DEF ChatInv, OneCarrier
  <2>4. \A q \in Requests : Confirmed(q)'
    BY <1>1, <1>8 DEF ChatInv, Confirmed, IsFor
  <2>5. Issued'
    BY <1>1, <1>8, <2>2, ChatAssumption DEF ChatInv, Issued
  <2> QED BY <2>1, <2>3, <2>4, <2>5 DEF ChatInv
<1>9. \/ Load(r, c) /\ stopped' = stopped \ {s} /\ UNCHANGED queue
      \/ queue' = queue \cup {turn} /\ UNCHANGED <<call, stale, stopped>>
  <2>1. \/ Load(r, BeginCall(turn, FALSE)) /\ stopped' = stopped \ {s} /\ UNCHANGED queue
        \/ queue' = queue \cup {turn} /\ UNCHANGED <<call, stale, stopped>>
    BY DEF Send, turn
  <2> QED BY <2>1, <1>3
<1> QED BY <1>7, <1>8, <1>9

LEMMA TakeKeepsChat ==
  ASSUME ChatInv, NEW r \in Requests, TakeTurn(r)
  PROVE  ChatInv'
<1>1. PICK turn \in queue :
        /\ Load(r, BeginCall(turn, TRUE))
        /\ queue' = queue \ {turn} /\ stopped' = stopped \ {turn.chat}
  BY DEF TakeTurn
<1>2. turn \in TurnDoc /\ UNCHANGED <<token, ran, usage>> /\ call[r] = Idle
  BY <1>1 DEF TakeTurn, Load, ChatInv, ChatTypeOK
<1>3. PICK x \in BOOLEAN : x = (usage[turn.user] > 0)
  BY AnyBoolean
<1> DEFINE c == [op |-> "begin", turn |-> turn, job |-> TRUE, did |-> FALSE, row |-> x]
<1>4. BeginCall(turn, TRUE) = c
  BY <1>3 DEF BeginCall
<1>5. c \in ChatCalls /\ c # Idle
  BY <1>2 DEF ChatCalls, Idle
<1>6. c.turn = turn /\ c.op = "begin" /\ c.did = FALSE
  OBVIOUS
<1>7. Load(r, c)
  BY <1>1, <1>4
<1> HIDE DEF c
<1>8. call'[r] = c /\ (\A q \in Requests \ {r} : call'[q] = call[q])
      /\ call' \in [Requests -> ChatCalls]
  BY <1>5, <1>7 DEF Load, ChatInv
<1>9. ChatTypeOK' /\ UnspentNeverRan'
  BY <1>1, <1>2 DEF ChatInv, ChatTypeOK, UnspentNeverRan
<1>10. \A q \in Requests, h \in Tokens :
         Carries(q, h)' <=> Carries(q, h) \/ (q = r /\ h = turn.tok)
  BY <1>2, <1>5, <1>6, <1>8 DEF Carries
<1>11. DoubleClicks \/ OneCarrier'
  BY <1>1, <1>10 DEF ChatInv, OneCarrier
<1>12. \A q \in Requests \ {r} : Confirmed(q)'
  BY <1>2, <1>8, ZenonT(60) DEF ChatInv, Confirmed, IsFor
<1>13. Confirmed(r)'
  BY <1>6, <1>8 DEF Confirmed
<1>14. Issued'
  BY <1>1, <1>2, <1>10 DEF ChatInv, Issued
<1> QED BY <1>8, <1>9, <1>11, <1>12, <1>13, <1>14 DEF ChatInv

\* Step moves a turn on.
LEMMA StepMoves ==
  ASSUME ChatInv, NEW r \in Requests, call[r] # Idle,
         NEW op \in {"begin", "spend tool", "spend plan", "plan", "approved", "run",
                     "persist"},
         Step(r, op)
  PROVE  \E c \in ChatCalls \ {Idle} :
           /\ call' = [call EXCEPT ![r] = c] /\ call'[r] = c
           /\ c.op = op /\ c.turn = call[r].turn /\ c.did = call[r].did
<1> DEFINE c == [call[r] EXCEPT !.op = op]
<1>1. call[r] \in ChatCalls \ {Idle}
  BY ChatCall
<1>2. /\ c \in ChatCalls /\ c.op = op /\ c.turn = call[r].turn /\ c.did = call[r].did
  BY <1>1 DEF ChatCalls
<1>3. c # Idle
  BY <1>2, IdleIsNone
<1>4. call' = [call EXCEPT ![r] = c]
  BY DEF Step
<1>5. call'[r] = c
  BY <1>4 DEF ChatInv
<1> QED BY <1>2, <1>3, <1>4, <1>5

LEMMA NotDid ==
  ASSUME ChatInv, NEW r \in Requests, call[r] # Idle, call[r].op # "persist"
  PROVE  call[r].did = FALSE
<1>1. call[r].did \in BOOLEAN
  BY ChatCall DEF ChatCalls
<1>2. ~call[r].did
  BY DEF ChatInv, Confirmed
<1> QED BY <1>1, <1>2

LEMMA ReadKeepsChat ==
  ASSUME ChatInv, NEW r \in Requests, ReadToken(r)
  PROVE  ChatInv'
<1>1. call[r].op = "begin" /\ call[r] # Idle /\ UNCHANGED <<token, ran, usage, stopped, queue>>
  BY IdleIsNone DEF ReadToken
<1>2. PICK op \in {"spend tool", "spend plan", "plan"} :
        /\ Step(r, op)
        /\ op = "spend tool" => call[r].turn.tok # None /\ Valid(call[r].turn, "tool")
        /\ op = "spend plan" => call[r].turn.tok # None /\ Valid(call[r].turn, "plan")
  BY DEF ReadToken
<1>3. PICK c \in ChatCalls \ {Idle} :
        /\ call' = [call EXCEPT ![r] = c] /\ call'[r] = c
        /\ c.op = op /\ c.turn = call[r].turn /\ c.did = call[r].did
  <2>1. op \in {"begin", "spend tool", "spend plan", "plan", "approved", "run", "persist"}
    OBVIOUS
  <2>2. Step(r, op) /\ call[r] # Idle
    BY <1>1, <1>2
  <2> QED BY <2>1, <2>2, StepMoves
<1>4. c.did = FALSE
  BY <1>1, <1>3, NotDid
<1>5. ChatTypeOK'
  BY <1>1 DEF ChatInv, ChatTypeOK
<1>6. call[r].turn.tok \in Tokens \cup {None}
  BY <1>1, ChatCall
<1>7. ASSUME op \in {"spend tool", "spend plan"}
      PROVE  /\ call[r].turn.tok \in Tokens /\ token[call[r].turn.tok].live
             /\ token[call[r].turn.tok] # None
  <2>1. call[r].turn.tok \in Tokens
    BY <1>2, <1>6, <1>7
  <2>2. token[call[r].turn.tok] # None
    BY <1>1, <2>1 DEF ChatInv, Issued, Carries
  <2>3. Valid(call[r].turn, "tool") \/ Valid(call[r].turn, "plan")
    BY <1>2, <1>7
  <2>4. token[call[r].turn.tok].live
    BY <2>3 DEF Valid
  <2> QED BY <2>1, <2>2, <2>4
<1>8. op = "spend tool" => IsFor(call[r].turn, call[r].turn.tok)
  BY <1>2, <1>7 DEF IsFor, Valid, ChatInv, UnspentNeverRan
<1>9. Confirmed(r)'
  BY <1>1, <1>2, <1>3, <1>4, <1>7, <1>8 DEF Confirmed, IsFor
<1> QED BY <1>1, <1>3, <1>5, <1>9, PlainTurn

LEMMA TokenKept ==
  ASSUME ChatInv, NEW k \in Tokens, token[k] # None,
         token' = [token EXCEPT ![k].live = FALSE], ran' = ran
  PROVE  /\ token' \in [Tokens -> TokenDoc \cup {None}]
         /\ TokensStay /\ UnspentNeverRan' /\ ~token'[k].live
<1>1. token[k] \in TokenDoc
  BY DEF ChatInv, ChatTypeOK
<1>2. PICK t : t = [token[k] EXCEPT !.live = FALSE]
  OBVIOUS
<1>3. /\ t \in TokenDoc /\ t.kind = token[k].kind /\ t.user = token[k].user
      /\ t.chat = token[k].chat /\ t.live = FALSE
  BY <1>1, <1>2 DEF TokenDoc
<1>4. t # None
  BY <1>3, TokenAssumption
<1>5. token' = [token EXCEPT ![k] = t]
  BY <1>2
<1>6. token'[k] = t /\ \A h \in Tokens \ {k} : token'[h] = token[h]
  BY <1>5 DEF ChatInv, ChatTypeOK
<1>7. token' \in [Tokens -> TokenDoc \cup {None}]
  BY <1>3, <1>5 DEF ChatInv, ChatTypeOK
<1> QED BY <1>3, <1>4, <1>6, <1>7 DEF TokensStay, UnspentNeverRan, ChatInv

LEMMA SpendKeepsChat ==
  ASSUME ChatInv, NEW r \in Requests, SpendToken(r)
  PROVE  ChatInv'
<1>0. PICK k : k = call[r].turn.tok
  OBVIOUS
<1>1. /\ call[r].op \in {"spend tool", "spend plan"} /\ call[r] # Idle
      /\ UNCHANGED <<ran, usage, stopped, queue>>
      /\ token' = [token EXCEPT ![k].live = FALSE]
  BY <1>0, IdleIsNone DEF SpendToken
<1>2. PICK op \in {"run", "approved"} :
        Step(r, op) /\ (op = "run" => call[r].op = "spend tool")
  BY DEF SpendToken
<1>3. PICK c \in ChatCalls \ {Idle} :
        /\ call' = [call EXCEPT ![r] = c] /\ call'[r] = c
        /\ c.op = op /\ c.turn = call[r].turn /\ c.did = call[r].did
  <2>1. op \in {"begin", "spend tool", "spend plan", "plan", "approved", "run", "persist"}
    OBVIOUS
  <2>2. Step(r, op) /\ call[r] # Idle
    BY <1>1, <1>2
  <2> QED BY <2>1, <2>2, StepMoves
<1>4. c.did = FALSE
  BY <1>1, <1>3, NotDid
<1>5. k \in Tokens /\ token[k] # None
  <2>1. k \in Tokens
    BY <1>0, <1>1 DEF ChatInv, Confirmed, IsFor
  <2> QED BY <1>0, <1>1, <2>1 DEF ChatInv, Issued, Carries
<1>6. /\ token' \in [Tokens -> TokenDoc \cup {None}]
      /\ TokensStay /\ UnspentNeverRan' /\ ~token'[k].live
  BY <1>1, <1>5, TokenKept
<1>7. ChatTypeOK'
  BY <1>1, <1>6 DEF ChatInv, ChatTypeOK
<1>8. op = "run" => IsFor(call[r].turn, k)
  BY <1>0, <1>1, <1>2 DEF ChatInv, Confirmed
<1>9. op = "run" => IsFor(call[r].turn, k)'
  BY <1>1, <1>3, <1>5, <1>6, <1>8 DEF IsFor, TokensStay
<1>10. Confirmed(r)'
  BY <1>0, <1>2, <1>3, <1>4, <1>6, <1>9 DEF Confirmed, IsFor
<1> QED BY <1>1, <1>3, <1>6, <1>7, <1>10, TurnKeepsChat

LEMMA RunKeepsChat ==
  ASSUME ChatInv, NEW r \in Requests, RunTool(r)
  PROVE  ChatInv'
<1>1. call[r].op = "run" /\ call[r] # Idle /\ UNCHANGED <<stale, token, ran, usage, stopped, queue>>
  BY IdleIsNone DEF RunTool
<1>2. PICK x \in BOOLEAN : x = (call[r].turn.chat \notin stopped)
  OBVIOUS
<1>3. PICK did \in BOOLEAN :
        call' = [call EXCEPT ![r].op = "persist", ![r].did = did]
  BY <1>2 DEF RunTool
<1>4. PICK c : c = [call[r] EXCEPT !.op = "persist", !.did = did]
  OBVIOUS
<1>5. c \in ChatCalls /\ c.turn = call[r].turn /\ c.op = "persist" /\ c # Idle
  <2>1. call[r] \in ChatCalls \ {Idle}
    BY <1>1, ChatCall
  <2>2. c \in ChatCalls /\ c.turn = call[r].turn /\ c.op = "persist"
    BY <2>1, <1>4 DEF ChatCalls
  <2> QED BY <2>2, IdleIsNone
<1>6. call' = [call EXCEPT ![r] = c] /\ call'[r] = c
  BY <1>3, <1>4 DEF ChatInv
<1>7. IsFor(call[r].turn, call[r].turn.tok) /\ ~token[call[r].turn.tok].live
  BY <1>1 DEF ChatInv, Confirmed
<1>8. Confirmed(r)'
  BY <1>1, <1>5, <1>6, <1>7 DEF Confirmed, IsFor
<1>9. ChatTypeOK'
  BY <1>1 DEF ChatInv, ChatTypeOK
<1> QED BY <1>1, <1>5, <1>6, <1>8, <1>9, PlainTurn

LEMMA AnswerKeepsChat ==
  ASSUME ChatInv, NEW r \in Requests, AnswerTurn(r)
  PROVE  ChatInv'
<1>1. /\ call[r].op \in {"plan", "approved"} /\ call[r] # Idle /\ Step(r, "persist")
      /\ UNCHANGED <<token, ran, usage, stopped, queue>>
  BY IdleIsNone DEF AnswerTurn
<1>2. PICK c \in ChatCalls \ {Idle} :
        /\ call' = [call EXCEPT ![r] = c] /\ call'[r] = c
        /\ c.op = "persist" /\ c.turn = call[r].turn /\ c.did = call[r].did
  BY <1>1, StepMoves
<1>3. c.did = FALSE
  BY <1>1, <1>2, NotDid
<1>4. ChatTypeOK' /\ Confirmed(r)'
  BY <1>1, <1>2, <1>3 DEF ChatInv, ChatTypeOK, Confirmed
<1> QED BY <1>1, <1>2, <1>4, PlainTurn

LEMMA AskKeepsChat ==
  ASSUME ChatInv, NEW r \in Requests, NEW k \in Tokens, NEW kind \in {"tool", "plan"},
         Ask(r, k, kind)
  PROVE  ChatInv'
<1>1. /\ call[r].op \in {"plan", "approved"} /\ call[r] # Idle /\ Step(r, "persist")
      /\ token[k] = None /\ UNCHANGED <<ran, usage, stopped, queue>>
  BY IdleIsNone DEF Ask
<1>2. PICK t : t = [chat |-> call[r].turn.chat, user |-> call[r].turn.user,
                    kind |-> kind, live |-> TRUE]
  OBVIOUS
<1>3. token' = [token EXCEPT ![k] = t] /\ t \in TokenDoc
  BY <1>1, <1>2, ChatCall DEF Ask, TokenDoc
<1>4. PICK c \in ChatCalls \ {Idle} :
        /\ call' = [call EXCEPT ![r] = c] /\ call'[r] = c
        /\ c.op = "persist" /\ c.turn = call[r].turn /\ c.did = call[r].did
  BY <1>1, StepMoves
<1>5. c.did = FALSE
  BY <1>1, <1>4, NotDid
<1>6. \A h \in Tokens \ {k} : token'[h] = token[h]
  BY <1>3 DEF ChatInv, ChatTypeOK
<1>7. ChatTypeOK'
  BY <1>1, <1>3 DEF ChatInv, ChatTypeOK
<1>8. TokensStay /\ UnspentNeverRan'
  BY <1>1, <1>6 DEF TokensStay, UnspentNeverRan, ChatInv
<1>9. Confirmed(r)'
  BY <1>4, <1>5 DEF Confirmed
<1> QED BY <1>1, <1>4, <1>7, <1>8, <1>9, TurnKeepsChat

\* What the end of a turn counts, and when.
Counts(r) ==
  \A k \in Tokens : ran'[k] # ran[k] =>
    /\ ran'[k] = ran[k] + 1 /\ call[r] # Idle /\ call[r].turn.tok = k
    /\ IsFor(call[r].turn, k) /\ ~token[k].live

LEMMA EndKeepsChat ==
  ASSUME ChatInv, NEW r \in Requests, Persist(r) \/ FailTurn(r) \/ KillTurn(r)
  PROVE  ChatInv' /\ Counts(r)
<1>1. /\ call[r] # Idle /\ call' = [call EXCEPT ![r] = Idle]
      /\ UNCHANGED <<token, stopped, queue>>
      /\ ran' = ran \/ ran' = Ran(r)
      /\ usage' = usage \/ usage' = [usage EXCEPT ![call[r].turn.user] = @ + 1]
  BY IdleIsNone DEF Persist, FailTurn, KillTurn, Done, Commit
<1>2. call[r].did => IsFor(call[r].turn, call[r].turn.tok) /\ ~token[call[r].turn.tok].live
  BY <1>1 DEF ChatInv, Confirmed
<1>3. call[r].turn.tok \in Tokens \cup {None} /\ call[r].turn.user \in ChatUsers
  BY <1>1, ChatCall
<1>4. ran' = ran \/ (call[r].did /\ ran' = [ran EXCEPT ![call[r].turn.tok] = @ + 1])
  BY <1>1 DEF Ran
<1>5. ran \in [Tokens -> Nat]
  BY DEF ChatInv, ChatTypeOK
<1>6. ran' \in [Tokens -> Nat]
  BY <1>2, <1>4, <1>5 DEF IsFor
<1>7. Counts(r)
  BY <1>1, <1>2, <1>4, <1>5 DEF Counts, IsFor
<1>8. ChatTypeOK'
  BY <1>1, <1>3, <1>6 DEF ChatInv, ChatTypeOK
<1>9. TokensStay
  BY <1>1 DEF TokensStay
<1>10. UnspentNeverRan'
  BY <1>1, <1>7 DEF UnspentNeverRan, ChatInv, Counts, IsFor
<1>11. \A k \in Tokens : k # call[r].turn.tok => ran'[k] = ran[k]
  BY <1>7 DEF Counts
<1>12. Idle \in ChatCalls /\ call'[r] = Idle
  BY <1>1 DEF ChatCalls, ChatInv
<1>13. Confirmed(r)'
  BY <1>12 DEF Confirmed
<1> QED BY <1>1, <1>7, <1>8, <1>9, <1>10, <1>11, <1>12, <1>13, TurnKeepsChat

LEMMA OutsideKeepsChat ==
  ASSUME ChatInv,
         \/ \E s \in Chats : Cancel(s) \/ ExpireStop(s) \/ EditChat(s)
         \/ \E k \in Tokens : ExpireToken(k)
  PROVE  ChatInv' /\ ran' = ran
<1>1. ASSUME NEW s \in Chats, Cancel(s) \/ ExpireStop(s) \/ EditChat(s)
      PROVE  ChatInv' /\ ran' = ran
  <2>1. UNCHANGED <<call, token, ran, usage, queue>> /\ stopped' \in SUBSET Chats
    BY <1>1 DEF Cancel, ExpireStop, EditChat, ChatInv, ChatTypeOK
  <2>2. \A r \in Requests : Confirmed(r)'
    BY <2>1, ConfirmedStays DEF ChatInv
  <2> QED BY <2>1, <2>2
          DEF ChatInv, ChatTypeOK, OneCarrier, Issued, Carries, UnspentNeverRan
<1>2. ASSUME NEW k \in Tokens, ExpireToken(k)
      PROVE  ChatInv' /\ ran' = ran
  <2>1. /\ UNCHANGED <<call, ran, usage, stopped, queue>> /\ token[k] # None
        /\ token' = [token EXCEPT ![k].live = FALSE]
    BY <1>2 DEF ExpireToken
  <2>2. token' \in [Tokens -> TokenDoc \cup {None}] /\ TokensStay /\ UnspentNeverRan'
    BY <2>1, TokenKept
  <2>3. ChatTypeOK'
    BY <2>1, <2>2 DEF ChatInv, ChatTypeOK
  <2>4. ASSUME NEW r \in Requests PROVE Confirmed(r)'
    <3>1. Confirmed(r) /\ call'[r] = call[r] /\ ran' = ran
      BY <2>1 DEF ChatInv
    <3>2. IsFor(call[r].turn, call[r].turn.tok) =>
            /\ IsFor(call[r].turn, call[r].turn.tok)'
            /\ ~token[call[r].turn.tok].live => ~token'[call[r].turn.tok].live
      BY <2>2, <3>1 DEF IsFor, TokensStay
    <3> QED BY <3>1, <3>2 DEF Confirmed
  <2>5. (DoubleClicks \/ OneCarrier') /\ Issued'
    BY <2>1, <2>2 DEF ChatInv, OneCarrier, Issued, Carries, TokensStay
  <2> QED BY <2>1, <2>2, <2>3, <2>4, <2>5 DEF ChatInv
<1> QED BY <1>1, <1>2

LEMMA StepKeepsChat ==
  ASSUME ChatInv, [ChatNext]_<<backendVars, chatVars>>
  PROVE  ChatInv' /\ (ran' = ran \/ \E r \in Requests : Counts(r))
<1>1. CASE UNCHANGED <<backendVars, chatVars>>
  <2>1. \A r \in Requests : Confirmed(r)'
    BY <1>1, ConfirmedStays DEF ChatInv, backendVars, chatVars
  <2> QED BY <1>1, <2>1 DEF backendVars, chatVars, ChatInv, ChatTypeOK, OneCarrier,
                            Issued, Carries, UnspentNeverRan
<1>2. ASSUME NEW r \in Requests, NEW u \in ChatUsers, NEW s \in Chats,
             NEW k \in Tokens \cup {None}, Send(r, u, s, k)
      PROVE  ChatInv' /\ ran' = ran
  BY <1>2, SendKeepsChat DEF Send
<1>3. ASSUME NEW r \in Requests, NEW k \in Tokens, NEW kind \in {"tool", "plan"},
             Ask(r, k, kind)
      PROVE  ChatInv' /\ ran' = ran
  BY <1>3, AskKeepsChat DEF Ask
<1>4. ASSUME NEW r \in Requests,
             TakeTurn(r) \/ ReadToken(r) \/ SpendToken(r) \/ RunTool(r) \/ AnswerTurn(r)
      PROVE  ChatInv' /\ ran' = ran
  <2>1. ran' = ran
    BY <1>4 DEF TakeTurn, ReadToken, SpendToken, RunTool, AnswerTurn
  <2> QED BY <1>4, <2>1, TakeKeepsChat, ReadKeepsChat, SpendKeepsChat, RunKeepsChat,
             AnswerKeepsChat
<1>5. CASE ChatNext
  BY <1>2, <1>3, <1>4, <1>5, EndKeepsChat, OutsideKeepsChat DEF ChatNext
<1> QED BY <1>1, <1>5

OnceEach ==
  \A k \in Tokens : ran'[k] > ran[k] =>
    /\ ran[k] = 0 /\ token[k].kind = "tool"
    /\ \E r \in Requests : /\ call[r] # Idle
                           /\ call[r].turn.tok = k
                           /\ call[r].turn.user = token[k].user
                           /\ call[r].turn.chat = token[k].chat

\* A tool that writes runs at most once for one confirmation, for the user and in
\* the conversation that were asked, with any number of conversations, tokens,
\* turns and workers, if the client sends no token again before it has an answer
\* (consume_token).
THEOREM ConfirmedToolsRunOnce ==
  ASSUME ~DoubleClicks PROVE ChatSpec => TokenOnce
<1>1. ChatInv /\ [ChatNext]_<<backendVars, chatVars>> => ChatInv'
  BY StepKeepsChat
<1>2. ASSUME ChatInv, [ChatNext]_<<backendVars, chatVars>> PROVE OnceEach
  <2>1. ran' = ran \/ \E r \in Requests : Counts(r)
    BY <1>2, StepKeepsChat
  <2>2. ran \in [Tokens -> Nat]
    BY <1>2 DEF ChatInv, ChatTypeOK
  <2> QED BY <2>1, <2>2 DEF OnceEach, Counts, IsFor
<1>3. ChatInv /\ [ChatNext]_<<backendVars, chatVars>> => [OnceEach]_ran
  BY <1>2
<1>4. [OnceEach]_ran <=>
        [\A k \in Tokens : ran'[k] > ran[k] =>
           /\ ran[k] = 0 /\ token[k].kind = "tool"
           /\ \E r \in Requests : /\ call[r] # Idle
                                  /\ call[r].turn.tok = k
                                  /\ call[r].turn.user = token[k].user
                                  /\ call[r].turn.chat = token[k].chat]_ran
  BY DEF OnceEach
<1> QED BY <1>1, <1>3, <1>4, InitChat, PTL DEF ChatSpec, TokenOnce

AsConfirmed ==
  \A k \in Tokens : ran'[k] # ran[k] =>
    /\ ran'[k] = ran[k] + 1 /\ token[k].kind = "tool" /\ ~token[k].live
    /\ \E r \in Requests : /\ call[r] # Idle
                           /\ call[r].turn.tok = k
                           /\ call[r].turn.user = token[k].user
                           /\ call[r].turn.chat = token[k].chat

\* Whatever a client sends, and however often before it has an answer: a tool that
\* writes runs for a turn that spent a token, which was issued for that tool, in
\* this conversation and to this user, and once for each such turn (consume_token,
\* run_turn).
THEOREM NothingRunsUnconfirmed == ChatSpec => [][AsConfirmed]_ran
<1>1. ChatInv /\ [ChatNext]_<<backendVars, chatVars>> => ChatInv'
  BY StepKeepsChat
<1>2. ASSUME ChatInv, [ChatNext]_<<backendVars, chatVars>> PROVE [AsConfirmed]_ran
  <2>1. ran' = ran \/ \E r \in Requests : Counts(r)
    BY <1>2, StepKeepsChat
  <2> QED BY <2>1 DEF AsConfirmed, Counts, IsFor
<1> QED BY <1>1, <1>2, InitChat, PTL DEF ChatSpec

-----------------------------------------------------------------------------
(***************************************************************************)
(* The sum.  A behaviour is one of one part, and the others rest.          *)
(***************************************************************************)

-----------------------------------------------------------------------------
\* A behaviour of the sum is one of the part, or the part is at rest.
LEMMA TrackerInTheSum ==
  BackOfficeSpec => \/ TrackerSpec
                    \/ BackendInit /\ TrackerInit /\ [][FALSE]_trackerVars
<1>1. BackOfficeInit => BackendInit /\ TrackerInit
  BY DEF BackOfficeInit
<1>2. part \in TimerParts /\ [BackOfficeNext]_BackOfficeVars
        => (part \in TimerParts)' /\ [TrackerNext]_<<backendVars, trackerVars>>
  BY DEF BackOfficeNext, BackOfficeVars, TimerParts, VanParts, Timers
<1>3. ~(part \in TimerParts) /\ [BackOfficeNext]_BackOfficeVars
        => (~(part \in TimerParts))' /\ [FALSE]_trackerVars
  BY DEF BackOfficeNext, BackOfficeVars
<1> QED BY <1>1, <1>2, <1>3, PTL DEF BackOfficeSpec, TrackerSpec

LEMMA ChatInTheSum ==
  BackOfficeSpec => \/ ChatSpec
                    \/ BackendInit /\ ChatInit /\ [][FALSE]_chatVars
<1>1. BackOfficeInit => BackendInit /\ ChatInit
  BY DEF BackOfficeInit
<1>2. part = "chat" /\ [BackOfficeNext]_BackOfficeVars
        => (part = "chat")' /\ [ChatNext]_<<backendVars, chatVars>>
  BY DEF BackOfficeNext, BackOfficeVars, TimerParts, VanParts
<1>3. ~(part = "chat") /\ [BackOfficeNext]_BackOfficeVars
        => (~(part = "chat"))' /\ [FALSE]_chatVars
  BY DEF BackOfficeNext, BackOfficeVars
<1> QED BY <1>1, <1>2, <1>3, PTL DEF BackOfficeSpec, ChatSpec

LEMMA SyncInTheSum ==
  BackOfficeSpec => \/ SyncSpec
                    \/ BackendInit /\ SyncInit /\ [][FALSE]_syncVars
<1>1. BackOfficeInit => BackendInit /\ SyncInit
  BY DEF BackOfficeInit
<1>2. part = "sync" /\ [BackOfficeNext]_BackOfficeVars
        => (part = "sync")' /\ [SyncNext]_<<backendVars, syncVars>>
  BY DEF BackOfficeNext, BackOfficeVars, TimerParts, VanParts, SyncPart
<1>3. ~(part = "sync") /\ [BackOfficeNext]_BackOfficeVars
        => (~(part = "sync"))' /\ [FALSE]_syncVars
  BY DEF BackOfficeNext, BackOfficeVars
<1> QED BY <1>1, <1>2, <1>3, PTL DEF BackOfficeSpec, SyncSpec

LEMMA LedgerInTheSum ==
  BackOfficeSpec => \/ LedgerSpec
                    \/ BackendInit /\ LedgerInit /\ [][FALSE]_ledgerVars
<1>1. BackOfficeInit => BackendInit /\ LedgerInit
  BY DEF BackOfficeInit
<1>2. part = "ledger" /\ [BackOfficeNext]_BackOfficeVars
        => (part = "ledger")' /\ [LedgerNext]_<<backendVars, ledgerVars>>
  BY DEF BackOfficeNext, BackOfficeVars, TimerParts, VanParts, LedgerPart
<1>3. ~(part = "ledger") /\ [BackOfficeNext]_BackOfficeVars
        => (~(part = "ledger"))' /\ [FALSE]_ledgerVars
  BY DEF BackOfficeNext, BackOfficeVars
<1> QED BY <1>1, <1>2, <1>3, PTL DEF BackOfficeSpec, LedgerSpec

LEMMA VanInTheSum ==
  BackOfficeSpec => \/ VanSpec
                    \/ BackendInit /\ VanInit /\ [][FALSE]_vanVars
<1>1. BackOfficeInit => BackendInit /\ VanInit
  BY DEF BackOfficeInit
<1>2. part \in VanParts /\ [BackOfficeNext]_BackOfficeVars
        => (part \in VanParts)' /\ [VanNext]_<<backendVars, vanVars>>
  BY DEF BackOfficeNext, BackOfficeVars, TimerParts, VanParts, VanPart
<1>3. ~(part \in VanParts) /\ [BackOfficeNext]_BackOfficeVars
        => (~(part \in VanParts))' /\ [FALSE]_vanVars
  BY DEF BackOfficeNext, BackOfficeVars
<1> QED BY <1>1, <1>2, <1>3, PTL DEF BackOfficeSpec, VanSpec

-----------------------------------------------------------------------------
\* What holds of a part that rests as of one that does not.
LEMMA TimersHold ==
  BackOfficeSpec => /\ [](TrackerTypeOK /\ StoppedOnceBilled /\ SingleActive)
                    /\ TaskLife
<1>1. TrackerInv => TrackerTypeOK /\ StoppedOnceBilled
  BY DEF TrackerInv
<1>2. /\ TrackerTypeOK /\ StoppedOnceBilled /\ SingleActive
      /\ [FALSE]_trackerVars
      => (TrackerTypeOK /\ StoppedOnceBilled /\ SingleActive)'
  BY DEF TrackerTypeOK, StoppedOnceBilled, SingleActive, ActiveSessions, Of, trackerVars
<1>3. [FALSE]_trackerVars => [FALSE]_stage
  BY DEF trackerVars
<1> QED
  BY <1>1, <1>2, <1>3, InitTracked, OneTimerEach, TrackerInvariant, TasksKeepTheirLife,
     TrackerInTheSum, PTL DEF TaskLife

LEMMA ChatHolds ==
  /\ BackOfficeSpec => []ChatTypeOK /\ [][AsConfirmed]_ran
  /\ ~DoubleClicks => (BackOfficeSpec => TokenOnce)
<1>1. ChatInv => ChatTypeOK
  BY DEF ChatInv
<1>2. ChatTypeOK /\ [FALSE]_chatVars => ChatTypeOK'
  BY DEF ChatTypeOK, chatVars
<1>3. [FALSE]_chatVars => [FALSE]_ran
  BY DEF chatVars
<1>4. ChatInv /\ [ChatNext]_<<backendVars, chatVars>> => ChatInv'
  BY StepKeepsChat
<1>5. BackOfficeSpec => []ChatTypeOK /\ [][AsConfirmed]_ran
  BY <1>1, <1>2, <1>3, <1>4, InitChat, NothingRunsUnconfirmed, ChatInTheSum, PTL DEF ChatSpec
<1>6. ASSUME ~DoubleClicks PROVE BackOfficeSpec => TokenOnce
  BY <1>3, <1>6, ConfirmedToolsRunOnce, ChatInTheSum, PTL DEF TokenOnce
<1> QED BY <1>5, <1>6

LEMMA BatchesHold == BackOfficeSpec => [](SyncTypeOK /\ StoredWhole) /\ NoLostUpdate
<1>1. SyncInv => SyncTypeOK /\ StoredWhole
  BY DEF SyncInv
<1>2. SyncTypeOK /\ StoredWhole /\ [FALSE]_syncVars => (SyncTypeOK /\ StoredWhole)'
  BY DEF SyncTypeOK, StoredWhole, syncVars
<1>3. [FALSE]_syncVars => [FALSE]_record
  BY DEF syncVars
<1> QED
  BY <1>1, <1>2, <1>3, InitSynced, SyncInvariant, NobodyIsOverwritten, SyncInTheSum, PTL
     DEF NoLostUpdate

LEMMA LedgerKeptTyped == BackOfficeSpec => []LedgerTypeOK
<1>1. LedgerTypeOK /\ [FALSE]_ledgerVars => LedgerTypeOK'
  BY DEF LedgerTypeOK, ledgerVars
<1> QED BY <1>1, LedgerTypes, LedgerInTheSum, PTL

LEMMA MoneyHolds ==
  ASSUME SnapshotIsolation
  PROVE  BackOfficeSpec => []NeverOverpaid /\ MoneyIsKept
<1>1. LedgerInv => NeverOverpaid
  BY DEF LedgerInv
<1>2. NeverOverpaid /\ [FALSE]_ledgerVars => NeverOverpaid'
  BY DEF NeverOverpaid, Outstanding, Paid, PostedPayments, Posted, Settles, ledgerVars
<1>3. [FALSE]_ledgerVars => [FALSE]_payment
  BY DEF ledgerVars
<1>4. LedgerInv /\ [LedgerNext]_<<backendVars, ledgerVars>> => LedgerInv'
  BY StepKeepsLedger, StutterKeepsLedger
<1> QED
  BY <1>1, <1>2, <1>3, <1>4, InitLedger, MoneyStaysKept, LedgerInTheSum, PTL
     DEF LedgerSpec, MoneyIsKept

LEMMA PapersHold ==
  /\ BackOfficeSpec => []VanTypeOK
  /\ SnapshotIsolation => (BackOfficeSpec => PapersKeepTheirWord)
<1>1. VanInv => VanTypeOK
  BY DEF VanInv
<1>2. VanTypeOK /\ [FALSE]_vanVars => VanTypeOK'
  BY DEF VanTypeOK, vanVars
<1>3. [FALSE]_vanVars => [Papers!PromiseNext]_(Papers!promiseVars)
  BY DEF vanVars, Papers!promiseVars, Exists, Purpose
<1>4. BackOfficeSpec => []VanTypeOK
  BY <1>1, <1>2, InitVan, VanInvariant, VanInTheSum, PTL
<1>5. ASSUME SnapshotIsolation PROVE BackOfficeSpec => PapersKeepTheirWord
  BY <1>3, <1>5, InitPromise, PapersAreAsPromised, VanInTheSum, PTL
     DEF PapersKeepTheirWord, Papers!PromiseSpec
<1> QED BY <1>4, <1>5

-----------------------------------------------------------------------------
\* All documents of the back office keep their types, whichever part is at work.
THEOREM BackOfficeTypes == BackOfficeSpec => []BackOfficeTypeOK
BY TimersHold, ChatHolds, BatchesHold, LedgerKeptTyped, PapersHold, PTL DEF BackOfficeTypeOK

\* What is checked of the sum on small instances holds of it for any users, tasks,
\* chats, records, documents and requests.
THEOREM BackOfficeIsRight ==
  ASSUME SnapshotIsolation, ~DoubleClicks
  PROVE  BackOfficeSpec => /\ []StoppedOnceBilled /\ []SingleActive /\ []StoredWhole
                           /\ []NeverOverpaid
                           /\ TaskLife /\ TokenOnce /\ NoLostUpdate /\ MoneyIsKept
                           /\ PapersKeepTheirWord
<1>1. (BackOfficeSpec => TokenOnce) /\ (BackOfficeSpec => PapersKeepTheirWord)
  BY ChatHolds, PapersHold
<1> QED BY <1>1, TimersHold, BatchesHold, MoneyHolds, PTL
=============================================================================
