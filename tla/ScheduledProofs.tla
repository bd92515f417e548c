------------------------- MODULE ScheduledProofs ---------------------------
(***************************************************************************)
(* Proofs about tasks that users plan, for any plans and requests, and about *)
(* MCScheduled as a whole: what is proved of its parts holds of their sum. *)
(***************************************************************************)
EXTENDS MCScheduled, PlatformProofs, CommerceProofs

-----------------------------------------------------------------------------
(***************************************************************************)
(* ScheduledTasks: a plan that keeps failing is off, and an occurrence is  *)
(* queued once.                                                            *)
(***************************************************************************)

PlanCalls ==
  {Idle} \cup [op : {"tick"}, now : Nat, due : SUBSET Plans]
         \cup [op : {"now"}, p : Plans, next : Nat \cup {None}]
         \cup [op : {"start", "run"}, p : Plans, fails : 0..MaxFailures + 1]
         \cup [op : {"form"}, p : Plans, doc : PlanDoc]

PlanTypes ==
  /\ PlanTypeOK
  /\ call \in [Requests -> PlanCalls]
  /\ stale \in [Requests -> SUBSET Plans]
  /\ taken \in [Plans -> [Times -> Nat]]

\* What a call holds.
LEMMA PlanCall ==
  ASSUME PlanTypes, NEW r \in Requests
  PROVE  /\ call[r] \in PlanCalls
         /\ call[r].op = "tick" => call[r].now \in Nat /\ call[r].due \in SUBSET Plans
         /\ call[r].op = "now" => call[r].p \in Plans /\ call[r].next \in Nat \cup {None}
         /\ call[r].op \in {"start", "run"} =>
              call[r].p \in Plans /\ call[r].fails \in 0..MaxFailures + 1
         /\ call[r].op = "form" => call[r].p \in Plans /\ call[r].doc \in PlanDoc
BY DEF PlanTypes, PlanCalls, Idle

LEMMA InitPlanTypes == BackendInit /\ PlanInit => PlanTypes
BY DEF BackendInit, PlanInit, PlanTypes, PlanTypeOK, PlanDoc, PlanCalls, Idle, MaxFailures

LEMMA IdleCall == Idle \in PlanCalls /\ Idle.op = "none"
BY DEF PlanCalls, Idle

\* r goes on with c, having changed the plans `saved` under everybody's eyes.
Moves(r, c, saved) ==
  /\ call' = [call EXCEPT ![r] = c]
  /\ stale' \in [Requests -> SUBSET Plans]
  /\ \A q \in Requests \ {r}, p \in Plans :
       call[q] # Idle /\ p \notin stale'[q] => p \notin stale[q] /\ p \notin saved

LEMMA LoadMoves ==
  ASSUME PlanTypes, NEW r \in Requests, NEW c, Load(r, c)
  PROVE  Moves(r, c, {})
BY DEF Load, Moves, PlanTypes

LEMMA CommitMoves ==
  ASSUME PlanTypes, NEW r \in Requests, NEW c, NEW saved \in SUBSET Plans, Commit(r, c, saved)
  PROVE  Moves(r, c, saved)
BY DEF Commit, Moves, PlanTypes

-----------------------------------------------------------------------------
(* What each step does to the documents, the claims and the calls.         *)

LEMMA TickEffect ==
  ASSUME PlanTypes, NEW r \in Requests, Tick(r)
  PROVE  \E claimed \in SUBSET Plans :
           /\ Moves(r, Idle, claimed) /\ now' = now
           /\ \A p \in claimed :
                /\ p \in call[r].due /\ Claimable(r, p)
                /\ plan'[p] = [plan[p] EXCEPT !.state = "Queued", !.next = call[r].now + 1]
                /\ taken'[p] = IF plan[p].next \in Times
                                 THEN [taken[p] EXCEPT ![plan[p].next] = @ + 1] ELSE taken[p]
           /\ \A p \in Plans \ claimed : plan'[p] = plan[p] /\ taken'[p] = taken[p]
           /\ PlanTypes'
<1>1. PICK claimed \in SUBSET {p \in call[r].due : Claimable(r, p) /\ jobs[p] < MaxJobs} :
       /\ plan' = [p \in Plans |->
            IF p \in claimed
              THEN [plan[p] EXCEPT !.state = "Queued", !.next = NextRun(call[r].now)]
              ELSE plan[p]]
       /\ old' = old \ claimed
       /\ jobs' = [p \in Plans |-> IF p \in claimed THEN jobs[p] + 1 ELSE jobs[p]]
       /\ taken' = [p \in Plans |->
            IF p \in claimed /\ plan[p].next \in Times
              THEN [taken[p] EXCEPT ![plan[p].next] = @ + 1] ELSE taken[p]]
       /\ Done(r, claimed)
  BY DEF Tick
<1>2. call[r].now \in Nat /\ call[r].due \in SUBSET Plans
  BY PlanCall DEF Tick
<1>3. claimed \in SUBSET Plans /\ now' = now
  BY <1>1, <1>2 DEF Tick
<1>4. Moves(r, Idle, claimed)
  BY <1>1, <1>3, CommitMoves DEF Done
<1>5. plan \in [Plans -> PlanDoc] /\ plan' \in [Plans -> PlanDoc]
  <2>1. plan \in [Plans -> PlanDoc]
    BY DEF PlanTypes, PlanTypeOK
  <2>2. \A p \in Plans :
          [plan[p] EXCEPT !.state = "Queued", !.next = NextRun(call[r].now)] \in PlanDoc
    <3>1. NextRun(call[r].now) \in Nat
      BY <1>2 DEF NextRun
    <3> QED BY <2>1, <3>1 DEF PlanDoc
  <2> QED BY <1>1, <2>1, <2>2
<1>6. taken' \in [Plans -> [Times -> Nat]]
  <2>1. \A p \in Plans : plan[p].next \in Times =>
          [taken[p] EXCEPT ![plan[p].next] = @ + 1] \in [Times -> Nat]
    BY DEF PlanTypes
  <2> QED BY <1>1, <2>1 DEF PlanTypes
<1>7. jobs' \in [Plans -> Nat] /\ old' \in SUBSET Plans /\ now' \in Nat
  <2>1. jobs \in [Plans -> Nat] /\ old \in SUBSET Plans /\ now \in Nat
    BY DEF PlanTypes, PlanTypeOK
  <2>2. jobs' \in [Plans -> Nat]
    <3>1. jobs' = [p \in Plans |-> IF p \in claimed THEN jobs[p] + 1 ELSE jobs[p]]
      BY <1>1
    <3>2. \A p \in Plans : jobs[p] + 1 \in Nat
      BY <2>1
    <3> QED BY <2>1, <3>1, <3>2
  <2> QED BY <1>1, <1>3, <2>1, <2>2
<1>8. PlanTypes'
  BY <1>4, <1>5, <1>6, <1>7, IdleCall DEF PlanTypes, PlanTypeOK, Moves
<1> QED BY <1>1, <1>3, <1>4, <1>8 DEF NextRun

LEMMA RunNowEffect ==
  ASSUME PlanTypes, NEW r \in Requests, RunNow(r)
  PROVE  LET p == call[r].p
         IN  /\ p \in Plans /\ Claimable(r, p) /\ Moves(r, Idle, {p}) /\ now' = now
             /\ plan'[p] = [plan[p] EXCEPT !.state = "Queued", !.next = call[r].next]
             /\ \A x \in Plans \ {p} : plan'[x] = plan[x]
             /\ taken' = taken
             /\ PlanTypes'
<1> DEFINE p == call[r].p
<1>1. p \in Plans /\ call[r].next \in Nat \cup {None}
  BY PlanCall DEF RunNow
<1>2. /\ Claimable(r, p) /\ Done(r, {p}) /\ now' = now /\ taken' = taken
      /\ plan' = [plan EXCEPT ![p].state = "Queued", ![p].next = call[r].next]
      /\ old' = old \ {p} /\ jobs' = [jobs EXCEPT ![p] = @ + 1]
  BY DEF RunNow
<1>3. Moves(r, Idle, {p})
  BY <1>1, <1>2, CommitMoves DEF Done
<1>4. plan \in [Plans -> PlanDoc] /\ plan[p] \in PlanDoc
  BY <1>1 DEF PlanTypes, PlanTypeOK
<1>5. /\ plan' = [plan EXCEPT ![p] = [plan[p] EXCEPT !.state = "Queued", !.next = call[r].next]]
      /\ [plan[p] EXCEPT !.state = "Queued", !.next = call[r].next] \in PlanDoc
  BY <1>1, <1>2, <1>4 DEF PlanDoc
<1>6. PlanTypeOK' /\ taken' \in [Plans -> [Times -> Nat]]
  BY <1>1, <1>2, <1>4, <1>5 DEF PlanTypes, PlanTypeOK
<1>7. PlanTypes'
  BY <1>3, <1>6, IdleCall DEF PlanTypes, Moves
<1> QED BY <1>1, <1>2, <1>3, <1>4, <1>5, <1>7

LEMMA SaveFormEffect ==
  ASSUME PlanTypes, NEW r \in Requests, NEW on \in BOOLEAN, NEW moved \in BOOLEAN,
         SaveForm(r, on, moved)
  PROVE  LET p == call[r].p
             doc == call[r].doc
             fresh == on /\ (moved \/ ~plan[p].enabled)
         IN  /\ call[r].op = "form" /\ p \in Plans /\ doc \in PlanDoc
             /\ Fresh(r, p) /\ Moves(r, Idle, {p}) /\ now' = now
             /\ plan'[p].enabled = on
             /\ plan'[p].fails = IF fresh THEN 0 ELSE doc.fails
             /\ plan'[p].next = IF ~on THEN None ELSE IF fresh THEN now + 1 ELSE doc.next
             /\ \A x \in Plans \ {p} : plan'[x] = plan[x]
             /\ taken' = taken
             /\ PlanTypes'
<1> DEFINE p == call[r].p
           doc == call[r].doc
           fresh == on /\ (moved \/ ~plan[p].enabled)
           new == [enabled |-> on, state |-> doc.state,
                   fails |-> IF fresh THEN 0 ELSE doc.fails,
                   next |-> IF ~on THEN None ELSE IF fresh THEN NextRun(now) ELSE doc.next]
<1>1. p \in Plans /\ doc \in PlanDoc /\ call[r].op = "form"
  BY PlanCall DEF SaveForm
<1>2. /\ Fresh(r, p) /\ Done(r, {p}) /\ now' = now /\ taken' = taken
      /\ plan' = [plan EXCEPT ![p] = new]
      /\ old' = old \ {p} /\ jobs' = jobs
  BY DEF SaveForm
<1>3. Moves(r, Idle, {p})
  BY <1>1, <1>2, CommitMoves DEF Done
<1>4. new \in PlanDoc
  <2>1. now \in Nat /\ 0 \in 0..MaxFailures + 1
    BY DEF PlanTypes, PlanTypeOK, MaxFailures
  <2>2. NextRun(now) \in Nat
    BY <2>1 DEF NextRun
  <2>3. (IF fresh THEN 0 ELSE doc.fails) \in 0..MaxFailures + 1
    BY <1>1, <2>1 DEF PlanDoc
  <2>4. (IF ~on THEN None ELSE IF fresh THEN NextRun(now) ELSE doc.next) \in Nat \cup {None}
    BY <1>1, <2>2 DEF PlanDoc
  <2>5. doc.state \in {"Idle", "Queued", "Running"}
    BY <1>1 DEF PlanDoc
  <2> QED BY <2>3, <2>4, <2>5 DEF PlanDoc
<1>5. plan \in [Plans -> PlanDoc]
  BY DEF PlanTypes, PlanTypeOK
<1>6. PlanTypeOK' /\ taken' \in [Plans -> [Times -> Nat]]
  BY <1>1, <1>2, <1>4, <1>5 DEF PlanTypes, PlanTypeOK
<1>7. PlanTypes'
  BY <1>3, <1>6, IdleCall DEF PlanTypes, Moves
<1>8. plan'[p] = new /\ \A x \in Plans \ {p} : plan'[x] = plan[x]
  BY <1>1, <1>2, <1>5
<1> QED BY <1>1, <1>2, <1>3, <1>7, <1>8 DEF NextRun

LEMMA RecordEffect ==
  ASSUME PlanTypes, NEW r \in Requests, NEW failed \in BOOLEAN, Record(r, failed)
  PROVE  LET p == call[r].p
             off == failed /\ call[r].fails + 1 >= MaxFailures
         IN  /\ p \in Plans /\ call[r].fails \in Nat /\ Moves(r, Idle, {}) /\ now' = now
             /\ plan'[p].enabled => plan[p].enabled /\ ~off
             /\ plan'[p].fails = IF failed THEN call[r].fails + 1 ELSE 0
             /\ plan'[p].next = IF off THEN None ELSE plan[p].next
             /\ \A x \in Plans \ {p} : plan'[x] = plan[x]
             /\ taken' = taken
             /\ PlanTypes'
<1> DEFINE p == call[r].p
           fails == IF failed THEN call[r].fails + 1 ELSE 0
           off == fails >= MaxFailures
           new == [enabled |-> plan[p].enabled /\ ~off, state |-> "Idle", fails |-> fails,
                   next |-> IF off THEN None ELSE plan[p].next]
<1>1. p \in Plans /\ call[r].fails \in 0..MaxFailures + 1
  BY PlanCall DEF Record
<1>2. /\ Done(r, {}) /\ now' = now /\ taken' = taken /\ jobs' = jobs /\ old' = old \ {p}
      /\ failed => call[r].fails <= MaxFailures
  BY DEF Record
<1>3. plan \in [Plans -> PlanDoc] /\ plan[p] \in PlanDoc
  BY <1>1 DEF PlanTypes, PlanTypeOK
<1>4. plan' = [plan EXCEPT ![p] = new]
  BY DEF Record
<1>5. off <=> failed /\ call[r].fails + 1 >= MaxFailures
  BY <1>1 DEF MaxFailures
<1>6. fails \in 0..MaxFailures + 1 /\ call[r].fails \in Nat
  BY <1>1, <1>2 DEF MaxFailures
<1>7. new \in PlanDoc
  <2>1. (plan[p].enabled /\ ~off) \in BOOLEAN
    OBVIOUS
  <2>2. (IF off THEN None ELSE plan[p].next) \in Nat \cup {None}
    BY <1>3 DEF PlanDoc
  <2> HIDE DEF fails, off
  <2> QED BY <1>6, <2>1, <2>2 DEF PlanDoc
<1>8. Moves(r, Idle, {})
  BY <1>2, CommitMoves DEF Done
<1>9. PlanTypeOK' /\ taken' \in [Plans -> [Times -> Nat]]
  BY <1>1, <1>2, <1>3, <1>4, <1>7 DEF PlanTypes, PlanTypeOK
<1>10. PlanTypes'
  BY <1>8, <1>9, IdleCall DEF PlanTypes, Moves
<1>11. plan'[p] = new /\ \A x \in Plans \ {p} : plan'[x] = plan[x]
  BY <1>1, <1>3, <1>4
<1>12. plan'[p].enabled => plan[p].enabled /\ ~off
  <2>1. plan'[p].enabled = (plan[p].enabled /\ ~off)
    BY <1>11
  <2> QED BY <2>1
<1>13. plan'[p].fails = fails /\ plan'[p].next = IF off THEN None ELSE plan[p].next
  BY <1>11
<1> HIDE DEF off
<1> QED BY <1>1, <1>2, <1>5, <1>6, <1>8, <1>10, <1>11, <1>12, <1>13

\* The other steps of r: they load a call, or touch nothing but states.
Quiet(r, c) ==
  /\ Moves(r, c, {})
  /\ now' = now /\ taken' = taken
  /\ \A p \in Plans : /\ plan'[p].next = plan[p].next
                      /\ plan'[p].enabled = plan[p].enabled
                      /\ plan'[p].fails = plan[p].fails
  /\ PlanTypes'
LEMMA QuietFrame ==
  ASSUME PlanTypes, NEW r \in Requests, NEW c \in PlanCalls, Moves(r, c, {}),
         UNCHANGED <<plan, now, taken>>, old' \in SUBSET Plans, jobs' \in [Plans -> Nat]
  PROVE  Quiet(r, c)
<1>1. call' \in [Requests -> PlanCalls] /\ stale' \in [Requests -> SUBSET Plans]
  BY DEF Moves, PlanTypes
<1>2. PlanTypeOK' /\ taken' \in [Plans -> [Times -> Nat]]
  BY DEF PlanTypes, PlanTypeOK
<1>3. PlanTypes'
  BY <1>1, <1>2 DEF PlanTypes
<1> QED BY <1>3 DEF Quiet

LEMMA QuietSteps ==
  ASSUME PlanTypes, NEW r \in Requests
  PROVE  /\ StartRun(r) => \E c \in PlanCalls : c.op = "run" /\ Quiet(r, c)
         /\ GiveUpPlan(r) => Quiet(r, Idle)
         /\ LoadTick(r) => \E c \in PlanCalls :
              /\ c.op = "tick" /\ c.now = now /\ Quiet(r, c)
              /\ \A p \in c.due : plan[p].next # None /\ plan[p].next <= now
         /\ \A p \in Plans :
              /\ LoadRunNow(r, p) => Quiet(r, [op |-> "now", p |-> p, next |-> plan[p].next])
              /\ LoadForm(r, p) => Quiet(r, [op |-> "form", p |-> p, doc |-> plan[p]])
              /\ TakeJob(r, p) => \E c \in PlanCalls : c.op \in {"none", "start"} /\ Quiet(r, c)
<1>0. /\ plan \in [Plans -> PlanDoc] /\ jobs \in [Plans -> Nat] /\ old \in SUBSET Plans
      /\ now \in Nat /\ taken \in [Plans -> [Times -> Nat]]
      /\ call \in [Requests -> PlanCalls] /\ stale \in [Requests -> SUBSET Plans]
  BY DEF PlanTypes, PlanTypeOK
<1>1. ASSUME StartRun(r) PROVE \E c \in PlanCalls : c.op = "run" /\ Quiet(r, c)
  <2> DEFINE p == call[r].p
             c == [call[r] EXCEPT !.op = "run"]
  <2>1. p \in Plans /\ c \in PlanCalls /\ c.op = "run"
    <3>1. call[r] \in [op : {"start", "run"}, p : Plans, fails : 0..MaxFailures + 1]
      BY <1>1 DEF StartRun, PlanTypes, PlanCalls, Idle
    <3> QED BY <3>1 DEF PlanCalls
  <2>2. /\ Commit(r, c, {p}) /\ plan' = [plan EXCEPT ![p].state = "Running"]
        /\ old' = old \ {p} /\ UNCHANGED <<jobs, now, taken>>
    BY <1>1 DEF StartRun
  <2>3. Moves(r, c, {})
    BY <2>1, <2>2, CommitMoves DEF Moves
  <2>4. [plan[p] EXCEPT !.state = "Running"] \in PlanDoc
    <3>1. plan[p] \in PlanDoc
      BY <1>0, <2>1
    <3> QED BY <3>1 DEF PlanDoc
  <2>5. plan' \in [Plans -> PlanDoc] /\ \A x \in Plans : /\ plan'[x].next = plan[x].next
                                                        /\ plan'[x].enabled = plan[x].enabled
                                                        /\ plan'[x].fails = plan[x].fails
    BY <1>0, <2>1, <2>2, <2>4 DEF PlanDoc
  <2>6. PlanTypes'
    BY <1>0, <2>1, <2>2, <2>3, <2>5 DEF PlanTypes, PlanTypeOK, Moves
  <2> QED BY <2>1, <2>2, <2>3, <2>5, <2>6 DEF Quiet
<1>2. ASSUME GiveUpPlan(r) PROVE Quiet(r, Idle)
  <2>1. Moves(r, Idle, {})
    BY <1>2, CommitMoves DEF GiveUpPlan, Done
  <2> QED BY <1>0, <1>2, <2>1, IdleCall, QuietFrame DEF GiveUpPlan
<1>3. ASSUME LoadTick(r)
      PROVE  \E c \in PlanCalls :
               /\ c.op = "tick" /\ c.now = now /\ Quiet(r, c)
               /\ \A p \in c.due : plan[p].next # None /\ plan[p].next <= now
  <2> DEFINE due == {p \in Plans : /\ plan[p].enabled /\ plan[p].next # None /\ plan[p].next <= now
                                   /\ plan[p].state = "Idle" \/ p \in old}
             c == [op |-> "tick", now |-> now, due |-> due]
  <2>1. c \in PlanCalls /\ c.op = "tick" /\ c.now = now /\ c.due = due
    BY <1>0 DEF PlanCalls
  <2>2. /\ Load(r, c) /\ old' = {} /\ UNCHANGED <<jobs, now, taken>>
        /\ plan' = [p \in Plans |->
             IF p \in old THEN [plan[p] EXCEPT !.state = "Idle"] ELSE plan[p]]
    BY <1>3 DEF LoadTick
  <2>3. Moves(r, c, {})
    BY <2>2, LoadMoves
  <2>4. \A p \in Plans : [plan[p] EXCEPT !.state = "Idle"] \in PlanDoc
    BY <1>0 DEF PlanDoc
  <2>5. plan' \in [Plans -> PlanDoc] /\ \A x \in Plans : /\ plan'[x].next = plan[x].next
                                                        /\ plan'[x].enabled = plan[x].enabled
                                                        /\ plan'[x].fails = plan[x].fails
    BY <1>0, <2>2, <2>4 DEF PlanDoc
  <2>6. PlanTypes'
    BY <1>0, <2>1, <2>2, <2>3, <2>5 DEF PlanTypes, PlanTypeOK, Moves
  <2>7. Quiet(r, c)
    <3> HIDE DEF c
    <3> QED BY <2>2, <2>3, <2>5, <2>6 DEF Quiet
  <2>8. \A p \in due : plan[p].next # None /\ plan[p].next <= now
    OBVIOUS
  <2> QED BY <2>1, <2>7, <2>8
<1>4. ASSUME NEW c \in PlanCalls, Load(r, c), UNCHANGED <<plan, old, jobs, now, taken, edits>>
      PROVE  Quiet(r, c)
  <2>1. Moves(r, c, {})
    BY <1>4, LoadMoves
  <2> QED BY <1>0, <1>4, <2>1, QuietFrame
<1>5. ASSUME NEW p \in Plans, LoadRunNow(r, p)
      PROVE  Quiet(r, [op |-> "now", p |-> p, next |-> plan[p].next])
  <2>1. plan[p].next \in Nat \cup {None}
    BY <1>0 DEF PlanDoc
  <2>2. [op |-> "now", p |-> p, next |-> plan[p].next] \in PlanCalls
    BY <2>1 DEF PlanCalls
  <2> QED BY <1>4, <1>5, <2>2 DEF LoadRunNow
<1>6. ASSUME NEW p \in Plans, LoadForm(r, p)
      PROVE  Quiet(r, [op |-> "form", p |-> p, doc |-> plan[p]])
  <2>1. [op |-> "form", p |-> p, doc |-> plan[p]] \in PlanCalls
    BY <1>0 DEF PlanCalls
  <2> QED BY <1>4, <1>6, <2>1 DEF LoadForm
<1>7. ASSUME NEW p \in Plans, TakeJob(r, p)
      PROVE  \E c \in PlanCalls : c.op \in {"none", "start"} /\ Quiet(r, c)
  <2>1. jobs' \in [Plans -> Nat] /\ UNCHANGED <<plan, old, now, taken>>
    <3>1. jobs[p] \in Nat /\ jobs[p] > 0 /\ jobs' = [jobs EXCEPT ![p] = jobs[p] - 1]
      BY <1>0, <1>7 DEF TakeJob
    <3>2. jobs[p] - 1 \in Nat
      BY <3>1
    <3> QED BY <1>0, <1>7, <3>1, <3>2 DEF TakeJob
  <2>2. ASSUME NEW c \in PlanCalls, Moves(r, c, {}) PROVE Quiet(r, c)
    BY <1>0, <2>1, <2>2, QuietFrame
  <2>3. CASE plan[p].state = "Queued"
    <3> DEFINE c == [op |-> "start", p |-> p, fails |-> plan[p].fails]
    <3>1. plan[p].fails \in 0..MaxFailures + 1
      BY <1>0 DEF PlanDoc
    <3>2. c \in PlanCalls /\ c.op = "start"
      BY <3>1 DEF PlanCalls
    <3>3. Load(r, c)
      BY <1>7, <2>3 DEF TakeJob
    <3> QED BY <2>2, <3>2, <3>3, LoadMoves
  <2>4. CASE plan[p].state # "Queued"
    <3>1. call[r] = Idle /\ UNCHANGED <<call, stale>>
      BY <1>7, <2>4 DEF TakeJob
    <3>2. Moves(r, Idle, {})
      BY <1>0, <3>1 DEF Moves
    <3> QED BY <2>2, <3>2, IdleCall
  <2> QED BY <2>3, <2>4
<1> QED BY <1>1, <1>2, <1>3, <1>5, <1>6, <1>7

\* The steps of nobody.
LEMMA OutsideSteps ==
  ASSUME PlanTypes, NEW p \in Plans, PassTime \/ Age(p) \/ LoseJob(p)
  PROVE  /\ UNCHANGED <<call, stale, plan, taken>>
         /\ now' \in Nat /\ now <= now'
         /\ PlanTypes'
<1>1. /\ jobs \in [Plans -> Nat] /\ old \in SUBSET Plans /\ now \in Nat
      /\ plan \in [Plans -> PlanDoc]
  BY DEF PlanTypes, PlanTypeOK
<1>2. UNCHANGED <<call, stale, plan, taken>>
  BY DEF PassTime, Age, LoseJob
<1>3. now' \in Nat /\ now <= now'
  BY <1>1 DEF PassTime, Age, LoseJob
<1>4. old' \in SUBSET Plans
  BY <1>1 DEF PassTime, Age, LoseJob
<1>5. jobs' \in [Plans -> Nat]
  <2>1. jobs[p] > 0 => jobs[p] - 1 \in Nat
    BY <1>1
  <2> QED BY <1>1, <2>1 DEF PassTime, Age, LoseJob
<1> QED BY <1>1, <1>2, <1>3, <1>4, <1>5 DEF PlanTypes, PlanTypeOK
-----------------------------------------------------------------------------
(* A task that fails is switched off.                                      *)

\* A form that can still be saved over a plan that is on shows no third failure.
FormsAreCurrent ==
  \A r \in Requests :
    call[r].op = "form" /\ Fresh(r, call[r].p) /\ plan[call[r].p].enabled =>
      call[r].doc.fails < MaxFailures

FailInv == PlanTypes /\ FailingPlanIsOff /\ FormsAreCurrent

\* Plans outside `saved` are not switched on.
LEMMA FailStep ==
  ASSUME FailInv, PlanTypes', NEW r \in Requests, NEW c \in PlanCalls,
         NEW saved \in SUBSET Plans, Moves(r, c, saved), FailingPlanIsOff',
         \A p \in Plans \ saved : plan'[p].enabled => plan[p].enabled,
         c.op = "form" /\ plan'[c.p].enabled => c.doc.fails < MaxFailures
  PROVE  FailInv'
<1>1. ASSUME NEW q \in Requests, call'[q].op = "form", call'[q].p \notin stale'[q],
             plan'[call'[q].p].enabled
      PROVE  call'[q].doc.fails < MaxFailures
  <2>1. CASE q = r
    BY <1>1, <2>1 DEF Moves, FailInv, PlanTypes
  <2>2. CASE q # r
    <3>1. call'[q] = call[q]
      BY <2>2 DEF Moves, FailInv, PlanTypes
    <3>2. call[q].p \in Plans /\ call[q] # Idle
      BY <1>1, <3>1, PlanCall DEF FailInv, Idle
    <3>3. call[q].p \notin stale[q] /\ call[q].p \notin saved
      BY <1>1, <2>2, <3>1, <3>2 DEF Moves
    <3> QED BY <1>1, <3>1, <3>2, <3>3 DEF FailInv, FormsAreCurrent, Fresh
  <2> QED BY <2>1, <2>2
<1>2. FormsAreCurrent'
  BY <1>1 DEF FormsAreCurrent, Fresh
<1> QED BY <1>2 DEF FailInv

LEMMA FailQuiet ==
  ASSUME FailInv, NEW r \in Requests, NEW c \in PlanCalls, Quiet(r, c),
         c.op = "form" /\ plan[c.p].enabled => c.doc.fails < MaxFailures,
         c.op = "form" => c.p \in Plans
  PROVE  FailInv'
<1>1. PlanTypes' /\ Moves(r, c, {})
  BY DEF Quiet
<1>2. \A p \in Plans : plan'[p].enabled = plan[p].enabled /\ plan'[p].fails = plan[p].fails
  BY DEF Quiet
<1>3. FailingPlanIsOff'
  BY <1>2 DEF FailInv, FailingPlanIsOff
<1> QED BY <1>1, <1>2, <1>3, FailStep

LEMMA StepFail == FailInv /\ [PlanNext]_<<backendVars, planVars>> => FailInv'
<1> SUFFICES ASSUME FailInv, [PlanNext]_<<backendVars, planVars>> PROVE FailInv'
  OBVIOUS
<1>0. PlanTypes /\ FailingPlanIsOff
  BY DEF FailInv
<1>1. ASSUME NEW p \in Plans, PassTime \/ Age(p) \/ LoseJob(p) PROVE FailInv'
  BY <1>1, OutsideSteps DEF FailInv, FailingPlanIsOff, FormsAreCurrent, Fresh
<1>2. ASSUME PassTime PROVE FailInv'
  <2>1. PlanTypes'
    BY <1>0, <1>2 DEF PassTime, PlanTypes, PlanTypeOK
  <2> QED BY <1>2, <2>1 DEF PassTime, FailInv, FailingPlanIsOff, FormsAreCurrent, Fresh
<1>3. ASSUME NEW r \in Requests, Tick(r) PROVE FailInv'
  <2>1. PICK claimed \in SUBSET Plans :
           /\ Moves(r, Idle, claimed) /\ now' = now
           /\ \A p \in claimed :
                /\ p \in call[r].due /\ Claimable(r, p)
                /\ plan'[p] = [plan[p] EXCEPT !.state = "Queued", !.next = call[r].now + 1]
                /\ taken'[p] = IF plan[p].next \in Times
                                 THEN [taken[p] EXCEPT ![plan[p].next] = @ + 1] ELSE taken[p]
           /\ \A p \in Plans \ claimed : plan'[p] = plan[p] /\ taken'[p] = taken[p]
           /\ PlanTypes'
    BY <1>0, <1>3, TickEffect
  <2>2. \A p \in Plans : plan'[p].enabled = plan[p].enabled /\ plan'[p].fails = plan[p].fails
    <3> SUFFICES ASSUME NEW p \in claimed
                 PROVE  plan'[p].enabled = plan[p].enabled /\ plan'[p].fails = plan[p].fails
      BY <2>1
    <3>1. plan[p] \in PlanDoc
      BY <1>0 DEF PlanTypes, PlanTypeOK
    <3>2. plan'[p] = [plan[p] EXCEPT !.state = "Queued", !.next = call[r].now + 1]
      BY <2>1
    <3> QED BY <3>1, <3>2 DEF PlanDoc
  <2>3. FailingPlanIsOff'
    BY <1>0, <2>2 DEF FailingPlanIsOff
  <2> QED BY <2>1, <2>2, <2>3, FailStep, IdleCall
<1>4. ASSUME NEW r \in Requests, RunNow(r) PROVE FailInv'
  <2> DEFINE p == call[r].p
  <2>1. /\ p \in Plans /\ Moves(r, Idle, {p}) /\ PlanTypes'
        /\ plan'[p] = [plan[p] EXCEPT !.state = "Queued", !.next = call[r].next]
        /\ \A x \in Plans \ {p} : plan'[x] = plan[x]
    BY <1>0, <1>4, RunNowEffect
  <2>2. \A x \in Plans : plan'[x].enabled = plan[x].enabled /\ plan'[x].fails = plan[x].fails
    <3>1. plan[p] \in PlanDoc
      BY <1>0, <2>1 DEF PlanTypes, PlanTypeOK
    <3>2. plan'[p].enabled = plan[p].enabled /\ plan'[p].fails = plan[p].fails
      BY <2>1, <3>1 DEF PlanDoc
    <3> QED BY <2>1, <3>2
  <2>3. FailingPlanIsOff'
    BY <1>0, <2>2 DEF FailingPlanIsOff
  <2> QED BY <2>1, <2>2, <2>3, FailStep, IdleCall
<1>5. ASSUME NEW r \in Requests, NEW on \in BOOLEAN, NEW moved \in BOOLEAN,
             SaveForm(r, on, moved)
      PROVE  FailInv'
  <2> DEFINE p == call[r].p
             fresh == on /\ (moved \/ ~plan[p].enabled)
  <2>1. /\ call[r].op = "form" /\ p \in Plans /\ Fresh(r, p) /\ Moves(r, Idle, {p}) /\ PlanTypes'
        /\ plan'[p].enabled = on
        /\ plan'[p].fails = IF fresh THEN 0 ELSE call[r].doc.fails
        /\ \A x \in Plans \ {p} : plan'[x] = plan[x]
    BY <1>0, <1>5, SaveFormEffect
  <2>2. on => plan'[p].fails < MaxFailures
    <3>1. CASE fresh
      BY <2>1, <3>1 DEF MaxFailures
    <3>2. CASE on /\ ~fresh
      BY <2>1, <3>2 DEF FailInv, FormsAreCurrent
    <3> QED BY <3>1, <3>2
  <2>3. FailingPlanIsOff'
    BY <1>0, <2>1, <2>2 DEF FailingPlanIsOff
  <2> QED BY <2>1, <2>3, FailStep, IdleCall
<1>6. ASSUME NEW r \in Requests, NEW failed \in BOOLEAN, Record(r, failed) PROVE FailInv'
  <2> DEFINE p == call[r].p
             off == failed /\ call[r].fails + 1 >= MaxFailures
  <2>1. /\ p \in Plans /\ call[r].fails \in Nat /\ Moves(r, Idle, {}) /\ PlanTypes'
        /\ plan'[p].enabled => plan[p].enabled /\ ~off
        /\ plan'[p].fails = IF failed THEN call[r].fails + 1 ELSE 0
        /\ \A x \in Plans \ {p} : plan'[x] = plan[x]
    BY <1>0, <1>6, RecordEffect
  <2>2. ~off => plan'[p].fails < MaxFailures
    BY <2>1 DEF MaxFailures
  <2>3. FailingPlanIsOff' /\ \A x \in Plans : plan'[x].enabled => plan[x].enabled
    BY <1>0, <2>1, <2>2 DEF FailingPlanIsOff
  <2> QED BY <2>1, <2>3, FailStep, IdleCall
<1>7. ASSUME NEW r \in Requests, LoadTick(r) \/ StartRun(r) \/ GiveUpPlan(r) PROVE FailInv'
  <2>1. PICK c \in PlanCalls : c.op # "form" /\ Quiet(r, c)
    BY <1>0, <1>7, QuietSteps, IdleCall
  <2> QED BY <2>1, FailQuiet
<1>8. ASSUME NEW r \in Requests, NEW p \in Plans,
             LoadRunNow(r, p) \/ TakeJob(r, p) \/ LoadForm(r, p)
      PROVE  FailInv'
  <2>1. CASE LoadForm(r, p)
    <3>1. plan[p] \in PlanDoc
      BY <1>0 DEF PlanTypes, PlanTypeOK
    <3>2. [op |-> "form", p |-> p, doc |-> plan[p]] \in PlanCalls
      BY <3>1 DEF PlanCalls
    <3>3. Quiet(r, [op |-> "form", p |-> p, doc |-> plan[p]])
      BY <1>0, <2>1, QuietSteps
    <3>4. plan[p].enabled => plan[p].fails < MaxFailures
      BY <1>0 DEF FailingPlanIsOff
    <3> QED BY <3>2, <3>3, <3>4, FailQuiet
  <2>2. CASE LoadRunNow(r, p)
    <3>1. plan[p].next \in Nat \cup {None}
      BY <1>0 DEF PlanTypes, PlanTypeOK, PlanDoc
    <3>2. [op |-> "now", p |-> p, next |-> plan[p].next] \in PlanCalls
      BY <3>1 DEF PlanCalls
    <3>3. Quiet(r, [op |-> "now", p |-> p, next |-> plan[p].next])
      BY <1>0, <2>2, QuietSteps
    <3> QED BY <3>2, <3>3, FailQuiet
  <2>3. CASE TakeJob(r, p)
    <3>1. PICK c \in PlanCalls : c.op # "form" /\ Quiet(r, c)
      BY <1>0, <2>3, QuietSteps
    <3> QED BY <3>1, FailQuiet
  <2> QED BY <1>8, <2>1, <2>2, <2>3
<1>9. CASE UNCHANGED <<backendVars, planVars>>
  BY <1>9 DEF FailInv, FailingPlanIsOff, FormsAreCurrent, PlanTypes, PlanTypeOK, Fresh,
              backendVars, planVars
<1> QED BY <1>1, <1>2, <1>3, <1>4, <1>5, <1>6, <1>7, <1>8, <1>9 DEF PlanNext

\* A task that is on has failed fewer than three times in a row by its own count,
\* for any tasks, workers and copies saved in between (_record).
THEOREM FailingPlansAreOff == PlanSpec => []FailingPlanIsOff
<1>1. BackendInit /\ PlanInit => FailInv
  BY InitPlanTypes DEF BackendInit, PlanInit, FailInv, FailingPlanIsOff, FormsAreCurrent, Idle,
                       MaxFailures
<1>2. FailInv => FailingPlanIsOff
  BY DEF FailInv
<1> QED BY <1>1, <1>2, StepFail, PTL DEF PlanSpec

-----------------------------------------------------------------------------
(* An occurrence is queued once.                                           *)

\* Every occurrence of p that was queued comes before n.
QueuedBefore(p, n) == \A m \in Times : taken[p][m] # 0 => m < n

\* What a call holds about p when p was not saved since: no occurrence it may
\* queue, or write back as the next one, was queued.
HoldsStill(r, p) ==
  /\ call[r].op = "tick" /\ p \in call[r].due =>
       /\ QueuedBefore(p, call[r].now + 1)
       /\ plan[p].next # None => plan[p].next <= call[r].now
  /\ call[r].op = "now" /\ call[r].p = p /\ call[r].next # None =>
       QueuedBefore(p, call[r].next)
  /\ call[r].op = "form" /\ call[r].p = p /\ call[r].doc.next # None =>
       QueuedBefore(p, call[r].doc.next)

PlanIsAhead(p) ==
  /\ QueuedBefore(p, now + 1)
  /\ plan[p].next # None => QueuedBefore(p, plan[p].next)
  /\ \A m \in Times : taken[p][m] <= 1

OnceInv ==
  /\ PlanTypes
  /\ \A r \in Requests : call[r].op = "tick" => call[r].now <= now
  /\ \A p \in Plans : PlanIsAhead(p)
  /\ \A r \in Requests, p \in Plans : Fresh(r, p) => HoldsStill(r, p)

LEMMA OnceStep ==
  ASSUME OnceInv, PlanTypes', now' = now, NEW r \in Requests, NEW c \in PlanCalls,
         NEW saved \in SUBSET Plans, Moves(r, c, saved),
         \A p \in Plans \ saved :
           taken'[p] = taken[p] /\ plan'[p].next \in {plan[p].next, None},
         \A p \in saved : PlanIsAhead(p)',
         c.op = "tick" => c.now = now,
         \A p \in Plans : HoldsStill(r, p)'
  PROVE  OnceInv'
<1>0. call'[r] = c /\ \A q \in Requests \ {r} : call'[q] = call[q]
  BY DEF Moves, OnceInv, PlanTypes
<1>1. \A q \in Requests : call'[q].op = "tick" => call'[q].now <= now'
  <2>1. now \in Nat
    BY DEF OnceInv, PlanTypes, PlanTypeOK
  <2> QED BY <1>0, <2>1 DEF OnceInv
<1>2. ASSUME NEW p \in Plans PROVE PlanIsAhead(p)'
  BY DEF OnceInv, PlanIsAhead, QueuedBefore
<1>3. ASSUME NEW q \in Requests, NEW p \in Plans, p \notin stale'[q]
      PROVE  HoldsStill(q, p)'
  <2>1. CASE q # r /\ call[q] # Idle
    <3>1. p \notin stale[q] /\ p \notin saved
      BY <1>3, <2>1 DEF Moves
    <3>2. HoldsStill(q, p)
      BY <3>1 DEF OnceInv, Fresh
    <3>3. taken'[p] = taken[p] /\ plan'[p].next \in {plan[p].next, None}
      BY <3>1
    <3> QED BY <1>0, <2>1, <3>2, <3>3 DEF HoldsStill, QueuedBefore
  <2>2. CASE q # r /\ call[q] = Idle
    BY <1>0, <2>2 DEF HoldsStill, Idle
  <2> QED BY <2>1, <2>2
<1> QED BY <1>1, <1>2, <1>3 DEF OnceInv, Fresh

\* Nothing is queued, and no next occurrence moves.
LEMMA OnceQuiet ==
  ASSUME OnceInv, NEW r \in Requests, NEW c \in PlanCalls, Quiet(r, c),
         c.op = "tick" => c.now = now /\ \A p \in c.due : plan[p].next # None /\ plan[p].next <= now,
         c.op = "now" => c.p \in Plans /\ c.next = plan[c.p].next,
         c.op = "form" => c.p \in Plans /\ c.doc = plan[c.p]
  PROVE  OnceInv'
<1>1. /\ PlanTypes' /\ Moves(r, c, {}) /\ now' = now /\ taken' = taken
      /\ \A p \in Plans : plan'[p].next = plan[p].next
  BY DEF Quiet
<1>2. call'[r] = c
  BY <1>1 DEF Moves, OnceInv, PlanTypes
<1>3. ASSUME NEW p \in Plans PROVE HoldsStill(r, p)'
  <2>1. PlanIsAhead(p)
    BY DEF OnceInv
  <2> QED BY <1>1, <1>2, <2>1 DEF HoldsStill, QueuedBefore, PlanIsAhead
<1> QED BY <1>1, <1>3, OnceStep

LEMMA OnceTick ==
  ASSUME SnapshotIsolation, OnceInv, NEW r \in Requests, Tick(r)
  PROVE  OnceInv'
<1>0. PlanTypes
  BY DEF OnceInv
<1>1. PICK claimed \in SUBSET Plans :
         /\ Moves(r, Idle, claimed) /\ now' = now
         /\ \A p \in claimed :
              /\ p \in call[r].due /\ Claimable(r, p)
              /\ plan'[p] = [plan[p] EXCEPT !.state = "Queued", !.next = call[r].now + 1]
              /\ taken'[p] = IF plan[p].next \in Times
                               THEN [taken[p] EXCEPT ![plan[p].next] = @ + 1] ELSE taken[p]
         /\ \A p \in Plans \ claimed : plan'[p] = plan[p] /\ taken'[p] = taken[p]
         /\ PlanTypes'
  BY <1>0, TickEffect
<1>2. call[r].op = "tick" /\ call[r].now \in Nat /\ call[r].now <= now /\ now \in Nat
  BY <1>0, PlanCall DEF Tick, OnceInv, PlanTypes, PlanTypeOK
<1>3. ASSUME NEW p \in claimed PROVE PlanIsAhead(p)'
  <2>1. HoldsStill(r, p) /\ PlanIsAhead(p)
    BY <1>1 DEF OnceInv, Claimable
  <2>2. /\ QueuedBefore(p, call[r].now + 1)
        /\ plan[p].next # None => plan[p].next <= call[r].now
    BY <1>1, <1>2, <2>1 DEF HoldsStill
  <2>3. plan[p] \in PlanDoc /\ taken[p] \in [Times -> Nat]
    BY <1>0 DEF PlanTypes, PlanTypeOK
  <2>4. plan'[p].next = call[r].now + 1
    BY <1>1, <2>3 DEF PlanDoc
  <2>5. \A m \in Times : taken'[p][m] # 0 => m < call[r].now + 1
    <3> SUFFICES ASSUME NEW m \in Times, taken'[p][m] # 0, m # plan[p].next
                 PROVE  m < call[r].now + 1
      <4>1. ASSUME NEW m \in Times, m = plan[p].next PROVE m < call[r].now + 1
        <5>1. m \in Nat /\ m # None
          BY PlanAssumption DEF Times
        <5> QED BY <1>2, <2>2, <4>1, <5>1
      <4> QED BY <4>1
    <3>1. taken'[p][m] = taken[p][m]
      BY <1>1, <2>3
    <3> QED BY <2>2, <3>1 DEF QueuedBefore
  <2>6. \A m \in Times : taken'[p][m] <= 1
    <3> SUFFICES ASSUME NEW m \in Times PROVE taken'[p][m] <= 1
      OBVIOUS
    <3>1. taken[p][m] <= 1
      BY <2>1 DEF PlanIsAhead
    <3>2. CASE m = plan[p].next
      <4>1. m \in Nat /\ m # None /\ ~(m < m)
        BY PlanAssumption DEF Times
      <4>2. taken[p][m] = 0
        BY <2>1, <3>2, <4>1 DEF PlanIsAhead, QueuedBefore
      <4>3. taken'[p] = [taken[p] EXCEPT ![m] = taken[p][m] + 1]
        BY <1>1, <3>2
      <4>4. taken'[p][m] = 1
        BY <2>3, <4>2, <4>3
      <4> QED BY <4>4
    <3>3. CASE m # plan[p].next
      <4>1. taken'[p][m] = taken[p][m]
        BY <1>1, <2>3, <3>3
      <4> QED BY <3>1, <4>1
    <3> QED BY <3>2, <3>3
  <2>7. \A m \in Times : taken'[p][m] # 0 => m < now' + 1
    <3>1. \A m \in Times : m \in Nat
      BY PlanAssumption DEF Times
    <3>2. \A m \in Times : m < call[r].now + 1 => m < now + 1
      BY <1>2, <3>1
    <3> QED BY <1>1, <2>5, <3>2
  <2> QED BY <2>4, <2>5, <2>6, <2>7 DEF PlanIsAhead, QueuedBefore
<1>4. call'[r] = Idle
  BY <1>0, <1>1 DEF Moves, PlanTypes
<1>5. \A p \in Plans : HoldsStill(r, p)'
  BY <1>4 DEF HoldsStill, Idle
<1>6. \A p \in Plans \ claimed : taken'[p] = taken[p] /\ plan'[p].next = plan[p].next
  BY <1>1
<1> QED BY <1>1, <1>3, <1>5, <1>6, OnceStep, IdleCall

LEMMA OnceRunNow ==
  ASSUME SnapshotIsolation, OnceInv, NEW r \in Requests, RunNow(r)
  PROVE  OnceInv'
<1>0. PlanTypes /\ call[r].op = "now"
  BY DEF OnceInv, RunNow
<1>p. PICK p \in Plans : p = call[r].p
  BY <1>0, PlanCall
<1>1. /\ p \in Plans /\ Claimable(r, p) /\ Moves(r, Idle, {p}) /\ now' = now
      /\ plan'[p] = [plan[p] EXCEPT !.state = "Queued", !.next = call[r].next]
      /\ \A x \in Plans \ {p} : plan'[x] = plan[x]
      /\ taken' = taken /\ PlanTypes'
  BY <1>0, <1>p, RunNowEffect
<1>2. plan'[p].next = call[r].next
  <2>1. plan[p] \in PlanDoc
    BY <1>0, <1>1 DEF PlanTypes, PlanTypeOK
  <2> QED BY <1>1, <2>1 DEF PlanDoc
<1>3. PlanIsAhead(p) /\ HoldsStill(r, p)
  BY <1>1 DEF OnceInv, Claimable
<1>4. PlanIsAhead(p)'
  <2>1. /\ QueuedBefore(p, now + 1) /\ \A m \in Times : taken[p][m] <= 1
        /\ call[r].next # None => QueuedBefore(p, call[r].next)
    BY <1>0, <1>p, <1>3 DEF PlanIsAhead, HoldsStill
  <2>2. /\ \A m \in Times : taken'[p][m] = taken[p][m]
        /\ now' = now /\ plan'[p].next = call[r].next
    BY <1>1, <1>2
  <2> QED BY <2>1, <2>2 DEF PlanIsAhead, QueuedBefore
<1>5. call'[r] = Idle
  BY <1>0, <1>1 DEF Moves, PlanTypes
<1>6. \A x \in Plans : HoldsStill(r, x)'
  BY <1>5 DEF HoldsStill, Idle
<1>7. \A x \in Plans \ {p} : taken'[x] = taken[x] /\ plan'[x].next \in {plan[x].next, None}
  BY <1>1
<1>8. \A x \in {p} : PlanIsAhead(x)'
  BY <1>4
<1>9. {p} \in SUBSET Plans
  BY <1>1
<1> QED BY <1>1, <1>6, <1>7, <1>8, <1>9, OnceStep, IdleCall

LEMMA OnceSaveForm ==
  ASSUME OnceInv, NEW r \in Requests, NEW on \in BOOLEAN, NEW moved \in BOOLEAN,
         SaveForm(r, on, moved)
  PROVE  OnceInv'
<1>0. PlanTypes /\ call[r].op = "form"
  BY DEF OnceInv, SaveForm
<1>p. PICK p \in Plans : p = call[r].p
  BY <1>0, PlanCall
<1> DEFINE fresh == on /\ (moved \/ ~plan[p].enabled)
<1>1. /\ call[r].op = "form" /\ p \in Plans /\ Fresh(r, p) /\ Moves(r, Idle, {p}) /\ now' = now
      /\ plan'[p].next = IF ~on THEN None ELSE IF fresh THEN now + 1 ELSE call[r].doc.next
      /\ \A x \in Plans \ {p} : plan'[x] = plan[x]
      /\ taken' = taken /\ PlanTypes'
  BY <1>0, <1>p, SaveFormEffect
<1>2. PlanIsAhead(p) /\ HoldsStill(r, p)
  BY <1>1 DEF OnceInv
<1>3. PlanIsAhead(p)'
  <2>1. /\ QueuedBefore(p, now + 1) /\ \A m \in Times : taken[p][m] <= 1
        /\ call[r].doc.next # None => QueuedBefore(p, call[r].doc.next)
    BY <1>p, <1>1, <1>2 DEF PlanIsAhead, HoldsStill
  <2>2. /\ \A m \in Times : taken'[p][m] = taken[p][m]
        /\ now' = now /\ plan'[p].next \in {None, now + 1, call[r].doc.next}
    BY <1>1
  <2> QED BY <2>1, <2>2 DEF PlanIsAhead, QueuedBefore
<1>4. call'[r] = Idle
  BY <1>0, <1>1 DEF Moves, PlanTypes
<1>5. \A x \in Plans : HoldsStill(r, x)'
  BY <1>4 DEF HoldsStill, Idle
<1>6. \A x \in Plans \ {p} : taken'[x] = taken[x] /\ plan'[x].next \in {plan[x].next, None}
  BY <1>1
<1>7. \A x \in {p} : PlanIsAhead(x)'
  BY <1>3
<1>8. {p} \in SUBSET Plans
  BY <1>1
<1> QED BY <1>1, <1>5, <1>6, <1>7, <1>8, OnceStep, IdleCall

LEMMA OnceRecord ==
  ASSUME OnceInv, NEW r \in Requests, NEW failed \in BOOLEAN, Record(r, failed)
  PROVE  OnceInv'
<1> DEFINE p == call[r].p
<1>0. PlanTypes
  BY DEF OnceInv
<1>1. /\ p \in Plans /\ Moves(r, Idle, {}) /\ now' = now
      /\ plan'[p].next \in {plan[p].next, None}
      /\ \A x \in Plans \ {p} : plan'[x] = plan[x]
      /\ taken' = taken /\ PlanTypes'
  BY <1>0, RecordEffect
<1>2. \A x \in Plans : taken'[x] = taken[x] /\ plan'[x].next \in {plan[x].next, None}
  BY <1>1
<1>3. call'[r] = Idle
  BY <1>0, <1>1 DEF Moves, PlanTypes
<1>4. \A x \in Plans : HoldsStill(r, x)'
  BY <1>3 DEF HoldsStill, Idle
<1> QED BY <1>1, <1>2, <1>4, OnceStep, IdleCall

\* The clock only goes forward.
LEMMA OnceOutside ==
  ASSUME OnceInv, PlanTypes', UNCHANGED <<call, stale, plan, taken>>, now' \in Nat, now <= now'
  PROVE  OnceInv'
<1>1. now \in Nat /\ \A m \in Times : m \in Nat
  BY PlanAssumption DEF OnceInv, PlanTypes, PlanTypeOK, Times
<1>2. \A r \in Requests : call'[r].op = "tick" => call'[r].now <= now'
  <2>1. \A r \in Requests : call[r].op = "tick" => call[r].now \in Nat
    BY PlanCall DEF OnceInv
  <2> QED BY <1>1, <2>1 DEF OnceInv
<1>3. ASSUME NEW p \in Plans PROVE PlanIsAhead(p)'
  <2>1. PlanIsAhead(p)
    BY DEF OnceInv
  <2> QED BY <1>1, <2>1 DEF PlanIsAhead, QueuedBefore
<1>4. \A r \in Requests, p \in Plans : Fresh(r, p)' => HoldsStill(r, p)'
  BY DEF OnceInv, HoldsStill, QueuedBefore, Fresh
<1> QED BY <1>2, <1>3, <1>4 DEF OnceInv

LEMMA StepOnce ==
  ASSUME SnapshotIsolation, OnceInv, [PlanNext]_<<backendVars, planVars>>
  PROVE  OnceInv'
<1>0. PlanTypes
  BY DEF OnceInv
<1>1. ASSUME NEW p \in Plans, Age(p) \/ LoseJob(p) PROVE OnceInv'
  BY <1>0, <1>1, OutsideSteps, OnceOutside
<1>2. ASSUME PassTime PROVE OnceInv'
  <2>1. now' \in Nat /\ now <= now' /\ UNCHANGED <<call, stale, plan, taken>>
    BY <1>0, <1>2 DEF PassTime, PlanTypes, PlanTypeOK
  <2>2. PlanTypes'
    BY <1>0, <1>2, <2>1 DEF PassTime, PlanTypes, PlanTypeOK
  <2> QED BY <2>1, <2>2, OnceOutside
<1>3. ASSUME NEW r \in Requests, LoadTick(r) PROVE OnceInv'
  <2>1. PICK c \in PlanCalls :
          /\ c.op = "tick" /\ c.now = now /\ Quiet(r, c)
          /\ \A p \in c.due : plan[p].next # None /\ plan[p].next <= now
    BY <1>0, <1>3, QuietSteps
  <2> QED BY <2>1, OnceQuiet
<1>4. ASSUME NEW r \in Requests, StartRun(r) \/ GiveUpPlan(r) PROVE OnceInv'
  <2>1. PICK c \in PlanCalls : c.op \in {"none", "run"} /\ Quiet(r, c)
    BY <1>0, <1>4, QuietSteps, IdleCall
  <2> QED BY <2>1, OnceQuiet
<1>5. ASSUME NEW r \in Requests, NEW p \in Plans,
             LoadRunNow(r, p) \/ TakeJob(r, p) \/ LoadForm(r, p)
      PROVE  OnceInv'
  <2>0. plan[p] \in PlanDoc
    BY <1>0 DEF PlanTypes, PlanTypeOK
  <2>1. CASE LoadForm(r, p)
    <3>1. [op |-> "form", p |-> p, doc |-> plan[p]] \in PlanCalls
      BY <2>0 DEF PlanCalls
    <3>2. Quiet(r, [op |-> "form", p |-> p, doc |-> plan[p]])
      BY <1>0, <2>1, QuietSteps
    <3> QED BY <3>1, <3>2, OnceQuiet
  <2>2. CASE LoadRunNow(r, p)
    <3>1. plan[p].next \in Nat \cup {None}
      BY <2>0 DEF PlanDoc
    <3>2. [op |-> "now", p |-> p, next |-> plan[p].next] \in PlanCalls
      BY <3>1 DEF PlanCalls
    <3>3. Quiet(r, [op |-> "now", p |-> p, next |-> plan[p].next])
      BY <1>0, <2>2, QuietSteps
    <3> QED BY <3>2, <3>3, OnceQuiet
  <2>3. CASE TakeJob(r, p)
    <3>1. PICK c \in PlanCalls : c.op \in {"none", "start"} /\ Quiet(r, c)
      BY <1>0, <2>3, QuietSteps
    <3> QED BY <3>1, OnceQuiet
  <2> QED BY <1>5, <2>1, <2>2, <2>3
<1>6. CASE UNCHANGED <<backendVars, planVars>>
  <2>1. UNCHANGED <<call, stale, plan, taken, now, jobs, old>>
    BY <1>6 DEF backendVars, planVars
  <2>2. PlanTypes' /\ now' \in Nat /\ now <= now'
    BY <1>0, <2>1 DEF PlanTypes, PlanTypeOK
  <2> QED BY <2>1, <2>2, OnceOutside
<1> QED
  BY <1>1, <1>2, <1>3, <1>4, <1>5, <1>6, OnceTick, OnceRunNow, OnceSaveForm, OnceRecord
     DEF PlanNext

\* On a database with snapshot isolation no two ticks queue the same occurrence,
\* however late the listing of each is claimed and for any plans and workers: the
\* claim is refused if the row was saved since (run_due, _claim).
THEOREM OccurrencesAreQueuedOnce ==
  ASSUME SnapshotIsolation
  PROVE  PlanSpec => []OccurrenceOnce
<1>1. BackendInit /\ PlanInit => OnceInv
  <2> SUFFICES ASSUME BackendInit, PlanInit PROVE OnceInv
    OBVIOUS
  <2>1. \A p \in Plans, m \in Times : taken[p][m] = 0
    BY DEF PlanInit
  <2>2. \A r \in Requests : call[r].op = "none"
    BY DEF BackendInit, Idle
  <2> QED BY <2>1, <2>2, InitPlanTypes DEF OnceInv, PlanIsAhead, QueuedBefore, HoldsStill
<1>2. OnceInv /\ [PlanNext]_<<backendVars, planVars>> => OnceInv'
  BY StepOnce
<1>3. OnceInv => OccurrenceOnce
  BY DEF OnceInv, PlanIsAhead, OccurrenceOnce
<1> QED BY <1>1, <1>2, <1>3, PTL DEF PlanSpec

-----------------------------------------------------------------------------
(***************************************************************************)
(* The sum.  A behaviour is one of one part, and the others rest.          *)
(***************************************************************************)

-----------------------------------------------------------------------------
\* A behaviour of the sum is one of the part, or the part is at rest.
LEMMA PlanInTheSum ==
  ScheduledSpec => \/ PlanSpec
                   \/ BackendInit /\ PlanInit /\ [][FALSE]_planVars
<1>1. ScheduledInit => BackendInit /\ PlanInit
  BY DEF ScheduledInit
<1>2. part = "scheduled tasks" /\ [ScheduledNext]_ScheduledVars
        => (part = "scheduled tasks")' /\ [PlanNext]_<<backendVars, planVars>>
  BY DEF ScheduledNext, ScheduledVars, Keys
<1>3. ~(part = "scheduled tasks") /\ [ScheduledNext]_ScheduledVars
        => (~(part = "scheduled tasks"))' /\ [FALSE]_planVars
  BY DEF ScheduledNext, ScheduledVars
<1> QED BY <1>1, <1>2, <1>3, PTL DEF ScheduledSpec, PlanSpec

LEMMA SpaceInTheSum ==
  ScheduledSpec => \/ SpaceSpec
                   \/ BackendInit /\ SpaceInit /\ [][FALSE]_spaceVars
<1>1. ScheduledInit => BackendInit /\ SpaceInit
  BY DEF ScheduledInit
<1>2. part = "space" /\ [ScheduledNext]_ScheduledVars
        => (part = "space")' /\ [SpaceNext]_<<backendVars, spaceVars>>
  BY DEF ScheduledNext, ScheduledVars, SpaceOneCallback, Keys
<1>3. ~(part = "space") /\ [ScheduledNext]_ScheduledVars
        => (~(part = "space"))' /\ [FALSE]_spaceVars
  BY DEF ScheduledNext, ScheduledVars
<1> QED BY <1>1, <1>2, <1>3, PTL DEF ScheduledSpec, SpaceSpec

LEMMA KdsInTheSum ==
  ScheduledSpec => \/ KdsSpec
                   \/ BackendInit /\ KdsInit /\ [][FALSE]_kdsVars
<1>1. ScheduledInit => BackendInit /\ KdsInit
  BY DEF ScheduledInit
<1>2. part = "kitchen" /\ [ScheduledNext]_ScheduledVars
        => (part = "kitchen")' /\ [KdsNext]_<<backendVars, kdsVars>>
  BY DEF ScheduledNext, ScheduledVars, Keys
<1>3. ~(part = "kitchen") /\ [ScheduledNext]_ScheduledVars
        => (~(part = "kitchen"))' /\ [FALSE]_kdsVars
  BY DEF ScheduledNext, ScheduledVars
<1> QED BY <1>1, <1>2, <1>3, PTL DEF ScheduledSpec, KdsSpec

LEMMA ReturnsInTheSum ==
  ScheduledSpec => \/ ReturnsSpec
                   \/ BackendInit /\ ReturnsInit /\ [][FALSE]_returnsVars
<1>1. ScheduledInit => BackendInit /\ ReturnsInit
  BY DEF ScheduledInit
<1>2. part = "returns" /\ [ScheduledNext]_ScheduledVars
        => (part = "returns")' /\ [ReturnsNext]_<<backendVars, returnsVars>>
  BY DEF ScheduledNext, ScheduledVars, Keys
<1>3. ~(part = "returns") /\ [ScheduledNext]_ScheduledVars
        => (~(part = "returns"))' /\ [FALSE]_returnsVars
  BY DEF ScheduledNext, ScheduledVars
<1> QED BY <1>1, <1>2, <1>3, PTL DEF ScheduledSpec, ReturnsSpec

LEMMA JournalInTheSum ==
  ScheduledSpec => \/ JournalSpec
                   \/ BackendInit /\ JournalInit /\ [][FALSE]_journalVars
<1>1. ScheduledInit => BackendInit /\ JournalInit
  BY DEF ScheduledInit
<1>2. part = "journal" /\ [ScheduledNext]_ScheduledVars
        => (part = "journal")' /\ [JournalNext]_<<backendVars, journalVars>>
  BY DEF ScheduledNext, ScheduledVars, Keys
<1>3. ~(part = "journal") /\ [ScheduledNext]_ScheduledVars
        => (~(part = "journal"))' /\ [FALSE]_journalVars
  BY DEF ScheduledNext, ScheduledVars
<1> QED BY <1>1, <1>2, <1>3, PTL DEF ScheduledSpec, JournalSpec

LEMMA RouteInTheSum ==
  ScheduledSpec => \/ RouteSpec
                   \/ BackendInit /\ RouteInit /\ [][FALSE]_routeVars
<1>1. ScheduledInit => BackendInit /\ RouteInit
  BY DEF ScheduledInit
<1>2. part = "van route" /\ [ScheduledNext]_ScheduledVars
        => (part = "van route")' /\ [RouteNext]_<<backendVars, routeVars>>
  BY DEF ScheduledNext, ScheduledVars, Keys
<1>3. ~(part = "van route") /\ [ScheduledNext]_ScheduledVars
        => (~(part = "van route"))' /\ [FALSE]_routeVars
  BY DEF ScheduledNext, ScheduledVars
<1> QED BY <1>1, <1>2, <1>3, PTL DEF ScheduledSpec, RouteSpec

LEMMA GuardInTheSum ==
  ScheduledSpec => \/ GuardSpec
                   \/ BackendInit /\ GuardInit /\ [][FALSE]_guardVars
<1>1. ScheduledInit => BackendInit /\ GuardInit
  BY DEF ScheduledInit
<1>2. part = "duplicates" /\ [ScheduledNext]_ScheduledVars
        => (part = "duplicates")' /\ [GuardNext]_<<backendVars, guardVars>>
  BY DEF ScheduledNext, ScheduledVars, GuardPart, Keys
<1>3. ~(part = "duplicates") /\ [ScheduledNext]_ScheduledVars
        => (~(part = "duplicates"))' /\ [FALSE]_guardVars
  BY DEF ScheduledNext, ScheduledVars
<1> QED BY <1>1, <1>2, <1>3, PTL DEF ScheduledSpec, GuardSpec

LEMMA GateInTheSum ==
  ScheduledSpec => \/ GateSpec
                   \/ BackendInit /\ GateInit /\ [][FALSE]_gateVars
<1>1. ScheduledInit => BackendInit /\ GateInit
  BY DEF ScheduledInit
<1>2. part = "gate" /\ [ScheduledNext]_ScheduledVars
        => (part = "gate")' /\ [GateNext]_<<backendVars, gateVars>>
  BY DEF ScheduledNext, ScheduledVars, GateAlone, Keys
<1>3. ~(part = "gate") /\ [ScheduledNext]_ScheduledVars
        => (~(part = "gate"))' /\ [FALSE]_gateVars
  BY DEF ScheduledNext, ScheduledVars
<1> QED BY <1>1, <1>2, <1>3, PTL DEF ScheduledSpec, GateSpec

LEMMA CacheInTheSum ==
  ScheduledSpec => \/ CacheSpec
                   \/ BackendInit /\ CacheInit /\ [][FALSE]_cacheVars
<1>1. ScheduledInit => BackendInit /\ CacheInit
  BY DEF ScheduledInit
<1>2. part \in Keys /\ [ScheduledNext]_ScheduledVars
        => (part \in Keys)' /\ [CacheNext]_<<backendVars, cacheVars>>
  BY DEF ScheduledNext, ScheduledVars, OneKey, Keys
<1>3. ~(part \in Keys) /\ [ScheduledNext]_ScheduledVars
        => (~(part \in Keys))' /\ [FALSE]_cacheVars
  BY DEF ScheduledNext, ScheduledVars
<1> QED BY <1>1, <1>2, <1>3, PTL DEF ScheduledSpec, CacheSpec

LEMMA NamingInTheSum ==
  ScheduledSpec => \/ NamingSpec
                   \/ BackendInit /\ NamingInit /\ [][FALSE]_namingVars
<1>1. ScheduledInit => BackendInit /\ NamingInit
  BY DEF ScheduledInit
<1>2. part = "naming" /\ [ScheduledNext]_ScheduledVars
        => (part = "naming")' /\ [NamingNext]_<<backendVars, namingVars>>
  BY DEF ScheduledNext, ScheduledVars, NamingPart, Keys
<1>3. ~(part = "naming") /\ [ScheduledNext]_ScheduledVars
        => (~(part = "naming"))' /\ [FALSE]_namingVars
  BY DEF ScheduledNext, ScheduledVars
<1> QED BY <1>1, <1>2, <1>3, PTL DEF ScheduledSpec, NamingSpec

LEMMA AppInTheSum ==
  ScheduledSpec => \/ AppSpec
                   \/ BackendInit /\ AppInit /\ [][FALSE]_appVars
<1>1. ScheduledInit => BackendInit /\ AppInit
  BY DEF ScheduledInit
<1>2. part = "apps" /\ [ScheduledNext]_ScheduledVars
        => (part = "apps")' /\ [AppNext]_<<backendVars, appVars>>
  BY DEF ScheduledNext, ScheduledVars, OneForm, Keys
<1>3. ~(part = "apps") /\ [ScheduledNext]_ScheduledVars
        => (~(part = "apps"))' /\ [FALSE]_appVars
  BY DEF ScheduledNext, ScheduledVars
<1> QED BY <1>1, <1>2, <1>3, PTL DEF ScheduledSpec, AppSpec

-----------------------------------------------------------------------------
\* What holds of a part that rests as of one that does not.
LEMMA PlansHold == ScheduledSpec => [](PlanTypeOK /\ FailingPlanIsOff)
<1>1. FailInv => PlanTypeOK /\ FailingPlanIsOff
  BY DEF FailInv, PlanTypes
<1>2. BackendInit /\ PlanInit => FailInv
  BY InitPlanTypes DEF BackendInit, PlanInit, FailInv, FailingPlanIsOff, FormsAreCurrent,
                       Idle, MaxFailures
<1>3. PlanTypeOK /\ FailingPlanIsOff /\ [FALSE]_planVars => (PlanTypeOK /\ FailingPlanIsOff)'
  BY DEF PlanTypeOK, FailingPlanIsOff, planVars
<1> QED BY <1>1, <1>2, <1>3, StepFail, PlanInTheSum, PTL DEF PlanSpec

LEMMA OccurrencesHold ==
  ASSUME SnapshotIsolation
  PROVE  ScheduledSpec => []OccurrenceOnce
<1>1. BackendInit /\ PlanInit => OccurrenceOnce
  BY DEF PlanInit, OccurrenceOnce
<1>2. OccurrenceOnce /\ [FALSE]_planVars => OccurrenceOnce'
  BY DEF OccurrenceOnce, planVars
<1> QED BY <1>1, <1>2, OccurrencesAreQueuedOnce, PlanInTheSum, PTL

LEMMA PoolStays == ScheduledSpec => [](SpaceTypeOK /\ PoolHolds)
<1>1. BackendInit /\ SpaceInit => SpaceTypeOK /\ PoolHolds
  BY InitSpace, SpaceInvHolds DEF SpaceInv
<1>2. SpaceTypeOK /\ PoolHolds /\ [FALSE]_spaceVars => (SpaceTypeOK /\ PoolHolds)'
  BY DEF SpaceTypeOK, PoolHolds, Allocated, Holds, spaceVars
<1> QED BY <1>1, <1>2, SpaceTypes, PoolIsBounded, SpaceInTheSum, PTL

LEMMA KitchenTyped == ScheduledSpec => []KdsTypeOK
<1>1. KdsTypeOK /\ [FALSE]_kdsVars => KdsTypeOK'
  BY DEF KdsTypeOK, kdsVars
<1> QED BY <1>1, KdsTypes, KdsInTheSum, PTL

LEMMA KitchenHolds ==
  ASSUME SnapshotIsolation
  PROVE  ScheduledSpec => OneStepAtATime
<1>1. [FALSE]_kdsVars => [FALSE]_ticket
  BY DEF kdsVars
<1> QED BY <1>1, DishesTakeOneStep, KdsInTheSum, PTL DEF OneStepAtATime

LEMMA ReturnsTyped == ScheduledSpec => []ReturnsTypeOK
<1>1. ReturnsTypeOK /\ [FALSE]_returnsVars => ReturnsTypeOK'
  BY DEF ReturnsTypeOK, returnsVars
<1> QED BY <1>1, ReturnsTypes, ReturnsInTheSum, PTL

LEMMA ReturnsHold ==
  ASSUME SnapshotIsolation
  PROVE  ScheduledSpec => []ReturnedAsAsked
<1>1. ReturnsInv => ReturnedAsAsked
  BY DEF ReturnsInv
<1>2. ReturnedAsAsked /\ [FALSE]_returnsVars => ReturnedAsAsked'
  BY DEF ReturnedAsAsked, Returned, PostedReturns, returnsVars
<1> QED BY <1>1, <1>2, ReturnsAreAsAsked, InitReturns, ReturnsInTheSum, PTL

LEMMA EntriesTyped == ScheduledSpec => []JournalTypeOK
<1>1. JournalInv => JournalTypeOK
  BY DEF JournalInv
<1>2. JournalTypeOK /\ [FALSE]_journalVars => JournalTypeOK'
  BY DEF JournalTypeOK, journalVars
<1> QED BY <1>1, <1>2, InitJournal, JournalInvariant, JournalInTheSum, PTL

LEMMA EntriesHold ==
  ASSUME SnapshotIsolation
  PROVE  ScheduledSpec => PostedEntryStands
<1>1. [FALSE]_journalVars => [FALSE]_voucher
  BY DEF journalVars
<1> QED BY <1>1, PostedEntriesStand, JournalInTheSum, PTL DEF PostedEntryStands

LEMMA RouteKeptTyped == ScheduledSpec => []RouteTypeOK
<1>1. RouteTypeOK /\ [FALSE]_routeVars => RouteTypeOK'
  BY DEF RouteTypeOK, routeVars
<1> QED BY <1>1, RouteTypes, RouteInTheSum, PTL

LEMMA RouteHolds ==
  ASSUME SnapshotIsolation
  PROVE  ScheduledSpec => VisitStands
<1>1. [FALSE]_routeVars =>
        [\A t \in Planned :
           /\ stop'[t].status # stop[t].status =>
                \E r \in Requests : call[r].op = "visit" /\ call[r].trip = t
                                      /\ call'[r] = Idle /\ stop'[t] = call[r].row
           /\ stop[t].sale # None => stop'[t].sale # None]_<<stop, call>>
  BY DEF routeVars
<1> QED BY <1>1, VisitsStand, RouteInTheSum, PTL DEF VisitStands

LEMMA GuardTyped == ScheduledSpec => []GuardTypeOK
<1>1. GuardInv => GuardTypeOK
  BY DEF GuardInv
<1>2. GuardTypeOK /\ [FALSE]_guardVars => GuardTypeOK'
  BY DEF GuardTypeOK, guardVars
<1> QED BY <1>1, <1>2, InitGuarded, GuardInvariant, GuardInTheSum, PTL

LEMMA GuardHolds ==
  ASSUME SnapshotIsolation
  PROVE  ScheduledSpec => []NoTwins
<1>1. GuardInv => NoTwins
  BY DEF GuardInv, SnapshotsDo
<1>2. NoTwins /\ [FALSE]_guardVars => NoTwins'
  BY DEF NoTwins, guardVars
<1> QED BY <1>1, <1>2, InitGuarded, GuardInvariant, GuardInTheSum, PTL

LEMMA GateHolds == ScheduledSpec => []GateTypeOK /\ NoEditAfterTheEnd
<1>1. BackendInit /\ GateInit => GateTypeOK
  BY GateAssumption DEF GateInit, GateTypeOK
<1>2. GateTypeOK /\ [FALSE]_gateVars => GateTypeOK'
  BY DEF GateTypeOK, gateVars
<1>3. [FALSE]_gateVars => [FALSE]_written
  BY DEF gateVars
<1> QED
  BY <1>1, <1>2, <1>3, GateTypes, NothingIsEditedAfterTheEnd, GateInTheSum, PTL
     DEF NoEditAfterTheEnd

AtRest == \A k \in Keys : Get(k) \in {None, row[k]}

LEMMA CacheHolds == ScheduledSpec => [](CacheTypeOK /\ ServedIsCurrent)
<1>1. CacheInv => CacheTypeOK
  BY DEF CacheInv
<1>2. CacheTypeOK /\ [FALSE]_cacheVars => CacheTypeOK'
  BY DEF CacheTypeOK, cacheVars
<1>3. CacheInv /\ [CacheNext]_<<backendVars, cacheVars>> => CacheInv'
  BY StepKeepsCache
<1>4. AtRest => ServedIsCurrent
  BY DEF AtRest, ServedIsCurrent, Get
<1>5. AtRest /\ [FALSE]_cacheVars => AtRest'
  BY DEF AtRest, Get, cacheVars
<1>6. CacheInit => AtRest
  BY DEF CacheInit, AtRest, Get, NoCopy
<1> QED
  BY <1>1, <1>2, <1>3, <1>4, <1>5, <1>6, InitCache, CopiesAreServedCurrent,
     CacheInTheSum, PTL DEF CacheSpec

LEMMA NamesHold == ScheduledSpec => [](NamingTypeOK /\ NextNumberIsFree)
<1>1. NamingInv => NamingTypeOK /\ NextNumberIsFree
  BY NextIsFree DEF NamingInv
<1>2. NamingTypeOK /\ NextNumberIsFree /\ [FALSE]_namingVars
      => (NamingTypeOK /\ NextNumberIsFree)'
  BY DEF NamingTypeOK, NextNumberIsFree, namingVars
<1>3. NamingInv /\ [NamingNext]_<<backendVars, namingVars>> => NamingInv'
  BY StepKeepsNaming
<1> QED BY <1>1, <1>2, <1>3, InitNaming, NamingInTheSum, PTL DEF NamingSpec

LEMMA AppsTyped == ScheduledSpec => []AppTypeOK
<1>1. AppTypeOK /\ [FALSE]_appVars => AppTypeOK'
  BY DEF AppTypeOK, appVars
<1> QED BY <1>1, AppTypes, AppInTheSum, PTL

LEMMA AppsHold ==
  ASSUME ~KeepsRestaurant
  PROVE  ScheduledSpec => []SwitchesAsAsked
<1>1. AppInv => SwitchesAsAsked
  BY DEF AppInv
<1>2. SwitchesAsAsked /\ [FALSE]_appVars => SwitchesAsAsked'
  BY DEF SwitchesAsAsked, On, SwitchesOf, appVars
<1> QED BY <1>1, <1>2, InitApp, SwitchesStayAsAsked, AppInTheSum, PTL

-----------------------------------------------------------------------------
\* All documents of the smaller parts keep their types, whichever part is at work.
THEOREM ScheduledTypes == ScheduledSpec => []ScheduledTypeOK
BY PlansHold, PoolStays, KitchenTyped, ReturnsTyped, EntriesTyped, RouteKeptTyped, GuardTyped,
   GateHolds, CacheHolds, NamesHold, AppsTyped, PTL DEF ScheduledTypeOK

\* What is checked of the sum on small instances, its liveness apart, holds of it for
\* any plans, hosts, tickets, lines, entries, stops, records, days, keys, series, apps
\* and requests.
THEOREM ScheduledIsRight ==
  ASSUME SnapshotIsolation, ~KeepsRestaurant
  PROVE  ScheduledSpec =>
           /\ []OccurrenceOnce /\ []FailingPlanIsOff /\ []PoolHolds
           /\ []ReturnedAsAsked /\ []NoTwins
           /\ []ServedIsCurrent /\ []NextNumberIsFree /\ []SwitchesAsAsked
           /\ OneStepAtATime /\ VisitStands /\ PostedEntryStands
           /\ NoEditAfterTheEnd
BY PlansHold, OccurrencesHold, PoolStays, KitchenHolds, ReturnsHold, EntriesHold, RouteHolds,
   GuardHolds, GateHolds, CacheHolds, NamesHold, AppsHold, PTL
=============================================================================
