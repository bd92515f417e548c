-------------------------- MODULE DeliveryStopsProofs --------------------------
(***************************************************************************)
(* Proofs about DeliveryStops, for any number of stops, couriers and       *)
(* requests, with and without snapshot isolation: the inductive invariant  *)
(* StopInv, that a closed stop is never opened again, and that a courier   *)
(* only moves stops that are his at that moment.                           *)
(***************************************************************************)
EXTENDS DeliveryStops, MCDeliveryStops, FiniteSetTheorems, TLAPS

\* No status leads out of a terminal one, and none to an unknown one.
LEMMA TransitionsOK ==
  ASSUME NEW x \in Status
  PROVE  /\ Transitions[x] \subseteq Status
         /\ x \in Terminal => Transitions[x] = {}
BY DEF Transitions, Status, Active, Terminal

LEMMA SeenTyped ==
  ASSUME TypeOK, NEW b \in Boys \cup {None}, NEW s
  PROVE  Seen(b, s) \in View
BY DEF TypeOK, Seen, View, NoView, BoyDoc, BoyStatus

LEMMA FinishTyped ==
  ASSUME TypeOK, NEW r \in Requests, NEW written \in SUBSET (Stops \cup Boys),
         Finish(r, written)
  PROVE  /\ job' \in [Requests -> Job]
         /\ doc' \in [Requests -> StopDoc]
         /\ view' \in [Requests -> View]
         /\ bumped' \in [Requests -> SUBSET Stops]
         /\ touched' \in [Requests -> SUBSET (Stops \cup Boys)]
<1>1. NoJob \in Job /\ NoStop \in StopDoc /\ NoView \in View
  BY DEF NoJob, Job, NoStop, StopDoc, NoView, View, BoyStatus
<1>2. \A q \in Requests : job[q].s \in Stops \cup {None}
  BY DEF TypeOK, Job
<1>3. \A q \in Requests : written \cap {job[q].s} \subseteq Stops
  BY <1>2, NamesAssumption
<1> QED BY <1>1, <1>3 DEF TypeOK, Finish

\* The parts of a commit that the proofs below need, once for all requests.
LEMMA CommitFrame ==
  ASSUME TypeOK, NEW r \in Requests, NEW s \in Stops, NEW d \in StopDoc,
         NEW writes \in BOOLEAN, NEW b, NEW c, NEW moves,
         writes => b \in Boys /\ c \in BoyDoc,
         Commit(r, s, d, writes, b, c, moves)
  PROVE  /\ TypeOK'
         /\ stop' = [stop EXCEPT ![s] = d]
         /\ job'[r] = NoJob
         /\ \A q \in Requests \ {r} :
              /\ job'[q] = job[q]
              /\ doc'[q] = doc[q]
              /\ job[q].op # "none" /\ job[q].s \notin bumped'[q] =>
                   job[q].s \notin bumped[q] /\ job[q].s # s
<1>1. PICK written \in SUBSET (Stops \cup Boys) :
        s \in written /\ Finish(r, written)
  BY DEF Commit
<1>2. boy' \in [Boys -> BoyDoc]
  BY DEF Commit, TypeOK
<1>3. stop' = [stop EXCEPT ![s] = d]
  BY DEF Commit
<1>4. TypeOK'
  <2>1. form' \in [Boys -> Nat \cup {None}]
    BY DEF Commit, TypeOK
  <2> QED BY <1>1, <1>2, <1>3, <2>1, FinishTyped DEF TypeOK
<1>5. /\ job'[r] = NoJob
      /\ \A q \in Requests \ {r} :
           /\ job'[q] = job[q]
           /\ doc'[q] = doc[q]
           /\ job[q].op # "none" =>
                bumped'[q] = bumped[q] \cup (written \cap {job[q].s})
  BY <1>1 DEF Finish, TypeOK
<1> QED BY <1>1, <1>3, <1>4, <1>5

LEMMA CommitKeepsInv ==
  ASSUME StopInv, NEW r \in Requests, NEW s \in Stops, NEW d \in StopDoc,
         NEW writes \in BOOLEAN, NEW b, NEW c, NEW moves,
         writes => b \in Boys /\ c \in BoyDoc,
         Commit(r, s, d, writes, b, c, moves)
  PROVE  StopInv'
<1>1. /\ TypeOK'
      /\ stop' = [stop EXCEPT ![s] = d]
      /\ job'[r] = NoJob
      /\ \A q \in Requests \ {r} :
           /\ job'[q] = job[q]
           /\ doc'[q] = doc[q]
           /\ job[q].op # "none" /\ job[q].s \notin bumped'[q] =>
                job[q].s \notin bumped[q] /\ job[q].s # s
  BY CommitFrame DEF StopInv
<1>2. CopyIsCurrent'
  BY <1>1 DEF StopInv, CopyIsCurrent, NoJob, TypeOK
<1>3. CheckedOwner'
  BY <1>1 DEF StopInv, CheckedOwner, NoJob, OwnsStop
<1> QED BY <1>1, <1>2, <1>3 DEF StopInv

-----------------------------------------------------------------------------
(* What each kind of request commits.                                      *)

LEMMA OnRouteCommits ==
  ASSUME TypeOK, NEW r \in Requests, NEW s \in Stops, NEW d \in StopDoc,
         CommitOnRoute(r, s, d)
  PROVE  \E writes \in BOOLEAN : \E b, c, moves :
           /\ writes => b \in Boys /\ c \in BoyDoc
           /\ Commit(r, s, d, writes, b, c, moves)
<1> DEFINE writes == d.boy # None /\ view[r].status = "Available"
           c == [boy[d.boy] EXCEPT !.status = "On Route"]
<1>1. Commit(r, s, d, writes, d.boy, c, TRUE)
  BY DEF CommitOnRoute
<1>2. d.boy # None => d.boy \in Boys /\ c \in BoyDoc
  <2>1. d.boy # None => d.boy \in Boys /\ boy[d.boy] \in BoyDoc
    BY DEF StopDoc, TypeOK
  <2> QED BY <2>1 DEF BoyDoc, BoyStatus
<1> HIDE DEF c
<1> QED BY <1>1, <1>2

LEMMA ClosedCommits ==
  ASSUME TypeOK, NEW r \in Requests, NEW s \in Stops, NEW d \in StopDoc,
         NEW award \in BOOLEAN, CommitClosed(r, s, d, award)
  PROVE  \E writes \in BOOLEAN : \E b, c, moves :
           /\ writes => b \in Boys /\ c \in BoyDoc
           /\ Commit(r, s, d, writes, b, c, moves)
<1> DEFINE writes == d.boy # None /\ (award \/ ~view[r].busy)
           c == [status |-> IF view[r].busy THEN boy[d.boy].status
                            ELSE "Available",
                 done |-> IF award THEN view[r].done + 1
                          ELSE boy[d.boy].done]
<1>1. Commit(r, s, d, writes, d.boy, c, ~view[r].busy)
  BY DEF CommitClosed
<1>2. d.boy # None => d.boy \in Boys /\ c \in BoyDoc
  <2>1. d.boy # None => d.boy \in Boys /\ boy[d.boy] \in BoyDoc
    BY DEF StopDoc, TypeOK
  <2>2. view[r].done \in Nat
    BY DEF TypeOK, View
  <2>3. d.boy # None => boy[d.boy].status \in BoyStatus /\ boy[d.boy].done \in Nat
    BY <2>1 DEF BoyDoc
  <2>4. "Available" \in BoyStatus
    BY DEF BoyStatus
  <2>5. ASSUME d.boy # None
        PROVE  (IF view[r].busy THEN boy[d.boy].status ELSE "Available")
                 \in BoyStatus
    BY <2>3, <2>4, <2>5
  <2>6. view[r].done + 1 \in Nat
    BY <2>2
  <2>7. ASSUME d.boy # None
        PROVE  (IF award THEN view[r].done + 1 ELSE boy[d.boy].done) \in Nat
    BY <2>3, <2>6, <2>7, Zenon
  <2> QED BY <2>1, <2>5, <2>7 DEF BoyDoc
<1>3. writes \in BOOLEAN /\ (writes => d.boy # None)
  OBVIOUS
<1> HIDE DEF c, writes
<1> QED BY <1>1, <1>2, <1>3

LEMMA CreateCommits ==
  ASSUME StopInv, NEW r \in Requests, Create(r)
  PROVE  \E s \in Stops, d \in StopDoc, writes \in BOOLEAN : \E b, c, moves :
           /\ stop[s].status = "Absent"
           /\ writes => b \in Boys /\ c \in BoyDoc
           /\ Commit(r, s, d, writes, b, c, moves)
<1>1. PICK s \in Stops, x \in Status :
        LET d == [status |-> x, boy |-> job[r].b]
        IN /\ stop[s].status = "Absent"
           /\ IF x \in Active THEN CommitOnRoute(r, s, d)
              ELSE Commit(r, s, d, FALSE, None, None, FALSE)
  BY DEF Create
<1> DEFINE d == [status |-> x, boy |-> job[r].b]
<1>2. d \in StopDoc
  BY DEF StopInv, TypeOK, Job, StopDoc
<1>3. CASE x \in Active
  BY <1>1, <1>2, <1>3, OnRouteCommits DEF StopInv
<1>4. CASE x \notin Active
  BY <1>1, <1>2, <1>4
<1> QED BY <1>3, <1>4

LEMMA AssignCommits ==
  ASSUME StopInv, NEW r \in Requests, Assign(r)
  PROVE  \E s \in Stops, d \in StopDoc, writes \in BOOLEAN : \E b, c, moves :
           /\ d.status = stop[s].status
           /\ writes => b \in Boys /\ c \in BoyDoc
           /\ Commit(r, s, d, writes, b, c, moves)
<1> DEFINE s == job[r].s
           d == [doc[r] EXCEPT !.boy = job[r].b]
<1>1. s \in Stops /\ doc[r] = stop[s]
  BY DEF StopInv, CopyIsCurrent, Assign, CanSave
<1>2. d \in StopDoc /\ d.status = stop[s].status
  <2>1. doc[r] \in StopDoc /\ job[r].b \in Boys \cup {None}
    BY DEF StopInv, TypeOK, Job
  <2> QED BY <1>1, <2>1 DEF StopDoc
<1>3. CommitOnRoute(r, s, d)
  BY DEF Assign
<1> HIDE DEF d
<1> QED BY <1>1, <1>2, <1>3, OnRouteCommits DEF StopInv

LEMMA ApplyCommits ==
  ASSUME StopInv, NEW r \in Requests, ApplyStatus(r)
  PROVE  /\ job[r].s \in Stops
         /\ OwnsStop(job[r].user, stop[job[r].s])
         /\ \E d \in StopDoc, writes \in BOOLEAN : \E b, c, moves :
              /\ stop[job[r].s].status \in Terminal =>
                   d.status = stop[job[r].s].status
              /\ writes => b \in Boys /\ c \in BoyDoc
              /\ Commit(r, job[r].s, d, writes, b, c, moves)
<1> DEFINE s == job[r].s
           now == doc[r].status
<1>1. s \in Stops /\ doc[r] = stop[s] /\ now \in Status
  BY DEF StopInv, CopyIsCurrent, ApplyStatus, CanSave
<1>2. OwnsStop(job[r].user, stop[s])
  BY <1>1 DEF StopInv, CheckedOwner, ApplyStatus
<1>3. PICK nxt \in {now} \cup Transitions[now] :
        LET d == [doc[r] EXCEPT !.status = nxt]
        IN IF nxt \in Active THEN CommitOnRoute(r, s, d)
           ELSE CommitClosed(r, s, d, nxt = "Delivered" /\ now # "Delivered")
  BY DEF ApplyStatus
<1> DEFINE d == [doc[r] EXCEPT !.status = nxt]
<1>4. nxt \in Status /\ (now \in Terminal => nxt = now)
  BY <1>1, TransitionsOK
<1>5. d \in StopDoc /\ d.status = nxt
  <2>1. doc[r] \in StopDoc
    BY DEF StopInv, TypeOK
  <2> QED BY <1>4, <2>1 DEF StopDoc
<1>6. \E writes \in BOOLEAN : \E b, c, moves :
        /\ writes => b \in Boys /\ c \in BoyDoc
        /\ Commit(r, s, d, writes, b, c, moves)
  <2>1. CASE nxt \in Active
    BY <1>1, <1>3, <1>5, <2>1, OnRouteCommits DEF StopInv
  <2>2. CASE nxt \notin Active
    BY <1>1, <1>3, <1>5, <2>2, ClosedCommits DEF StopInv
  <2> QED BY <2>1, <2>2
<1> HIDE DEF d
<1> QED BY <1>1, <1>2, <1>4, <1>5, <1>6

-----------------------------------------------------------------------------
(* The inductive step.                                                     *)

LEMMA ArriveKeepsInv ==
  ASSUME StopInv, NEW r \in Requests, NEW j \in Job, NEW d \in StopDoc,
         Arrive(r, j, d),
         j.op \in {"assign", "apply"} =>
           j.s \in Stops /\ d = stop[j.s] /\ d.status \in Status,
         j.op = "apply" => j.b = d.boy /\ OwnsStop(j.user, d)
  PROVE  StopInv'
<1>1. TypeOK'
  <2>1. Seen(j.b, j.s) \in View
    BY SeenTyped DEF StopInv, Job
  <2> QED BY <2>1 DEF StopInv, TypeOK, Arrive
<1>2. /\ job'[r] = j
      /\ doc'[r] = d
      /\ \A q \in Requests \ {r} : job'[q] = job[q] /\ doc'[q] = doc[q]
      /\ UNCHANGED <<stop, bumped>>
  BY DEF StopInv, TypeOK, Arrive
<1>3. CopyIsCurrent'
  BY <1>2 DEF StopInv, CopyIsCurrent
<1>4. CheckedOwner'
  BY <1>2 DEF StopInv, CheckedOwner, OwnsStop
<1> QED BY <1>1, <1>3, <1>4 DEF StopInv

LEMMA LoadKeepsInv ==
  ASSUME StopInv, NEW r \in Requests,
         LoadCreate(r) \/ LoadAssign(r) \/ LoadApply(r)
  PROVE  StopInv'
<1>1. CASE LoadCreate(r)
  <2>1. PICK b \in Boys \cup {None} :
          Arrive(r, [op |-> "create", s |-> None, b |-> b, user |-> Desk],
                 NoStop)
    BY <1>1 DEF LoadCreate
  <2>2. /\ [op |-> "create", s |-> None, b |-> b, user |-> Desk] \in Job
        /\ NoStop \in StopDoc
    BY DEF Job, NoStop, StopDoc
  <2> QED BY <2>1, <2>2, ArriveKeepsInv
<1>2. CASE LoadAssign(r)
  <2>1. PICK s \in Stops, b \in Boys :
          /\ stop[s].status # "Absent"
          /\ Arrive(r, [op |-> "assign", s |-> s, b |-> b, user |-> Desk],
                    stop[s])
    BY <1>2 DEF LoadAssign
  <2>2. /\ [op |-> "assign", s |-> s, b |-> b, user |-> Desk] \in Job
        /\ stop[s] \in StopDoc
        /\ stop[s].status \in Status
    BY <2>1 DEF Job, StopInv, TypeOK, StopDoc
  <2> QED BY <2>1, <2>2, ArriveKeepsInv
<1>3. CASE LoadApply(r)
  <2>1. PICK s \in Stops, u \in Boys \cup {Manager} :
          /\ stop[s].status # "Absent"
          /\ OwnsStop(u, stop[s])
          /\ Arrive(r, [op |-> "apply", s |-> s, b |-> stop[s].boy,
                        user |-> u], stop[s])
    BY <1>3 DEF LoadApply
  <2>2. /\ stop[s] \in StopDoc
        /\ stop[s].status \in Status
        /\ [op |-> "apply", s |-> s, b |-> stop[s].boy, user |-> u] \in Job
    BY <2>1 DEF Job, StopInv, TypeOK, StopDoc
  <2> QED BY <2>1, <2>2, ArriveKeepsInv
<1> QED BY <1>1, <1>2, <1>3

LEMMA EndKeepsInv ==
  ASSUME StopInv, NEW r \in Requests, EndRequest(r)
  PROVE  StopInv'
<1>1. TypeOK'
  BY FinishTyped DEF EndRequest, StopInv, TypeOK
<1>2. /\ job'[r] = NoJob
      /\ \A q \in Requests \ {r} :
           /\ job'[q] = job[q]
           /\ doc'[q] = doc[q]
           /\ job[q].op # "none" => bumped'[q] = bumped[q]
      /\ stop' = stop
  BY DEF EndRequest, Finish, StopInv, TypeOK
<1>3. CopyIsCurrent'
  BY <1>2 DEF StopInv, CopyIsCurrent, NoJob
<1>4. CheckedOwner'
  BY <1>2 DEF StopInv, CheckedOwner, OwnsStop, NoJob
<1> QED BY <1>1, <1>3, <1>4 DEF StopInv

LEMMA FormKeepsInv ==
  ASSUME StopInv, NEW b \in Boys, OpenForm(b) \/ SaveForm(b)
  PROVE  StopInv'
<1>1. CASE OpenForm(b)
  <2>1. form' \in [Boys -> Nat \cup {None}]
    BY <1>1 DEF OpenForm, StopInv, TypeOK, BoyDoc
  <2> QED BY <1>1, <2>1
          DEF OpenForm, StopInv, TypeOK, CopyIsCurrent, CheckedOwner, OwnsStop
<1>2. CASE SaveForm(b)
  <2>1. PICK x \in BoyStatus :
          boy' = [boy EXCEPT ![b] = [status |-> x, done |-> form[b]]]
    BY <1>2 DEF SaveForm
  <2>2. [status |-> x, done |-> form[b]] \in BoyDoc
    BY <1>2 DEF SaveForm, StopInv, TypeOK, BoyDoc
  <2>3. boy' \in [Boys -> BoyDoc] /\ form' \in [Boys -> Nat \cup {None}]
    BY <1>2, <2>1, <2>2 DEF SaveForm, StopInv, TypeOK
  <2>4. touched' \in [Requests -> SUBSET (Stops \cup Boys)]
    BY <1>2 DEF SaveForm, StopInv, TypeOK
  <2>5. TypeOK'
    BY <1>2, <2>3, <2>4 DEF SaveForm, StopInv, TypeOK
  <2> QED BY <1>2, <2>5
          DEF SaveForm, StopInv, CopyIsCurrent, CheckedOwner, OwnsStop
<1> QED BY <1>1, <1>2

LEMMA InitInv == Init => StopInv
<1> SUFFICES ASSUME Init PROVE StopInv
  OBVIOUS
<1>1. NoJob \in Job /\ NoStop \in StopDoc /\ NoView \in View
  BY DEF NoJob, Job, NoStop, StopDoc, NoView, View, BoyStatus
<1>2. TypeOK
  BY <1>1 DEF Init, TypeOK, BoyDoc, BoyStatus
<1> QED BY <1>2 DEF Init, StopInv, CopyIsCurrent, CheckedOwner, NoJob

LEMMA NextInv == StopInv /\ [Next]_vars => StopInv'
<1> SUFFICES ASSUME StopInv, [Next]_vars PROVE StopInv'
  OBVIOUS
<1>1. CASE UNCHANGED vars
  BY <1>1 DEF vars, StopInv, TypeOK, CopyIsCurrent, CheckedOwner, OwnsStop
<1>2. ASSUME NEW r \in Requests, Create(r) \/ Assign(r) \/ ApplyStatus(r)
      PROVE  StopInv'
  <2>1. \E s \in Stops, d \in StopDoc, writes \in BOOLEAN : \E b, c, moves :
          /\ writes => b \in Boys /\ c \in BoyDoc
          /\ Commit(r, s, d, writes, b, c, moves)
    <3>1. CASE Create(r)
      BY <3>1, CreateCommits
    <3>2. CASE Assign(r)
      BY <3>2, AssignCommits
    <3>3. CASE ApplyStatus(r)
      BY <3>3, ApplyCommits
    <3> QED BY <1>2, <3>1, <3>2, <3>3
  <2> QED BY <2>1, CommitKeepsInv
<1>3. CASE Next
  BY <1>2, <1>3, LoadKeepsInv, EndKeepsInv, FormKeepsInv DEF Next
<1> QED BY <1>1, <1>3

\* The inductive invariant holds of every reachable state.
THEOREM StopInvariant == Spec => []StopInv
BY InitInv, NextInv, PTL DEF Spec

-----------------------------------------------------------------------------
(* What a step may not do.                                                 *)

KeepsClosed ==
  \A s \in Stops :
    stop[s].status \in Terminal => stop'[s].status = stop[s].status

LEMMA SaveIsFinal ==
  ASSUME TypeOK, NEW s \in Stops, NEW d,
         stop' = [stop EXCEPT ![s] = d],
         stop[s].status \in Terminal => d.status = stop[s].status
  PROVE  KeepsClosed
BY DEF KeepsClosed, TypeOK

LEMMA NextIsFinal == StopInv /\ [Next]_vars => KeepsClosed
<1> SUFFICES ASSUME StopInv, [Next]_vars PROVE KeepsClosed
  OBVIOUS
<1>1. CASE UNCHANGED stop
  BY <1>1 DEF KeepsClosed
<1>2. ASSUME NEW r \in Requests, Create(r) \/ Assign(r) \/ ApplyStatus(r)
      PROVE  KeepsClosed
  <2>1. \E s \in Stops, d \in StopDoc :
          /\ stop' = [stop EXCEPT ![s] = d]
          /\ stop[s].status \in Terminal => d.status = stop[s].status
    <3>1. CASE Create(r)
      BY <3>1, CreateCommits DEF Commit, Terminal
    <3>2. CASE Assign(r)
      BY <3>2, AssignCommits DEF Commit
    <3>3. CASE ApplyStatus(r)
      BY <3>3, ApplyCommits DEF Commit
    <3> QED BY <1>2, <3>1, <3>2, <3>3
  <2> QED BY <2>1, SaveIsFinal DEF StopInv
<1>3. ASSUME NEW r \in Requests,
             LoadCreate(r) \/ LoadAssign(r) \/ LoadApply(r) \/ EndRequest(r)
      PROVE  UNCHANGED stop
  BY <1>3 DEF LoadCreate, LoadAssign, LoadApply, EndRequest, Arrive
<1>4. CASE Next
  BY <1>1, <1>2, <1>3, <1>4 DEF Next, OpenForm, SaveForm
<1>5. CASE UNCHANGED vars
  BY <1>1, <1>5 DEF vars
<1> QED BY <1>4, <1>5

\* A stop that reached a terminal status keeps it: _TRANSITIONS has no way
\* out of one, assign() leaves it alone, and the save of a request that
\* loaded the stop before is refused.
THEOREM ClosedForGood == Spec => ClosedStopIsFinal
<1>1. StopInv /\ [Next]_vars => [KeepsClosed]_vars
  BY NextIsFinal
<1>2. [KeepsClosed]_vars
        <=> [\A s \in Stops :
               stop[s].status \in Terminal =>
                 stop'[s].status = stop[s].status]_vars
  BY DEF KeepsClosed
<1> QED BY <1>1, <1>2, StopInvariant, PTL DEF Spec, ClosedStopIsFinal

OwnStep ==
  \A r \in Requests :
    job[r].op = "apply" /\ job[r].user \in Boys /\ stop' # stop
      /\ job'[r].op = "none"
    => stop[job[r].s].boy = job[r].user

LEMMA NextIsOwn == StopInv /\ [Next]_vars => OwnStep
<1> SUFFICES ASSUME StopInv, [Next]_vars, NEW r \in Requests,
                    job[r].op = "apply", job[r].user \in Boys,
                    stop' # stop, job'[r].op = "none"
             PROVE  stop[job[r].s].boy = job[r].user
  BY DEF OwnStep
<1>1. CASE ApplyStatus(r)
  BY <1>1, ApplyCommits, NamesAssumption DEF OwnsStop
<1>2. ASSUME NEW q \in Requests, Create(q) \/ Assign(q) \/ ApplyStatus(q)
      PROVE  q = r
  <2>1. \E s \in Stops, d \in StopDoc, writes \in BOOLEAN : \E b, c, moves :
          /\ writes => b \in Boys /\ c \in BoyDoc
          /\ Commit(q, s, d, writes, b, c, moves)
    <3>1. CASE Create(q)
      BY <3>1, CreateCommits
    <3>2. CASE Assign(q)
      BY <3>2, AssignCommits
    <3>3. CASE ApplyStatus(q)
      BY <3>3, ApplyCommits
    <3> QED BY <1>2, <3>1, <3>2, <3>3
  <2>2. \A p \in Requests \ {q} : job'[p] = job[p]
    BY <2>1, CommitFrame DEF StopInv
  <2> QED BY <2>2
<1>3. ASSUME NEW q \in Requests,
             LoadCreate(q) \/ LoadAssign(q) \/ LoadApply(q) \/ EndRequest(q)
      PROVE  FALSE
  BY <1>3 DEF LoadCreate, LoadAssign, LoadApply, EndRequest, Arrive
<1>4. \E q \in Requests : Create(q) \/ Assign(q) \/ ApplyStatus(q)
  <2>1. CASE Next
    BY <1>3, <2>1 DEF Next, OpenForm, SaveForm
  <2> QED BY <2>1 DEF vars
<1>5. Create(r) \/ Assign(r) \/ ApplyStatus(r)
  BY <1>2, <1>4
<1>6. ApplyStatus(r)
  BY <1>5 DEF Create, Assign
<1> QED BY <1>1, <1>6

\* A courier changes a stop only while it is assigned to him: the check was
\* made on a copy that is still current when it is saved.
THEOREM CouriersKeepToTheirStops == Spec => OnlyOwnStops
<1>1. StopInv /\ [Next]_vars => [OwnStep]_vars
  BY NextIsOwn
<1>2. [OwnStep]_vars
        <=> [\A r \in Requests :
               job[r].op = "apply" /\ job[r].user \in Boys /\ stop' # stop
                 /\ job'[r].op = "none"
               => stop[job[r].s].boy = job[r].user]_vars
  BY DEF OwnStep
<1> QED BY <1>1, <1>2, StopInvariant, PTL DEF Spec, OnlyOwnStops

-----------------------------------------------------------------------------
(***************************************************************************)
(* What a delivery brings its courier, for any number of loads.  The cache *)
(* that the counts are derived from is MCDeliveryStops.                    *)
(***************************************************************************)

-----------------------------------------------------------------------------
(* What a commit does to the couriers, whoever makes it.                   *)

\* Create, Assign and ApplyStatus commit one stop of the courier they looked
\* at when they were loaded, and either put him on the route, close the stop,
\* or leave him alone.
CommitsOf(r, s, d) ==
  /\ s \in Stops /\ d \in StopDoc /\ d.boy = job[r].b
  /\ \/ CommitOnRoute(r, s, d)
        /\ \/ d.status # "Delivered"
           \/ stop[s].status \in {"Absent", "Delivered"}
     \/ /\ d.status \notin Active
        /\ stop[s].status = "Absent"
        /\ Commit(r, s, d, FALSE, None, None, FALSE)
     \/ /\ d.status \notin Active
        /\ s = job[r].s /\ stop[s].status # "Absent"
        /\ CommitClosed(r, s, d,
             d.status = "Delivered" /\ stop[s].status # "Delivered")

LEMMA CommitsAreOfTheirCourier ==
  ASSUME StopInv, NEW r \in Requests, Create(r) \/ Assign(r) \/ ApplyStatus(r)
  PROVE  job[r].op # "none" /\ \E s, d : CommitsOf(r, s, d)
<1>1. CASE Create(r)
  <2>1. PICK s \in Stops, x \in Status :
          LET d == [status |-> x, boy |-> job[r].b]
          IN /\ stop[s].status = "Absent"
             /\ IF x \in Active THEN CommitOnRoute(r, s, d)
                ELSE Commit(r, s, d, FALSE, None, None, FALSE)
    BY <1>1 DEF Create
  <2> DEFINE d == [status |-> x, boy |-> job[r].b]
  <2>2. d \in StopDoc /\ d.boy = job[r].b /\ d.status = x
    BY DEF StopInv, TypeOK, Job, StopDoc
  <2>3. CommitsOf(r, s, d)
    <3> HIDE DEF d
    <3> QED BY <2>1, <2>2 DEF CommitsOf, d, Active
  <2> QED BY <2>3, <1>1 DEF Create
<1>2. CASE Assign(r)
  <2> DEFINE d == [doc[r] EXCEPT !.boy = job[r].b]
  <2>1. job[r].s \in Stops /\ doc[r] = stop[job[r].s] /\ doc[r] \in StopDoc
        /\ job[r].b \in Boys \cup {None} /\ doc[r].status \in Status
    BY <1>2 DEF StopInv, CopyIsCurrent, Assign, CanSave, TypeOK, Job
  <2>2. d \in StopDoc /\ d.boy = job[r].b /\ d.status = doc[r].status
    BY <2>1 DEF StopDoc
  <2>3. CommitOnRoute(r, job[r].s, d)
    BY <1>2 DEF Assign
  <2> HIDE DEF d
  <2>4. CommitsOf(r, job[r].s, d)
    BY <2>1, <2>2, <2>3 DEF CommitsOf
  <2> QED BY <2>4, <1>2 DEF Assign
<1>3. CASE ApplyStatus(r)
  <2>1. PICK nxt \in {doc[r].status} \cup Transitions[doc[r].status] :
          LET d == [doc[r] EXCEPT !.status = nxt]
          IN IF nxt \in Active THEN CommitOnRoute(r, job[r].s, d)
             ELSE CommitClosed(r, job[r].s, d,
                    nxt = "Delivered" /\ doc[r].status # "Delivered")
    BY <1>3 DEF ApplyStatus
  <2> DEFINE d == [doc[r] EXCEPT !.status = nxt]
  <2>2. /\ job[r].s \in Stops /\ doc[r] = stop[job[r].s] /\ doc[r] \in StopDoc
        /\ doc[r].boy = job[r].b /\ doc[r].status \in Status
    BY <1>3 DEF StopInv, CopyIsCurrent, CheckedOwner, ApplyStatus, CanSave, TypeOK
  <2>3. nxt \in Status
    BY <2>2, TransitionsOK
  <2>4. d \in StopDoc /\ d.boy = job[r].b /\ d.status = nxt
    BY <2>2, <2>3 DEF StopDoc
  <2>5. doc[r].status # "Absent"
    BY <2>2 DEF Status, Active, Terminal
  <2>6. CommitsOf(r, job[r].s, d)
    <3> HIDE DEF d
    <3>1. CASE nxt \in Active
      <4>1. nxt # "Delivered"
        BY <3>1 DEF Active
      <4>2. CommitOnRoute(r, job[r].s, d)
        BY <2>1, <3>1 DEF d
      <4> QED BY <4>1, <4>2, <2>2, <2>4 DEF CommitsOf
    <3>2. CASE nxt \notin Active
      <4>1. CommitClosed(r, job[r].s, d,
              nxt = "Delivered" /\ doc[r].status # "Delivered")
        BY <2>1, <3>2 DEF d
      <4> QED BY <4>1, <2>2, <2>4, <2>5, <3>2 DEF CommitsOf
    <3> QED BY <3>1, <3>2
  <2> QED BY <2>6, <1>3 DEF ApplyStatus
<1> QED BY <1>1, <1>2, <1>3

-----------------------------------------------------------------------------
(* The score.                                                              *)

\* With SnapshotIsolation, a score that was read is the score as long as
\* nobody else has committed a change of the courier.
ScoreIsCurrent ==
  \A r \in Requests :
    job[r].op # "none" /\ job[r].b # None /\ job[r].b \notin touched[r] =>
      view[r].done = boy[job[r].b].done

ScoreInv == StopInv /\ ScoreIsCurrent

Rewards ==
  \A b \in Boys :
    \/ boy'[b].done = boy[b].done + Cardinality(Earned(b))
    \/ job' = job /\ boy'[b].done = form[b]

LEMMA NoneEarned ==
  ASSUME TypeOK, TypeOK', \A b \in Boys : Earned(b) = {},
         \A b \in Boys : boy'[b].done = boy[b].done
  PROVE  Rewards
<1>1. Cardinality({}) = 0
  BY FS_EmptySet
<1>2. \A b \in Boys : boy[b].done \in Nat
  BY DEF TypeOK, BoyDoc
<1>3. \A b \in Boys : boy'[b].done = boy[b].done + Cardinality(Earned(b))
  BY <1>1, <1>2
<1> QED BY <1>3 DEF Rewards

\* One commit: the courier it writes, and what he has earned.
LEMMA CommitRewards ==
  ASSUME SnapshotIsolation, ScoreInv, TypeOK', NEW r \in Requests, NEW s, NEW d,
         CommitsOf(r, s, d), job[r].op # "none"
  PROVE  Rewards
<1> USE DEF CommitsOf
<1>0. TypeOK
  BY DEF ScoreInv, StopInv
<1>1. stop' = [stop EXCEPT ![s] = d]
  BY DEF CommitOnRoute, CommitClosed, Commit
<1>2. \A t \in Stops \ {s} : stop'[t] = stop[t]
  BY <1>0, <1>1 DEF TypeOK
<1>3. stop'[s] = d
  BY <1>0, <1>1 DEF TypeOK
<1>4. \A b \in Boys : Earned(b) \subseteq {s}
  BY <1>2 DEF Earned
<1>5. \A b \in Boys : boy[b] \in BoyDoc /\ boy[b].done \in Nat
  BY <1>0 DEF TypeOK, BoyDoc
<1>8. boy \in [Boys -> BoyDoc]
  BY <1>0 DEF TypeOK
<1>6. CASE d.status # "Delivered" \/ stop[s].status \in {"Absent", "Delivered"}
  <2>1. \A b \in Boys : Earned(b) = {}
    BY <1>3, <1>4, <1>6 DEF Earned
  <2>2. \A b \in Boys : boy'[b].done = boy[b].done
    <3>0. d.boy # None => d.boy \in Boys
      BY DEF StopDoc
    <3>1. CASE CommitOnRoute(r, s, d)
      <4>1. PICK x : boy' = boy \/ (d.boy \in Boys
              /\ boy' = [boy EXCEPT ![d.boy] = [boy[d.boy] EXCEPT !.status = x]])
        BY <3>0, <3>1 DEF CommitOnRoute, Commit
      <4> QED BY <4>1, <1>5, <1>8 DEF BoyDoc
    <3>2. CASE Commit(r, s, d, FALSE, None, None, FALSE)
      BY <3>2 DEF Commit
    <3>3. CASE CommitClosed(r, s, d, FALSE)
      <4>1. PICK x : boy' = boy \/ (d.boy \in Boys
              /\ boy' = [boy EXCEPT ![d.boy] =
                            [status |-> x, done |-> boy[d.boy].done]])
        BY <3>0, <3>3 DEF CommitClosed, Commit
      <4> QED BY <4>1, <1>5, <1>8
    <3>4. CASE CommitClosed(r, s, d,
                 d.status = "Delivered" /\ stop[s].status # "Delivered")
               /\ stop[s].status # "Absent"
      <4>1. ~(d.status = "Delivered" /\ stop[s].status # "Delivered")
        BY <1>6, <3>4
      <4>2. (d.status = "Delivered" /\ stop[s].status # "Delivered") = FALSE
        BY <4>1
      <4> QED BY <4>2, <3>3, <3>4
    <3> QED BY <3>1, <3>2, <3>4
  <2> QED BY <1>0, <2>1, <2>2, NoneEarned
<1>7. CASE d.status = "Delivered" /\ stop[s].status \notin {"Absent", "Delivered"}
  <2>1. CommitClosed(r, s, d, TRUE)
    BY <1>7
  <2>2. CASE d.boy = None
    <3>1. \A b \in Boys : Earned(b) = {}
      BY <1>3, <1>4, <2>2, NamesAssumption DEF Earned
    <3>2. boy' = boy
      BY <2>1, <2>2 DEF CommitClosed, Commit
    <3> QED BY <1>0, <3>1, <3>2, NoneEarned
  <2>3. CASE d.boy # None
    <3>1. d.boy \in Boys /\ d.boy = job[r].b
      BY <2>3 DEF StopDoc
    <3>2. boy' = [boy EXCEPT ![d.boy] =
                    [status |-> IF view[r].busy THEN boy[d.boy].status
                                ELSE "Available",
                     done |-> view[r].done + 1]]
          /\ d.boy \notin touched[r]
      BY <2>1, <2>3 DEF CommitClosed, Commit, NoConflict
    <3>3. view[r].done = boy[d.boy].done
      BY <3>1, <3>2, <2>3 DEF ScoreInv, ScoreIsCurrent
    <3>4. boy'[d.boy].done = boy[d.boy].done + 1
      BY <3>1, <3>2, <3>3, <1>0 DEF TypeOK
    <3>5. \A b \in Boys \ {d.boy} : boy'[b] = boy[b] /\ Earned(b) = {}
      BY <3>1, <3>2, <1>0, <1>3, <1>4 DEF TypeOK, Earned
    <3>6. Earned(d.boy) = {s}
      BY <1>3, <1>4, <1>7, <3>1 DEF Earned
    <3>7. Cardinality({}) = 0 /\ Cardinality({s}) = 1
      BY FS_EmptySet, FS_Singleton
    <3> SUFFICES ASSUME NEW b \in Boys
                 PROVE  boy'[b].done = boy[b].done + Cardinality(Earned(b))
      BY DEF Rewards
    <3>8. CASE b = d.boy
      BY <3>4, <3>6, <3>7, <3>8
    <3>9. CASE b # d.boy
      BY <3>5, <3>7, <3>9, <1>5
    <3> QED BY <3>8, <3>9
  <2> QED BY <2>2, <2>3
<1> QED BY <1>6, <1>7

\* A commit marks the rows it wrote in every other request.
LEMMA CommitKeepsScore ==
  ASSUME SnapshotIsolation, ScoreInv, NEW r \in Requests, NEW s, NEW d,
         CommitsOf(r, s, d), job[r].op # "none"
  PROVE  ScoreIsCurrent'
<1>0. PICK writes \in BOOLEAN : \E b, c, moves :
        /\ Commit(r, s, d, writes, b, c, moves)
        /\ writes => b \in Boys /\ b = d.boy
  <2>1. d.boy # None => d.boy \in Boys
    BY DEF CommitsOf, StopDoc
  <2> QED BY <2>1 DEF CommitsOf, CommitOnRoute, CommitClosed
<1>1. PICK b, c, moves :
        /\ Commit(r, s, d, writes, b, c, moves)
        /\ writes => b \in Boys /\ b = d.boy
  BY <1>0
<1>2. TypeOK
  BY DEF ScoreInv, StopInv
<1>3. /\ job'[r].op = "none"
      /\ \A q \in Requests \ {r} :
           /\ job'[q] = job[q] /\ view'[q] = view[q]
           /\ job[q].op # "none" /\ job[q].b \notin touched'[q] =>
                /\ job[q].b \notin touched[q]
                /\ ~(writes /\ job[q].b = b)
  BY <1>1, <1>2 DEF Commit, Finish, TypeOK, NoJob
<1>4. \A x \in Boys : ~(writes /\ x = b) => boy'[x] = boy[x]
  BY <1>1, <1>2 DEF Commit, TypeOK
<1>5. \A q \in Requests : job[q].b \in Boys \cup {None}
  BY <1>2 DEF TypeOK, Job
<1> SUFFICES ASSUME NEW q \in Requests, job'[q].op # "none", job'[q].b # None,
                    job'[q].b \notin touched'[q]
             PROVE  view'[q].done = boy'[job'[q].b].done
  BY DEF ScoreIsCurrent
<1>6. q # r /\ job'[q] = job[q] /\ view'[q] = view[q]
  BY <1>3
<1>7. job[q].b \in Boys /\ job[q].b \notin touched[q] /\ ~(writes /\ job[q].b = b)
  BY <1>3, <1>5, <1>6
<1> QED BY <1>4, <1>6, <1>7 DEF ScoreInv, ScoreIsCurrent

LEMMA ArriveKeepsScore ==
  ASSUME ScoreInv, NEW r \in Requests, NEW j, NEW d, Arrive(r, j, d)
  PROVE  ScoreIsCurrent' /\ UNCHANGED <<stop, boy>>
<1>1. /\ job'[r] = j /\ view'[r] = Seen(j.b, j.s)
      /\ UNCHANGED <<stop, boy, touched>>
      /\ \A q \in Requests \ {r} : job'[q] = job[q] /\ view'[q] = view[q]
  BY DEF Arrive, ScoreInv, StopInv, TypeOK
<1>2. j.b # None => view'[r].done = boy[j.b].done
  BY <1>1 DEF Seen
<1> QED BY <1>1, <1>2 DEF ScoreInv, ScoreIsCurrent

LEMMA NextScore ==
  ASSUME SnapshotIsolation, ScoreInv, [Next]_vars
  PROVE  ScoreInv' /\ Rewards
<1>1. StopInv' /\ TypeOK' /\ TypeOK
  BY NextInv DEF ScoreInv, StopInv
<1>2. ASSUME UNCHANGED stop, \A b \in Boys : boy'[b].done = boy[b].done
      PROVE  Rewards
  BY <1>1, <1>2, NoneEarned DEF Earned
<1>3. CASE UNCHANGED vars
  BY <1>1, <1>2, <1>3 DEF vars, ScoreInv, ScoreIsCurrent
<1>4. ASSUME NEW r \in Requests, Create(r) \/ Assign(r) \/ ApplyStatus(r)
      PROVE  ScoreIsCurrent' /\ Rewards
  BY <1>1, <1>4, CommitsAreOfTheirCourier, CommitRewards, CommitKeepsScore
     DEF ScoreInv
<1>5. ASSUME NEW r \in Requests, LoadCreate(r) \/ LoadAssign(r) \/ LoadApply(r)
      PROVE  ScoreIsCurrent' /\ Rewards
  <2>1. \E j, d : Arrive(r, j, d)
    BY <1>5, Zenon DEF LoadCreate, LoadAssign, LoadApply
  <2> QED BY <2>1, <1>2, ArriveKeepsScore
<1>6. ASSUME NEW r \in Requests, EndRequest(r)
      PROVE  ScoreIsCurrent' /\ Rewards
  <2>1. /\ UNCHANGED <<stop, boy>> /\ job'[r].op = "none"
        /\ \A q \in Requests \ {r} :
             /\ job'[q] = job[q] /\ view'[q] = view[q]
             /\ job[q].op # "none" /\ job[q].b \notin touched'[q] =>
                  job[q].b \notin touched[q] \/ ~SnapshotIsolation
    BY <1>1, <1>6 DEF EndRequest, Finish, TypeOK, NoJob
  <2> QED BY <2>1, <1>2 DEF ScoreInv, ScoreIsCurrent
<1>7. ASSUME NEW b \in Boys, OpenForm(b)
      PROVE  ScoreIsCurrent' /\ Rewards
  BY <1>2, <1>7 DEF OpenForm, ScoreInv, ScoreIsCurrent
<1>9. ASSUME NEW b \in Boys, SaveForm(b)
      PROVE  ScoreIsCurrent' /\ Rewards
  <2>1. /\ UNCHANGED <<stop, job, view>>
        /\ boy'[b].done = form[b]
        /\ \A x \in Boys \ {b} : boy'[x] = boy[x]
        /\ \A q \in Requests : /\ touched[q] \subseteq touched'[q]
                               /\ job[q].b = b => b \in touched'[q]
    BY <1>1, <1>9 DEF SaveForm, TypeOK
  <2>2. \A x \in Boys : Earned(x) = {} /\ boy[x].done \in Nat
    BY <1>1, <2>1 DEF Earned, TypeOK, BoyDoc
  <2>3. Cardinality({}) = 0
    BY FS_EmptySet
  <2>4. Rewards
    BY <2>1, <2>2, <2>3 DEF Rewards
  <2>5. \A q \in Requests : job[q].b \in Boys \cup {None}
    BY <1>1 DEF TypeOK, Job
  <2> QED BY <2>1, <2>4, <2>5 DEF ScoreInv, ScoreIsCurrent
<1>8. CASE Next
  BY <1>1, <1>4, <1>5, <1>6, <1>7, <1>8, <1>9 DEF Next, ScoreInv
<1> QED BY <1>1, <1>3, <1>8 DEF ScoreInv

\* Every delivery earns its courier the points of one delivery and no other
\* request touches his score, with any number of requests at once: the score that
\* _award_delivery_points adds to is still the score when it is written, because
\* SnapshotIsolation refuses the write otherwise.  Only a form saved in Desk puts
\* the score back that it shows.
THEOREM DeliveriesAreRewarded ==
  ASSUME SnapshotIsolation PROVE Spec => DeliveryIsRewarded
<1>1. Init => ScoreInv
  BY InitInv DEF ScoreInv, ScoreIsCurrent, Init, NoJob
<1>2. ScoreInv /\ [Next]_vars => ScoreInv' /\ [Rewards]_vars
  BY NextScore
<1>3. [Rewards]_vars
        <=> [\A b \in Boys :
               \/ boy'[b].done = boy[b].done + Cardinality(Earned(b))
               \/ job' = job /\ boy'[b].done = form[b]]_vars
  BY DEF Rewards
<1> QED BY <1>1, <1>2, <1>3, PTL DEF Spec, DeliveryIsRewarded

-----------------------------------------------------------------------------
(* Who is on the route.                                                    *)

\* What a request about a courier saw of him is still so.
SeenIsCurrent(b) ==
  \A r \in Requests : Concerns(r, b) =>
    /\ ActiveStops(b) \ {job[r].s} # {} => view[r].busy
    /\ boy[b].status = "Available" => view[r].status = "Available"

BusyWhileActive(b) == ActiveStops(b) # {} => boy[b].status # "Available"

InSight(b) == BusyWhileActive(b) /\ ~Overlap(b) /\ SeenIsCurrent(b)

BusyInv == StopInv /\ excused \subseteq Boys /\ \A b \in Boys \ excused : InSight(b)

\* A courier who is not engaged has nothing to lose sight of.
LEMMA IdleInSight ==
  ASSUME NEW b \in Boys, ~Engaged(b) PROVE InSight(b)
BY DEF Engaged, InSight, BusyWhileActive, Overlap, SeenIsCurrent

\* A commit moves the stops of nobody but its own courier's.
LEMMA CommitKeepsSight ==
  ASSUME TypeOK, NEW b \in Boys, InSight(b),
         NEW r \in Requests, NEW s, NEW d,
         CommitsOf(r, s, d), job[r].op # "none"
  PROVE  InSight(b)'
<1> USE DEF CommitsOf
<1>1. /\ stop' = [stop EXCEPT ![s] = d]
      /\ \E written : Finish(r, written)
  BY DEF CommitOnRoute, CommitClosed, Commit
<1>2. /\ job'[r] = NoJob
      /\ \A q \in Requests \ {r} : job'[q] = job[q] /\ view'[q] = view[q]
  BY <1>1 DEF Finish, TypeOK
<1>3. \A q \in Requests : Concerns(q, b)' => q # r /\ Concerns(q, b)
  BY <1>2 DEF Concerns, NoJob
<1>4. ~Overlap(b)'
  BY <1>3 DEF InSight, Overlap
<1>5. CASE d.boy # b
  <2>1. boy'[b] = boy[b]
    BY <1>5 DEF CommitOnRoute, CommitClosed, Commit, TypeOK
  <2>2. ActiveStops(b)' \subseteq ActiveStops(b)
    BY <1>1, <1>5 DEF ActiveStops, TypeOK
  <2>3. BusyWhileActive(b)'
    BY <2>1, <2>2 DEF InSight, BusyWhileActive
  <2>4. SeenIsCurrent(b)'
    BY <1>2, <1>3, <2>1, <2>2 DEF InSight, SeenIsCurrent
  <2> QED BY <1>4, <2>3, <2>4 DEF InSight
<1>6. CASE d.boy = b
  <2>0. boy[b] \in BoyDoc /\ b # None /\ job[r].b = b /\ Concerns(r, b)
    BY <1>6, NamesAssumption DEF TypeOK, Concerns
  <2>1. SeenIsCurrent(b)'
    BY <1>3, <2>0 DEF SeenIsCurrent, InSight, Overlap
  <2>2. ASSUME ActiveStops(b)' # {} PROVE boy'[b].status # "Available"
    <3>1. CASE CommitOnRoute(r, s, d)
      <4>1. CASE view[r].status = "Available"
        BY <2>0, <1>6, <3>1, <4>1 DEF CommitOnRoute, Commit, TypeOK, BoyDoc
      <4>2. CASE view[r].status # "Available"
        BY <2>0, <1>6, <3>1, <4>2 DEF CommitOnRoute, Commit, SeenIsCurrent, InSight
      <4> QED BY <4>1, <4>2
    <3>2. CASE d.status \notin Active /\ stop[s].status = "Absent"
               /\ Commit(r, s, d, FALSE, None, None, FALSE)
      <4>1. ActiveStops(b)' \subseteq ActiveStops(b) /\ boy' = boy
        BY <3>2, <1>1 DEF Commit, ActiveStops, TypeOK
      <4> QED BY <4>1, <2>2 DEF BusyWhileActive, InSight
    <3>3. ASSUME d.status \notin Active, s = job[r].s,
                 NEW award \in BOOLEAN, CommitClosed(r, s, d, award)
          PROVE  boy'[b].status # "Available"
      <4>1. ActiveStops(b)' \subseteq ActiveStops(b) \ {s}
        BY <3>3, <1>1 DEF ActiveStops, TypeOK
      <4>2. view[r].busy
        BY <4>1, <3>3, <2>0, <2>2 DEF SeenIsCurrent, InSight
      <4>3. boy[b].status # "Available"
        BY <4>1, <2>2 DEF BusyWhileActive, InSight
      <4> QED BY <4>2, <4>3, <3>3, <1>6, <2>0 DEF CommitClosed, Commit, TypeOK
    <3> QED BY <3>1, <3>2, <3>3
  <2> QED BY <1>4, <2>1, <2>2 DEF BusyWhileActive, InSight
<1> QED BY <1>5, <1>6

LEMMA ArriveKeepsSight ==
  ASSUME TypeOK, NEW b \in Boys, InSight(b), ~Overlap(b)',
         NEW r \in Requests, NEW j, NEW d, Arrive(r, j, d)
  PROVE  InSight(b)'
<1>1. /\ job'[r] = j /\ view'[r] = Seen(j.b, j.s)
      /\ UNCHANGED <<stop, boy>>
      /\ \A q \in Requests \ {r} : job'[q] = job[q] /\ view'[q] = view[q]
  BY DEF Arrive, TypeOK
<1>2. ActiveStops(b)' = ActiveStops(b)
  BY <1>1 DEF ActiveStops
<1>3. BusyWhileActive(b)'
  BY <1>1, <1>2 DEF InSight, BusyWhileActive
<1>4. ASSUME j.b = b
      PROVE  /\ ActiveStops(b) \ {j.s} # {} => view'[r].busy
             /\ view'[r].status = boy[b].status
  <2>1. view'[r] = [status |-> boy[b].status, done |-> boy[b].done,
                    busy |-> ActiveStops(b) \ {j.s} # {}]
    BY <1>1, <1>4, NamesAssumption DEF Seen
  <2>2. ASSUME ActiveStops(b) \ {j.s} # {}
        PROVE  view'[r].busy
    <3>1. (ActiveStops(b) \ {j.s} # {}) = TRUE
      BY <2>2
    <3>2. view'[r] = [status |-> boy[b].status, done |-> boy[b].done,
                      busy |-> TRUE]
      BY <2>1, <3>1
    <3> QED BY <3>2
  <2> QED BY <2>1, <2>2
<1>5. ASSUME NEW q \in Requests, Concerns(q, b)'
      PROVE  /\ ActiveStops(b)' \ {job'[q].s} # {} => view'[q].busy
             /\ boy'[b].status = "Available" => view'[q].status = "Available"
  <2>1. CASE q = r
    BY <2>1, <1>1, <1>2, <1>4, <1>5 DEF Concerns
  <2>2. CASE q # r
    BY <2>2, <1>1, <1>2, <1>5 DEF InSight, SeenIsCurrent, Concerns
  <2> QED BY <2>1, <2>2
<1> QED BY <1>3, <1>5 DEF InSight, SeenIsCurrent

LEMMA NextSight ==
  ASSUME BusyInv, WatchedNext, NEW b \in Boys \ excused,
         ~Overlap(b)', ~SetAvailable(b)
  PROVE  InSight(b)'
<1>1. InSight(b) /\ TypeOK
  BY DEF BusyInv, StopInv
<1>2. ASSUME NEW r \in Requests, Create(r) \/ Assign(r) \/ ApplyStatus(r)
      PROVE  InSight(b)'
  BY <1>1, <1>2, CommitsAreOfTheirCourier, CommitKeepsSight DEF BusyInv
<1>3. ASSUME NEW r \in Requests, LoadCreate(r) \/ LoadAssign(r) \/ LoadApply(r)
      PROVE  InSight(b)'
  <2>1. \E j, d : Arrive(r, j, d)
    BY <1>3, Zenon DEF LoadCreate, LoadAssign, LoadApply
  <2> QED BY <1>1, <2>1, ArriveKeepsSight
<1>4. ASSUME NEW r \in Requests, EndRequest(r)
      PROVE  InSight(b)'
  <2>1. /\ UNCHANGED <<stop, boy>> /\ job'[r] = NoJob
        /\ \A q \in Requests \ {r} : job'[q] = job[q] /\ view'[q] = view[q]
    BY <1>1, <1>4 DEF EndRequest, Finish, TypeOK
  <2>2. ActiveStops(b)' = ActiveStops(b)
    BY <2>1 DEF ActiveStops
  <2>3. \A q \in Requests : Concerns(q, b)' => q # r /\ Concerns(q, b)
    BY <2>1 DEF Concerns, NoJob
  <2> QED BY <1>1, <2>1, <2>2, <2>3 DEF InSight, BusyWhileActive, SeenIsCurrent
<1>5. ASSUME NEW c \in Boys, OpenForm(c)
      PROVE  InSight(b)'
  <2>1. ActiveStops(b)' = ActiveStops(b)
    BY <1>5 DEF ActiveStops, OpenForm
  <2> QED BY <1>1, <1>5, <2>1
          DEF OpenForm, InSight, BusyWhileActive, SeenIsCurrent, Concerns
<1>6. ASSUME NEW c \in Boys, SaveForm(c)
      PROVE  InSight(b)'
  <2>1. UNCHANGED <<stop, job, view>>
    BY <1>6 DEF SaveForm
  <2>2. ActiveStops(b)' = ActiveStops(b)
    BY <2>1 DEF ActiveStops
  <2>3. boy'[b].status = "Available" => boy[b].status = "Available"
    BY <2>1 DEF SetAvailable
  <2> QED BY <1>1, <2>1, <2>2, <2>3
          DEF InSight, BusyWhileActive, SeenIsCurrent, Concerns
<1> QED BY <1>2, <1>3, <1>4, <1>5, <1>6 DEF WatchedNext, Next

LEMMA NextBusy ==
  ASSUME BusyInv, [WatchedNext]_<<vars, excused>>
  PROVE  BusyInv'
<1>1. StopInv'
  BY NextInv DEF BusyInv, WatchedNext, vars
<1>2. CASE UNCHANGED <<vars, excused>>
  <2>1. \A b : ActiveStops(b)' = ActiveStops(b)
    BY <1>2 DEF ActiveStops, vars
  <2> QED BY <1>1, <1>2, <2>1
          DEF vars, BusyInv, InSight, BusyWhileActive, Overlap, SeenIsCurrent,
              Concerns
<1>3. CASE WatchedNext
  <2>1. excused' \subseteq Boys
    BY <1>3 DEF WatchedNext
  <2>2. ASSUME NEW b \in Boys, b \notin excused' PROVE InSight(b)'
    <3>1. CASE ~Engaged(b)'
      BY <3>1, IdleInSight, PTL
    <3>2. CASE Engaged(b)'
      <4>1. b \notin excused /\ ~Overlap(b)' /\ ~SetAvailable(b)
        BY <1>3, <2>2, <3>2 DEF WatchedNext
      <4> QED BY <1>3, <4>1, NextSight
    <3> QED BY <3>1, <3>2
  <2> QED BY <1>1, <2>1, <2>2 DEF BusyInv
<1> QED BY <1>2, <1>3

\* A courier with a stop to deliver is not shown as available, unless two
\* requests about him have overlapped or he was set Available in Desk since he
\* was last without work: with any number of stops, couriers and requests, and
\* whatever happens to other couriers meanwhile (_set_boy_on_route,
\* _maybe_free_boy).
THEOREM CouriersAreBusy == WatchedSpec => []BusyUnlessExcused
<1>1. Init /\ excused = {} => BusyInv
  <2> SUFFICES ASSUME Init, excused = {} PROVE BusyInv
    OBVIOUS
  <2>1. \A b \in Boys : ~Engaged(b)
    BY DEF Init, Engaged, Concerns, ActiveStops, NoStop, Active, NoJob
  <2> QED BY <2>1, InitInv, IdleInSight DEF BusyInv
<1>2. BusyInv /\ [WatchedNext]_<<vars, excused>> => BusyInv'
  BY NextBusy
<1>3. BusyInv => BusyUnlessExcused
  BY DEF BusyInv, BusyUnlessExcused, InSight, BusyWhileActive
<1> QED BY <1>1, <1>2, <1>3, PTL DEF WatchedSpec
=============================================================================
