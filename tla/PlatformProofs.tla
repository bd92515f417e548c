-------------------------- MODULE PlatformProofs ---------------------------
(***************************************************************************)
(* Proofs about the small state machines of the platform: KdsTickets,      *)
(* SubscriptionGate, DuplicateGuard, AppPlatform, SettingsCache and        *)
(* InvoiceNaming, for any tickets, days, records, apps, keys, series and   *)
(* requests.                                                               *)
(***************************************************************************)
EXTENDS KdsTickets, SubscriptionGate, DuplicateGuard, AppPlatform, SettingsCache,
  InvoiceNaming, FiniteSetTheorems, WellFoundedInduction, TLAPS

-----------------------------------------------------------------------------
(***************************************************************************)
(* KdsTickets: with a consistent snapshot a ticket takes one step at a     *)
(* time.                                                                   *)
(***************************************************************************)

Statuses == {"Queued", "Preparing", "Ready", "Served"}

KdsCalls ==
  {Idle} \cup [op : {"move"}, t : Tickets, to : Statuses]
         \cup [op : {"bump"}, s : Stations, names : SUBSET Tickets]

OneApart(a, b) == At(b) - At(a) \in {-1, 1}

\* What request r may rely on: of tickets nobody saved since it loaded them, the
\* one it moves is a step away, and those it serves are Ready.
BumpsAsPlanned(r) ==
  /\ call[r].op = "move" /\ Fresh(r, call[r].t) =>
       OneApart(ticket[call[r].t], call[r].to)
  /\ call[r].op = "bump" =>
       \A t \in call[r].names : Fresh(r, t) => ticket[t] = "Ready"

KdsInv ==
  /\ ticket \in [Tickets -> Statuses]
  /\ call \in [Requests -> KdsCalls]
  /\ stale \in [Requests -> SUBSET Tickets]
  /\ \A r \in Requests : BumpsAsPlanned(r)

\* The statuses in their order.
LEMMA Places ==
  /\ At("Queued") = 1 /\ At("Preparing") = 2 /\ At("Ready") = 3 /\ At("Served") = 4
  /\ DOMAIN Flow = 1..4
  /\ Flow[1] = "Queued" /\ Flow[2] = "Preparing" /\ Flow[3] = "Ready" /\ Flow[4] = "Served"
<1>1. /\ DOMAIN Flow = 1..4
      /\ Flow[1] = "Queued" /\ Flow[2] = "Preparing"
      /\ Flow[3] = "Ready" /\ Flow[4] = "Served"
  BY DEF Flow
<1>2. \A i \in 1..4 : i = 1 \/ i = 2 \/ i = 3 \/ i = 4
  OBVIOUS
<1>3. At("Queued") = 1
  BY <1>1, <1>2 DEF At
<1>4. At("Preparing") = 2
  BY <1>1, <1>2 DEF At
<1>5. At("Ready") = 3
  BY <1>1, <1>2 DEF At
<1>6. At("Served") = 4
  BY <1>1, <1>2 DEF At
<1> QED BY <1>1, <1>3, <1>4, <1>5, <1>6

\* The neighbour that advance and recall take is a status one step away.
LEMMA Neighbour ==
  ASSUME NEW a \in Statuses, NEW by \in {-1, 1}, At(a) + by \in DOMAIN Flow
  PROVE  Flow[At(a) + by] \in Statuses /\ OneApart(a, Flow[At(a) + by])
<1>1. At(a) \in 1..4
  BY Places DEF Statuses
<1>2. PICK i \in 1..4 : i = At(a) + by
  BY Places
<1>3. i = 1 \/ i = 2 \/ i = 3 \/ i = 4
  OBVIOUS
<1>4. Flow[i] \in Statuses /\ At(Flow[i]) = i
  BY <1>3, Places DEF Statuses
<1>5. i - At(a) \in {-1, 1}
  BY <1>1, <1>2
<1> QED BY <1>2, <1>4, <1>5 DEF OneApart

\* The initial state satisfies the invariant.
LEMMA InitPlanned == BackendInit /\ KdsInit => KdsInv
BY DEF BackendInit, KdsInit, KdsInv, BumpsAsPlanned, Statuses, KdsCalls, Idle

\* A commit, as the other requests see it: what they rely on is unchanged for the
\* tickets it did not save.
LEMMA OthersKeep ==
  ASSUME KdsInv, NEW r \in Requests, NEW saved \in SUBSET Tickets, Done(r, saved),
         ticket' \in [Tickets -> Statuses],
         \A t \in Tickets \ saved : ticket'[t] = ticket[t]
  PROVE  KdsInv'
<1>1. call' \in [Requests -> KdsCalls] /\ stale' \in [Requests -> SUBSET Tickets]
  BY DEF KdsInv, Done, Commit, KdsCalls
<1>2. BumpsAsPlanned(r)'
  BY DEF KdsInv, Done, Commit, BumpsAsPlanned, Idle
<1>3. ASSUME NEW q \in Requests \ {r} PROVE BumpsAsPlanned(q)'
  <2>1. call'[q] = call[q] /\ (call[q] # Idle => stale'[q] = stale[q] \cup saved)
    BY DEF KdsInv, Done, Commit
  <2>2. CASE call[q] = Idle
    BY <2>1, <2>2 DEF BumpsAsPlanned, Idle
  <2>3. CASE call[q] # Idle
    <3>1. \A t \in Tickets : Fresh(q, t)' => Fresh(q, t) /\ ticket'[t] = ticket[t]
      BY <2>1, <2>3 DEF Fresh
    <3>2. call[q].op = "move" => call[q].t \in Tickets
      BY DEF KdsInv, KdsCalls, Idle
    <3>3. call[q].op = "bump" => call[q].names \subseteq Tickets
      BY DEF KdsInv, KdsCalls, Idle
    <3> QED BY <2>1, <3>1, <3>2, <3>3 DEF KdsInv, BumpsAsPlanned
  <2> QED BY <2>2, <2>3
<1> QED BY <1>1, <1>2, <1>3 DEF KdsInv

\* Each step keeps the invariant and moves each ticket by one step at most.
LEMMA StepPlanned ==
  ASSUME SnapshotIsolation, KdsInv, [KdsNext]_<<backendVars, kdsVars>>
  PROVE  /\ KdsInv'
         /\ \A t \in Tickets : ticket'[t] # ticket[t] => OneApart(ticket[t], ticket'[t])
<1> USE DEF KdsInv
<1> DEFINE Goal ==
      /\ KdsInv'
      /\ \A t \in Tickets : ticket'[t] # ticket[t] => OneApart(ticket[t], ticket'[t])
<1>1. ASSUME NEW r \in Requests, NEW t \in Tickets, NEW by \in {-1, 1},
             LoadTicket(r, t, by)
      PROVE  Goal
  <2> DEFINE to == Flow[At(ticket[t]) + by]
  <2>1. /\ call' = [call EXCEPT ![r] = [op |-> "move", t |-> t, to |-> to]]
        /\ UNCHANGED <<stale, ticket>>
    BY <1>1 DEF LoadTicket, Load
  <2>2. to \in Statuses /\ OneApart(ticket[t], to)
    BY <1>1, Neighbour DEF LoadTicket
  <2>3. call' \in [Requests -> KdsCalls]
    BY <2>1, <2>2 DEF KdsCalls
  <2>4. BumpsAsPlanned(r)'
    BY <2>1, <2>2 DEF BumpsAsPlanned
  <2>5. \A q \in Requests \ {r} : BumpsAsPlanned(q)'
    BY <2>1 DEF BumpsAsPlanned, Fresh
  <2> QED BY <2>1, <2>3, <2>4, <2>5
<1>2. ASSUME NEW r \in Requests, SaveTicket(r)
      PROVE  Goal
  <2> DEFINE t == call[r].t
  <2>1. t \in Tickets /\ call[r].to \in Statuses
    BY <1>2 DEF SaveTicket, KdsCalls, Idle
  <2>2. OneApart(ticket[t], call[r].to)
    BY <1>2 DEF SaveTicket, BumpsAsPlanned
  <2>3. ticket' = [ticket EXCEPT ![t] = call[r].to] /\ Done(r, {t})
    BY <1>2 DEF SaveTicket
  <2>4. KdsInv'
    BY <2>1, <2>3, OthersKeep
  <2> QED BY <2>1, <2>2, <2>3, <2>4
<1>3. ASSUME NEW r \in Requests, NEW s \in Stations, LoadBump(r, s)
      PROVE  Goal
  <2> DEFINE names == {t \in Tickets : StationOf[t] = s /\ ticket[t] = "Ready"}
  <2>1. /\ call' = [call EXCEPT ![r] = [op |-> "bump", s |-> s, names |-> names]]
        /\ UNCHANGED <<stale, ticket>>
    BY <1>3 DEF LoadBump, Load
  <2>2. call' \in [Requests -> KdsCalls]
    BY <2>1 DEF KdsCalls
  <2>3. BumpsAsPlanned(r)'
    BY <2>1 DEF BumpsAsPlanned
  <2>4. \A q \in Requests \ {r} : BumpsAsPlanned(q)'
    BY <2>1 DEF BumpsAsPlanned, Fresh
  <2> QED BY <2>1, <2>2, <2>3, <2>4
<1>4. ASSUME NEW r \in Requests, Bump(r)
      PROVE  Goal
  <2> DEFINE names == call[r].names
  <2>1. names \in SUBSET Tickets
    BY <1>4 DEF Bump, KdsCalls, Idle
  <2>2. \A t \in names : ticket[t] = "Ready"
    BY <1>4 DEF Bump, BumpsAsPlanned
  <2>3. /\ ticket' = [t \in Tickets |-> IF t \in names THEN "Served" ELSE ticket[t]]
        /\ Done(r, names)
    BY <1>4 DEF Bump
  <2>4. KdsInv'
    <3>1. ticket' \in [Tickets -> Statuses]
      BY <2>3 DEF Statuses
    <3>2. \A t \in Tickets \ names : ticket'[t] = ticket[t]
      BY <2>3
    <3> QED BY <2>1, <2>3, <3>1, <3>2, OthersKeep
  <2>5. OneApart("Ready", "Served")
    BY Places DEF OneApart
  <2> QED BY <2>2, <2>3, <2>4, <2>5
<1>5. ASSUME NEW r \in Requests, GiveUpKds(r)
      PROVE  Goal
  <2>1. Done(r, {}) /\ UNCHANGED ticket
    BY <1>5 DEF GiveUpKds
  <2> QED BY <2>1, OthersKeep
<1>6. CASE UNCHANGED <<backendVars, kdsVars>>
  BY <1>6 DEF backendVars, kdsVars, BumpsAsPlanned, Fresh
<1> QED BY <1>1, <1>2, <1>3, <1>4, <1>5, <1>6 DEF KdsNext

\* Types, whether the snapshot is consistent or not.
KdsTyped == ticket \in [Tickets -> Statuses] /\ call \in [Requests -> KdsCalls]

LEMMA KdsKeepsTypes == KdsTyped /\ [KdsNext]_<<backendVars, kdsVars>> => KdsTyped'
<1> SUFFICES ASSUME KdsTyped, [KdsNext]_<<backendVars, kdsVars>> PROVE KdsTyped'
  OBVIOUS
<1> USE DEF KdsTyped
<1>1. ASSUME NEW r \in Requests, NEW t \in Tickets, NEW by \in {-1, 1},
             LoadTicket(r, t, by)
      PROVE  KdsTyped'
  <2> DEFINE to == Flow[At(ticket[t]) + by]
  <2>1. /\ call' = [call EXCEPT ![r] = [op |-> "move", t |-> t, to |-> to]]
        /\ UNCHANGED ticket
    BY <1>1 DEF LoadTicket, Load
  <2>2. to \in Statuses
    BY <1>1, Neighbour DEF LoadTicket
  <2> QED BY <2>1, <2>2 DEF KdsCalls
<1>2. ASSUME NEW r \in Requests, SaveTicket(r) PROVE KdsTyped'
  <2>1. call[r].t \in Tickets /\ call[r].to \in Statuses /\ Idle \in KdsCalls
    BY <1>2 DEF SaveTicket, KdsCalls, Idle
  <2> QED BY <1>2, <2>1 DEF SaveTicket, Done, Commit
<1>3. ASSUME NEW r \in Requests, NEW s \in Stations, LoadBump(r, s) PROVE KdsTyped'
  <2> DEFINE names == {t \in Tickets : StationOf[t] = s /\ ticket[t] = "Ready"}
  <2>1. /\ call' = [call EXCEPT ![r] = [op |-> "bump", s |-> s, names |-> names]]
        /\ UNCHANGED ticket
    BY <1>3 DEF LoadBump, Load
  <2> QED BY <2>1 DEF KdsCalls
<1>4. ASSUME NEW r \in Requests, Bump(r) \/ GiveUpKds(r) PROVE KdsTyped'
  <2>1. Idle \in KdsCalls /\ "Served" \in Statuses
    BY DEF KdsCalls, Statuses
  <2> QED BY <1>4, <2>1 DEF Bump, GiveUpKds, Done, Commit
<1>5. CASE UNCHANGED <<backendVars, kdsVars>>
  BY <1>5 DEF backendVars, kdsVars
<1> QED BY <1>1, <1>2, <1>3, <1>4, <1>5 DEF KdsNext

LEMMA KdsTypes ==
  /\ BackendInit /\ KdsInit => KdsTypeOK
  /\ KdsSpec => []KdsTypeOK
<1>1. ToSet(Flow) = Statuses
  BY Places DEF ToSet, Statuses
<1>2. BackendInit /\ KdsInit => KdsTyped
  BY InitPlanned DEF KdsInv, KdsTyped
<1>3. KdsTyped => KdsTypeOK
  BY <1>1 DEF KdsTyped, KdsTypeOK
<1> QED BY <1>2, <1>3, KdsKeepsTypes, PTL DEF KdsSpec

\* A ticket takes one step at a time and is served only from Ready, however the
\* cooks' calls overlap with a bump of the station, provided the database refuses
\* writes to rows that changed since the snapshot (kds_tickets.py, bump_station).
THEOREM DishesTakeOneStep ==
  ASSUME SnapshotIsolation
  PROVE  KdsSpec => OneStepAtATime
<1>1. BackendInit /\ KdsInit => KdsInv
  BY InitPlanned
<1>2. KdsInv /\ [KdsNext]_<<backendVars, kdsVars>> => KdsInv'
  BY StepPlanned
<1>3. KdsInv /\ [KdsNext]_<<backendVars, kdsVars>> =>
        [\A t \in Tickets : ticket'[t] # ticket[t] =>
           At(ticket'[t]) - At(ticket[t]) \in {-1, 1}]_ticket
  BY StepPlanned DEF OneApart
<1> QED BY <1>1, <1>2, <1>3, PTL DEF KdsSpec, OneStepAtATime

-----------------------------------------------------------------------------
(***************************************************************************)
(* SubscriptionGate: the dates that were pushed decide, to the day, when   *)
(* the site is read-only, and from that day on no record is changed.       *)
(***************************************************************************)

\* The type invariant holds throughout.
THEOREM GateTypes == GateSpec => []GateTypeOK
<1>1. BackendInit /\ GateInit => GateTypeOK
  BY GateAssumption DEF GateInit, GateTypeOK
<1>2. GateTypeOK /\ [GateNext]_<<backendVars, gateVars>> => GateTypeOK'
  <2> SUFFICES ASSUME GateTypeOK, [GateNext]_<<backendVars, gateVars>>
               PROVE  GateTypeOK'
    OBVIOUS
  <2> USE DEF GateTypeOK
  <2>1. ASSUME NEW r \in Requests, NEW known \in BOOLEAN,
               NEW kind \in Kinds, LoadWrite(r, known, kind)
        PROVE  GateTypeOK'
    BY <2>1 DEF LoadWrite, gateVars
  <2>2. ASSUME NEW r \in Requests, SaveWrite(r)
        PROVE  GateTypeOK'
    BY <2>2 DEF SaveWrite
  <2>3. ASSUME NEW r \in Requests, GiveUpWrite(r)
        PROVE  GateTypeOK'
    BY <2>3 DEF GiveUpWrite, gateVars
  <2>4. ASSUME NEW c \in Subscriptions, Push(c)
        PROVE  GateTypeOK'
    BY <2>4 DEF Push
  <2>5. ASSUME NextDay
        PROVE  GateTypeOK'
    BY <2>5, GateAssumption DEF NextDay
  <2>6. CASE UNCHANGED <<backendVars, gateVars>>
    BY <2>6 DEF gateVars
  <2> QED BY <2>1, <2>2, <2>3, <2>4, <2>5, <2>6 DEF GateNext
<1> QED BY <1>1, <1>2, PTL DEF GateSpec

\* The larger of two numbers.
LEMMA LaterOf ==
  ASSUME NEW a \in Nat, NEW b \in Nat
  PROVE  Max({a, b}) = IF a >= b THEN a ELSE b
<1>1. CASE a >= b
  BY <1>1 DEF Max
<1>2. CASE ~ (a >= b)
  BY <1>2 DEF Max
<1> QED BY <1>1, <1>2

\* evaluate and the end of the rights agree on each subscription.
LEMMA EndIsRight ==
  ASSUME today \in 0..MaxDay, NEW c \in Subscriptions \cup {None}
  PROVE  RightsEnd(c) \in Nat /\ (Evaluate(c) <=> today >= RightsEnd(c))
<1> USE GateAssumption DEF Evaluate
<1>1. today \in Nat /\ today <= MaxDay /\ Never \in Nat /\ today < Never
  BY DEF Never
<1>2. CASE c = None
  BY <1>1, <1>2 DEF RightsEnd
<1>3. CASE c # None /\ (~c.on \/ c.status = "NEW")
  <2>1. RightsEnd(c) = Never
    BY <1>3 DEF RightsEnd
  <2> QED BY <1>1, <1>3, <2>1
<1>4. CASE c # None /\ c.on /\ c.status = "EXPIRED"
  <2>1. RightsEnd(c) = 0
    BY <1>4 DEF RightsEnd
  <2> QED BY <1>1, <1>4, <2>1
<1>5. CASE c # None /\ c.on /\ c.status = "TRIAL"
  <2> DEFINE a == IF c.trialEnds = None THEN Never ELSE c.trialEnds
             b == IF c.paidUntil = None THEN 0 ELSE c.paidUntil
  <2>1. a \in Nat /\ b \in Nat
    BY <1>1, <1>5 DEF Subscriptions, Dates
  <2>2. RightsEnd(c) = Max({a, b})
    BY <1>5 DEF RightsEnd
  <2>3. RightsEnd(c) = IF a >= b THEN a ELSE b
    BY <2>1, <2>2, LaterOf
  <2>4. Evaluate(c) <=> today >= a /\ today >= b
    BY <1>1, <1>5 DEF Subscriptions, Dates
  <2> HIDE DEF a, b
  <2> QED BY <1>1, <2>1, <2>3, <2>4
<1>6. CASE c # None /\ c.on /\ c.status = "ACTIVE"
  <2>1. RightsEnd(c) = IF c.paidUntil = None THEN Never
                    ELSE c.paidUntil + c.grace + 1
    BY <1>6 DEF RightsEnd
  <2>2. c.paidUntil # None => c.paidUntil \in Nat /\ c.grace \in Nat
    BY <1>6 DEF Subscriptions, Dates
  <2> QED BY <1>1, <1>6, <2>1, <2>2
<1>7. c # None => c.on \in BOOLEAN /\ c.status \in {"TRIAL", "ACTIVE", "EXPIRED", "NEW"}
  BY DEF Subscriptions
<1> QED BY <1>2, <1>3, <1>4, <1>5, <1>6, <1>7

\* Whatever subscription was pushed last, and however long ago, the site is
\* read-only from exactly the day it ends (subscription_gate.py, evaluate).
THEOREM TheSiteKnowsItsEnd == GateSpec => []ExpiresByItself
<1>1. GateTypeOK => ExpiresByItself
  BY EndIsRight DEF GateTypeOK, ExpiresByItself
<1> QED BY GateTypes, <1>1, PTL

\* What a request works with is a subscription the site once had.
GateCalls ==
  {Idle} \cup [op : {"write"}, kind : Kinds, conf : Subscriptions \cup {None}]

GateInv == GateTypeOK /\ call \in [Requests -> GateCalls]

LEMMA StepKeepsGate ==
  ASSUME GateInv, GateTypeOK', [GateNext]_<<backendVars, gateVars>>
  PROVE  GateInv'
<1>1. ASSUME NEW r \in Requests, NEW known \in BOOLEAN, NEW kind \in Kinds,
             LoadWrite(r, known, kind)
      PROVE  GateInv'
  BY <1>1 DEF GateInv, GateTypeOK, GateCalls, LoadWrite, Load
<1>2. ASSUME NEW r \in Requests, SaveWrite(r) \/ GiveUpWrite(r) PROVE GateInv'
  BY <1>2 DEF GateInv, GateCalls, SaveWrite, GiveUpWrite, Done, Commit
<1>3. ASSUME NextDay \/ (\E c \in Subscriptions : Push(c)) PROVE GateInv'
  BY <1>3 DEF GateInv, NextDay, Push, backendVars
<1>4. CASE UNCHANGED <<backendVars, gateVars>>
  BY <1>4 DEF GateInv, backendVars
<1> QED BY <1>1, <1>2, <1>3, <1>4 DEF GateNext

\* No request changes a record of the tenant, outside of system contexts, from the day
\* on which the subscription ends that the site knew of when the request began.
THEOREM NothingIsEditedAfterTheEnd == GateSpec => NoEditAfterTheEnd
<1>1. BackendInit => call \in [Requests -> GateCalls]
  BY DEF BackendInit, GateCalls
<1>2. GateInv /\ GateTypeOK' /\ [GateNext]_<<backendVars, gateVars>> => GateInv'
  BY StepKeepsGate
<1>3. ASSUME GateInv, [GateNext]_<<backendVars, gateVars>>, NEW r \in Requests,
             written'[r] # written[r], call[r].kind # "system"
      PROVE  today < RightsEnd(call[r].conf)
  <2>1. PICK q \in Requests : SaveWrite(q)
    BY <1>3 DEF GateNext, LoadWrite, GiveUpWrite, Push, NextDay, gateVars, backendVars
  <2>2. q = r /\ call[r].op = "write" /\ call[r].kind = "record" /\ ~Evaluate(call[r].conf)
    BY <1>3, <2>1 DEF SaveWrite, MayWrite, GateInv, GateTypeOK, GateCalls, Kinds
  <2>3. call[r].conf \in Subscriptions \cup {None} /\ today \in 0..MaxDay
    <3>1. call[r] \in [op : {"write"}, kind : Kinds, conf : Subscriptions \cup {None}]
      BY <1>3, <2>2 DEF GateInv, GateCalls, Idle
    <3> QED BY <1>3, <3>1 DEF GateInv, GateTypeOK
  <2>4. RightsEnd(call[r].conf) \in Nat /\ today \in Nat
    BY <2>3, EndIsRight
  <2> QED BY <2>2, <2>3, <2>4, EndIsRight
<1>4. GateInv /\ [GateNext]_<<backendVars, gateVars>> =>
        [\A r \in Requests : written'[r] # written[r] /\ call[r].kind # "system" =>
           today < RightsEnd(call[r].conf)]_written
  BY <1>3
<1> QED BY GateTypes, <1>1, <1>2, <1>4, PTL DEF GateSpec, GateInv, NoEditAfterTheEnd

-----------------------------------------------------------------------------
(***************************************************************************)
(* DuplicateGuard: no two records share an identifier, and no circle of    *)
(* waits.                                                                  *)
(***************************************************************************)

GuardCalls ==
  {Idle} \cup [op : {"check", "checked"}, record : Records, ids : SUBSET Names,
               seen : SUBSET Records, mine : SUBSET Records,
               saves : [Records -> SUBSET Names], log : SUBSET (Records \X Records)]

\* A snapshot that misses a new record is refused, or is not asked.
SnapshotsDo == SnapshotIsolation \/ ~Submittable

Accepted(d, e, log) == <<d, e>> \in log \/ <<e, d>> \in log

Alike(x, y) == x \cap y \cap Exact # {}

\* What request r may rely on: it holds the locks of all it saved, and what is live
\* and shares one of them is accepted; what is live and not in its snapshot moved
\* since; and at its first record the locks it holds come before those it wants.
Guarded(r) ==
  /\ call[r].op = "none" => Held(r) = {}
  /\ call[r].op \in {"check", "checked"} =>
       /\ \A e \in call[r].mine : call[r].saves[e] \subseteq Held(r)
       /\ SnapshotsDo =>
            \A e \in call[r].mine \ gone, f \in Records \ gone :
              e # f /\ Alike(call[r].saves[e], Row(r, f)) =>
                Accepted(e, f, call[r].log \cup logged)
       /\ \A f \in Live : f \in call[r].seen \/ f \in stale[r]
  /\ call[r].op = "check" /\ call[r].mine = {} =>
       \A h \in Held(r), w \in Wanted(r) : h < w
  /\ call[r].op = "checked" => call[r].mine # {}

GuardInv ==
  /\ GuardTypeOK
  /\ call \in [Requests -> GuardCalls]
  /\ \A r \in Requests : Guarded(r)
  /\ SnapshotsDo => NoTwins

\* A set of lock names has a first one, which NextLocks takes.
LEMMA FirstName ==
  ASSUME NEW S \in SUBSET Names, S # {}
  PROVE  Min(S) \in S /\ \A y \in S : Min(S) <= y
<1>1. S \subseteq Nat
  BY NamesAssumption
<1>2. PICK x \in S : \A y \in S : <<y, x>> \notin OpToRel(<, Nat)
  BY <1>1, WFMin, NatLessThanWellFounded, Zenon
<1>3. \A y \in S : ~ (y < x)
  BY <1>1, <1>2, Zenon DEF OpToRel
<1>4. \A y \in S : x <= y
  BY <1>1, <1>3
<1> QED BY <1>4 DEF Min

\* The call of a request at work, and of one that is not.
LEMMA GuardCall ==
  ASSUME GuardInv, NEW r \in Requests
  PROVE  /\ call[r] = Idle <=> call[r].op = "none"
         /\ call[r].op \in {"check", "checked"} => call[r] \in GuardCalls \ {Idle}
         /\ call[r].op \in {"none", "check", "checked"}
BY DEF GuardInv, GuardCalls, Idle

\* The initial state satisfies the invariant.
LEMMA InitGuarded == BackendInit /\ GuardInit => GuardInv
<1> SUFFICES ASSUME BackendInit, GuardInit PROVE GuardInv
  OBVIOUS
<1>1. \A r \in Requests : Held(r) = {}
  BY IsolationAssumption DEF GuardInit, Held
<1>2. \A r \in Requests : call[r] = Idle /\ call[r].op = "none"
  BY DEF BackendInit, Idle
<1> QED
  BY <1>1, <1>2 DEF BackendInit, GuardInit, GuardInv, GuardTypeOK, Guarded, GuardCalls, NoTwins

\* A request that a step leaves alone keeps what it relies on.
LEMMA GuardApart ==
  ASSUME GuardInv, NEW q \in Requests, call'[q] = call[q], Held(q)' = Held(q),
         kept' = kept, gone \subseteq gone', logged \subseteq logged',
         call[q] # Idle => stale[q] \subseteq stale'[q]
  PROVE  Guarded(q)'
<1>1. Guarded(q) /\ (call[q] = Idle <=> call[q].op = "none")
  BY GuardCall DEF GuardInv
<1>2. Wanted(q)' = Wanted(q) /\ Live' \subseteq Live /\ \A f \in Records : Row(q, f)' = Row(q, f)
  BY DEF Wanted, Live, Row
<1>3. ASSUME call[q].op \in {"check", "checked"}
      PROVE  /\ \A e \in call[q].mine : call[q].saves[e] \subseteq Held(q)'
             /\ \A f \in Live' : f \in call[q].seen \/ f \in stale'[q]
  BY <1>1, <1>2, <1>3 DEF Guarded
<1>4. ASSUME call[q].op \in {"check", "checked"}, SnapshotsDo,
             NEW e \in call[q].mine \ gone', NEW f \in Records \ gone',
             e # f, Alike(call[q].saves[e], Row(q, f)')
      PROVE  Accepted(e, f, call[q].log \cup logged')
  BY <1>1, <1>2, <1>4 DEF Guarded, Accepted
<1> QED BY <1>1, <1>2, <1>3, <1>4 DEF Guarded

\* What the end of a request leaves: its locks are free, the rest is as it was.
LEMMA Over ==
  ASSUME GuardInv, NEW r \in Requests, NEW saved,
         Release(r), Done(r, saved)
  PROVE  /\ lock' \in [Names -> Requests \cup {None}]
         /\ call' \in [Requests -> GuardCalls]
         /\ call'[r].op = "none" /\ Held(r)' = {}
         /\ \A q \in Requests \ {r} :
              /\ call'[q] = call[q] /\ Held(q)' = Held(q)
              /\ call[q] # Idle => stale'[q] = stale[q] \cup saved
<1>1. call' \in [Requests -> GuardCalls] /\ call'[r] = Idle
  BY DEF GuardInv, GuardCalls, Done, Commit
<1>2. lock' \in [Names -> Requests \cup {None}]
  BY DEF GuardInv, GuardTypeOK, Release
<1>3. \A q \in Requests \ {r} :
        call'[q] = call[q] /\ (call[q] # Idle => stale'[q] = stale[q] \cup saved)
  BY DEF GuardInv, Done, Commit
<1>4. Held(r)' = {}
  BY IsolationAssumption DEF Held, Release
<1>5. \A q \in Requests \ {r} : Held(q)' = Held(q)
  BY IsolationAssumption DEF Held, Release
<1> QED BY <1>1, <1>2, <1>3, <1>4, <1>5 DEF Idle

LEMMA LoadGuarded ==
  ASSUME GuardInv, NEW r \in Requests, NEW d \in Records, NEW ids \in SUBSET Names,
         LoadRecord(r, d, ids)
  PROVE  GuardInv'
<1> DEFINE c == [op |-> "check", record |-> d, ids |-> ids, seen |-> Live,
                 mine |-> {}, saves |-> [e \in Records |-> {}], log |-> {}]
<1>1. /\ call' = [call EXCEPT ![r] = c] /\ call[r] = Idle
      /\ UNCHANGED <<stale, kept, gone, logged, lock>>
  BY DEF LoadRecord, Load, guardVars
<1>2. c \in GuardCalls
  BY DEF GuardCalls, Live
<1>3. call'[r] = c /\ Held(r)' = {} /\ Live' = Live
  <2>1. Held(r) = {}
    BY <1>1, GuardCall DEF GuardInv, Guarded
  <2> QED BY <1>1, <2>1 DEF GuardInv, Held, Live
<1>4. Guarded(r)'
  BY <1>3 DEF Guarded
<1>5. \A q \in Requests \ {r} : Guarded(q)'
  BY <1>1, GuardApart DEF GuardInv, Held
<1> QED BY <1>1, <1>2, <1>4, <1>5 DEF GuardInv, GuardTypeOK, NoTwins

LEMMA AnotherGuarded ==
  ASSUME GuardInv, NEW r \in Requests, NEW d \in Records, NEW ids \in SUBSET Names,
         LoadAnother(r, d, ids)
  PROVE  GuardInv'
<1> DEFINE cl == call[r]
           c == [cl EXCEPT !.op = "check", !.record = d, !.ids = ids]
<1>1. /\ call' = [call EXCEPT ![r] = c] /\ cl.op = "checked"
      /\ UNCHANGED <<stale, kept, gone, logged, lock>>
  BY DEF LoadAnother, GoOn, guardVars
<1>2. /\ cl \in GuardCalls \ {Idle} /\ c \in GuardCalls /\ c.op = "check" /\ c.seen = cl.seen
      /\ c.mine = cl.mine /\ c.saves = cl.saves /\ c.log = cl.log
  BY <1>1, GuardCall DEF GuardCalls
<1>3. /\ call'[r] = c /\ Held(r)' = Held(r) /\ Live' = Live
      /\ \A f \in Records : Row(r, f)' = Row(r, f)
  BY <1>1, <1>2 DEF GuardInv, Held, Live, Row
<1>4. Guarded(r)'
  <2>1. Guarded(r)
    BY DEF GuardInv
  <2>2. \A e \in c.mine : c.saves[e] \subseteq Held(r)'
    BY <1>1, <1>2, <1>3, <2>1 DEF Guarded
  <2>3. ASSUME SnapshotsDo, NEW e \in c.mine \ gone, NEW f \in Records \ gone,
               e # f, Alike(c.saves[e], Row(r, f)')
        PROVE  Accepted(e, f, c.log \cup logged')
    BY <1>1, <1>2, <1>3, <2>1, <2>3 DEF Guarded
  <2>4. \A f \in Live' : f \in c.seen \/ f \in stale'[r]
    BY <1>1, <1>2, <1>3, <2>1 DEF Guarded
  <2>5. c.mine # {}
    BY <1>1, <1>2, <2>1 DEF Guarded
  <2> QED BY <1>1, <1>2, <1>3, <2>2, <2>3, <2>4, <2>5 DEF Guarded
<1>5. \A q \in Requests \ {r} : Guarded(q)'
  BY <1>1, GuardApart DEF GuardInv, Held
<1> QED BY <1>1, <1>2, <1>4, <1>5 DEF GuardInv, GuardTypeOK, NoTwins

LEMMA LockGuarded ==
  ASSUME GuardInv, NEW r \in Requests, TakeLock(r)
  PROVE  GuardInv'
<1>1. PICK n \in NextLocks(r) : lock[n] = None /\ lock' = [lock EXCEPT ![n] = r]
  BY DEF TakeLock
<1>2. Wanted(r) # {} /\ n = Min(Wanted(r)) /\ Wanted(r) \in SUBSET Names
  BY <1>1 DEF NextLocks, Wanted, GuardInv, GuardCalls, Idle
<1>3. n \in Wanted(r) /\ \A w \in Wanted(r) : n <= w
  BY <1>2, FirstName
<1>4. UNCHANGED <<kept, gone, logged, call, stale>> /\ call[r].op = "check"
  BY <1>3 DEF TakeLock, backendVars, Wanted
<1>5. Held(r)' = Held(r) \cup {n} /\ \A q \in Requests \ {r} : Held(q)' = Held(q)
  BY <1>1, <1>2, <1>3, IsolationAssumption DEF Held, GuardInv, GuardTypeOK
<1>6. Wanted(r)' = Wanted(r) \ {n}
  BY <1>4, <1>5 DEF Wanted
<1>7. ASSUME call[r].mine = {}, NEW h \in Held(r) \cup {n}, NEW w \in Wanted(r) \ {n}
      PROVE  h < w
  <2>1. w \in Nat /\ n \in Nat /\ h \in Nat
    BY <1>2, <1>3, NamesAssumption DEF Held
  <2>2. CASE h = n
    BY <1>3, <2>1, <2>2
  <2>3. CASE h \in Held(r)
    BY <1>4, <1>7, <2>3 DEF GuardInv, Guarded
  <2> QED BY <2>2, <2>3
<1>8. Live' = Live /\ \A f \in Records : Row(r, f)' = Row(r, f)
  BY <1>4 DEF Live, Row
<1>9. Guarded(r)'
  <2>1. Guarded(r)
    BY DEF GuardInv
  <2>2. \A e \in call[r].mine : call[r].saves[e] \subseteq Held(r)'
    BY <1>4, <1>5, <2>1 DEF Guarded
  <2>3. ASSUME SnapshotsDo, NEW e \in call[r].mine \ gone, NEW f \in Records \ gone,
               e # f, Alike(call[r].saves[e], Row(r, f)')
        PROVE  Accepted(e, f, call[r].log \cup logged)
    BY <1>4, <1>8, <2>1, <2>3 DEF Guarded
  <2>4. \A f \in Live' : f \in call[r].seen \/ f \in stale[r]
    BY <1>4, <1>8, <2>1 DEF Guarded
  <2>5. call[r].mine = {} => \A h \in Held(r)', w \in Wanted(r)' : h < w
    BY <1>5, <1>6, <1>7
  <2> QED BY <1>4, <2>2, <2>3, <2>4, <2>5 DEF Guarded
<1>10. \A q \in Requests \ {r} : Guarded(q)'
  BY <1>4, <1>5, GuardApart
<1>11. GuardTypeOK'
  BY <1>1, <1>4 DEF GuardInv, GuardTypeOK
<1> QED BY <1>4, <1>9, <1>10, <1>11 DEF GuardInv, NoTwins

LEMMA SaveGuarded ==
  ASSUME GuardInv, NEW r \in Requests, SaveRecord(r)
  PROVE  GuardInv'
<1> DEFINE cl == call[r]
           d == cl.record
           mine == cl.mine \cup {d}
<1>1. cl.op = "check" /\ Wanted(r) = {} /\ Readable(r) /\ PassCheck(r)
  BY DEF SaveRecord, Locked
<1>2. /\ cl \in GuardCalls \ {Idle} /\ d \in Records /\ cl.ids \in SUBSET Names
      /\ cl.mine \in SUBSET Records /\ cl.saves \in [Records -> SUBSET Names]
      /\ cl.log \in SUBSET (Records \X Records) /\ cl.ids \subseteq Held(r)
  BY <1>1, GuardCall DEF GuardCalls, Wanted
<1>3. PICK found \in SUBSET Twins(r, cl.ids) :
        /\ SureTwins(r) \subseteq found
        /\ call' = [call EXCEPT ![r] =
             [cl EXCEPT !.op = "checked", !.mine = mine, !.saves[d] = cl.ids,
                        !.log = cl.log \cup {d} \X found]]
        /\ UNCHANGED <<stale, kept, gone, logged, lock>>
  BY <1>1 DEF PassCheck, GoOn, guardVars
<1> DEFINE c == call'[r]
<1>4. /\ c.op = "checked" /\ c.mine = mine /\ c.seen = cl.seen
      /\ c.saves = [cl.saves EXCEPT ![d] = cl.ids] /\ c.log = cl.log \cup {d} \X found
      /\ c \in GuardCalls /\ call' \in [Requests -> GuardCalls]
  <2>1. /\ found \subseteq Records /\ mine \in SUBSET Records
        /\ (cl.log \cup {d} \X found) \in SUBSET (Records \X Records)
        /\ [cl.saves EXCEPT ![d] = cl.ids] \in [Records -> SUBSET Names]
    BY <1>2 DEF Twins
  <2>2. call \in [Requests -> GuardCalls]
    BY DEF GuardInv
  <2>3. c = [cl EXCEPT !.op = "checked", !.mine = mine, !.saves[d] = cl.ids,
                       !.log = cl.log \cup {d} \X found]
    BY <1>3, <2>2
  <2> HIDE DEF c, mine
  <2>4. /\ c.op = "checked" /\ c.mine = mine /\ c.seen = cl.seen
        /\ c.saves = [cl.saves EXCEPT ![d] = cl.ids] /\ c.log = cl.log \cup {d} \X found
        /\ c \in GuardCalls
    BY <1>2, <2>1, <2>3 DEF GuardCalls
  <2>5. call' = [call EXCEPT ![r] = c]
    BY <1>3, <2>3
  <2> QED BY <2>2, <2>4, <2>5
<1>5. Held(r)' = Held(r) /\ Live' = Live
  BY <1>3 DEF Held, Live
<1>6. Guarded(r)
  BY DEF GuardInv
<1>7. \A e \in mine : c.saves[e] \subseteq Held(r)'
  BY <1>1, <1>2, <1>4, <1>5, <1>6 DEF Guarded
<1>8. \A f \in Records \ {d} : Row(r, f)' = Row(r, f)
  BY <1>2, <1>3, <1>4 DEF Row
<1>9. ASSUME SnapshotsDo, NEW f \in Records \ gone, f # d, Alike(cl.ids, Row(r, f))
      PROVE  f \in found
  <2>1. f \in Twins(r, cl.ids \cap Exact)
    BY <1>9 DEF Twins, Alike
  <2>2. ASSUME Submittable, f \notin cl.mine PROVE f \in cl.seen
    <3>1. f \notin stale[r]
      BY <1>1, <1>9, <2>1, <2>2 DEF Readable, SnapshotsDo, Fresh
    <3>2. f \in Live
      BY <1>9, <2>2 DEF Live, Row, Alike
    <3> QED BY <1>1, <1>6, <3>1, <3>2 DEF Guarded
  <2> QED BY <1>3, <2>1, <2>2 DEF SureTwins
<1>10. ASSUME SnapshotsDo, NEW e \in mine \ gone, NEW f \in Records \ gone,
              e # f, Alike(c.saves[e], Row(r, f)')
       PROVE  Accepted(e, f, c.log \cup logged')
  <2>1. CASE e = d
    <3>1. Alike(cl.ids, Row(r, f))
      BY <1>2, <1>4, <1>8, <1>10, <2>1
    <3> QED BY <1>4, <1>9, <1>10, <2>1, <3>1 DEF Accepted
  <2>2. CASE f = d
    <3>1. e \in cl.mine /\ c.saves[e] = cl.saves[e] /\ Row(r, f)' = cl.ids /\ Row(r, e) = cl.saves[e]
      BY <1>2, <1>4, <1>10, <2>2 DEF Row
    <3>2. Alike(cl.ids, Row(r, e)) /\ e \in Records \ gone
      BY <1>2, <1>10, <3>1 DEF Alike
    <3> QED BY <1>4, <1>9, <1>10, <2>2, <3>2 DEF Accepted
  <2>3. CASE e # d /\ f # d
    <3>1. e \in cl.mine \ gone /\ Alike(cl.saves[e], Row(r, f))
      BY <1>2, <1>4, <1>8, <1>10, <2>3
    <3>2. Accepted(e, f, cl.log \cup logged)
      BY <1>1, <1>6, <1>10, <3>1 DEF Guarded
    <3> QED BY <1>3, <1>4, <3>2 DEF Accepted
  <2> QED BY <2>1, <2>2, <2>3
<1>11. \A f \in Live' : f \in c.seen \/ f \in stale'[r]
  BY <1>1, <1>3, <1>4, <1>5, <1>6 DEF Guarded
<1>12. Guarded(r)'
  BY <1>3, <1>4, <1>7, <1>10, <1>11 DEF Guarded
<1>13. \A q \in Requests \ {r} : Guarded(q)'
  BY <1>3, GuardApart DEF GuardInv, Held
<1> QED BY <1>3, <1>4, <1>12, <1>13 DEF GuardInv, GuardTypeOK, NoTwins

LEMMA CommitGuarded ==
  ASSUME GuardInv, NEW r \in Requests, CommitRecord(r)
  PROVE  GuardInv'
<1> DEFINE cl == call[r]
<1>1. /\ cl.op = "checked" /\ kept' = [e \in Records |-> Row(r, e)]
      /\ logged' = logged \cup cl.log /\ Release(r) /\ Done(r, cl.mine) /\ gone' = gone
  BY DEF CommitRecord
<1>2. /\ cl.mine \in SUBSET Records /\ cl.saves \in [Records -> SUBSET Names]
      /\ cl.log \in SUBSET (Records \X Records)
  BY <1>1, GuardCall DEF GuardCalls
<1>3. GuardTypeOK' /\ call' \in [Requests -> GuardCalls]
  BY <1>1, <1>2, Over DEF GuardInv, GuardTypeOK, Row
<1>4. Guarded(r)
  BY DEF GuardInv
<1>5. ASSUME SnapshotsDo, NEW d \in Records \ gone, NEW e \in Records \ gone,
             d # e, Alike(Row(r, d), Row(r, e))
      PROVE  Accepted(d, e, logged')
  <2>1. CASE d \in cl.mine
    BY <1>1, <1>4, <1>5, <2>1 DEF Guarded, Row, Accepted
  <2>2. CASE e \in cl.mine
    <3>1. Alike(cl.saves[e], Row(r, d))
      BY <1>5, <2>2 DEF Row, Alike
    <3> QED BY <1>1, <1>4, <1>5, <2>2, <3>1 DEF Guarded, Accepted
  <2>3. CASE d \notin cl.mine /\ e \notin cl.mine
    BY <1>1, <1>5, <2>3 DEF GuardInv, NoTwins, Row, Alike, Accepted
  <2> QED BY <2>1, <2>2, <2>3
<1>6. SnapshotsDo => NoTwins'
  BY <1>1, <1>5 DEF NoTwins, Alike, Accepted
<1>7. Guarded(r)'
  BY <1>1, Over DEF Guarded
<1>8. ASSUME NEW q \in Requests \ {r} PROVE Guarded(q)'
  <2>1. /\ call'[q] = call[q] /\ Held(q)' = Held(q) /\ Held(q) \cap Held(r) = {}
        /\ call[q] # Idle => stale'[q] = stale[q] \cup cl.mine
    BY <1>1, Over DEF Held
  <2>2. Guarded(q) /\ (call[q] = Idle <=> call[q].op = "none") /\ Wanted(q)' = Wanted(q)
    BY <2>1, GuardCall DEF GuardInv, Wanted
  <2>3. ASSUME call[q].op \in {"check", "checked"}
        PROVE  /\ call[q].mine \in SUBSET Records
               /\ \A e \in call[q].mine : call[q].saves[e] \subseteq Held(q)
    BY <2>2, <2>3, GuardCall DEF Guarded, GuardCalls
  <2>4. ASSUME call[q].op \in {"check", "checked"}, SnapshotsDo,
               NEW e \in call[q].mine \ gone, NEW f \in Records \ gone,
               e # f, Alike(call[q].saves[e], Row(q, f)')
        PROVE  Accepted(e, f, call[q].log \cup logged')
    <3>1. CASE f \in call[q].mine \/ f \notin cl.mine
      <4>1. Row(q, f)' = Row(q, f)
        BY <1>1, <2>1, <3>1 DEF Row
      <4> QED BY <1>1, <2>2, <2>4, <4>1 DEF Guarded, Accepted
    <3>2. CASE f \notin call[q].mine /\ f \in cl.mine
      <4>1. Row(q, f)' = cl.saves[f]
        BY <1>1, <2>1, <3>2 DEF Row
      <4>2. cl.saves[f] \subseteq Held(r)
        BY <1>1, <1>4, <3>2 DEF Guarded
      <4> QED BY <2>1, <2>3, <2>4, <4>1, <4>2 DEF Alike
    <3> QED BY <3>1, <3>2
  <2>5. ASSUME call[q].op \in {"check", "checked"}, NEW f \in Live'
        PROVE  f \in call[q].seen \/ f \in stale'[q]
    <3>1. f \in cl.mine \/ f \in Live
      BY <1>1 DEF Live, Row
    <3>2. stale'[q] = stale[q] \cup cl.mine
      BY <2>1, <2>2, <2>5
    <3> QED BY <2>2, <2>5, <3>1, <3>2 DEF Guarded
  <2> QED BY <1>1, <2>1, <2>2, <2>3, <2>4, <2>5 DEF Guarded
<1> QED BY <1>3, <1>6, <1>7, <1>8 DEF GuardInv

LEMMA RefuseGuarded ==
  ASSUME GuardInv, NEW r \in Requests, RefuseRecord(r)
  PROVE  GuardInv'
<1>1. Release(r) /\ Done(r, {}) /\ UNCHANGED <<kept, gone, logged>>
  BY DEF RefuseRecord
<1>2. GuardTypeOK' /\ call' \in [Requests -> GuardCalls]
  BY <1>1, Over DEF GuardInv, GuardTypeOK
<1>3. Guarded(r)'
  BY <1>1, Over DEF Guarded
<1>4. \A q \in Requests \ {r} : Guarded(q)'
  BY <1>1, Over, GuardApart
<1> QED BY <1>1, <1>2, <1>3, <1>4 DEF GuardInv, NoTwins

LEMMA CancelGuarded ==
  ASSUME GuardInv, NEW r \in Requests, NEW d \in Records, CancelRecord(r, d)
  PROVE  GuardInv'
<1>1. /\ call' = call /\ gone' = gone \cup {d} /\ UNCHANGED <<kept, logged, lock>>
      /\ \A q \in Requests : call[q] # Idle => stale'[q] = stale[q] \cup {d}
  BY DEF CancelRecord, Done, Commit, GuardInv
<1>2. \A q \in Requests : Guarded(q)'
  BY <1>1, GuardApart DEF Held
<1> QED BY <1>1, <1>2 DEF GuardInv, GuardTypeOK, NoTwins

\* Each step keeps the invariant.
LEMMA StepGuarded ==
  ASSUME GuardInv, [GuardNext]_<<backendVars, guardVars>>
  PROVE  GuardInv'
<1>1. CASE GuardNext
  BY <1>1, LoadGuarded, AnotherGuarded, LockGuarded, SaveGuarded, CommitGuarded,
     RefuseGuarded, CancelGuarded DEF GuardNext
<1>2. CASE UNCHANGED <<backendVars, guardVars>>
  <2>1. UNCHANGED <<call, stale, kept, gone, logged, lock>>
    BY <1>2 DEF backendVars, guardVars
  <2>2. \A q \in Requests : Guarded(q)'
    BY <2>1, GuardApart DEF Held
  <2> QED BY <2>1, <2>2 DEF GuardInv, GuardTypeOK, NoTwins
<1> QED BY <1>1, <1>2

\* The invariant of the locks and checks holds throughout.
THEOREM GuardInvariant == GuardSpec => []GuardInv
<1>1. GuardInv /\ [GuardNext]_<<backendVars, guardVars>> => GuardInv'
  BY StepGuarded
<1> QED BY InitGuarded, <1>1, PTL DEF GuardSpec

\* However the checks of concurrent transactions overlap, no two records of a DocType
\* are committed with an identifier in common unless an override that names the two is
\* logged: for a DocType that is not submittable, or on a database that refuses locking
\* reads of rows newer than the snapshot (enforcement.py).
THEOREM NoDuplicates ==
  ASSUME SnapshotIsolation \/ ~Submittable
  PROVE  GuardSpec => []NoTwins
<1>1. GuardInv => NoTwins
  BY DEF GuardInv, SnapshotsDo
<1> QED BY GuardInvariant, <1>1, PTL

\* Requests that wait for a lock of _acquire_locks at their first record never form a
\* circle, of any length: along a chain of waits the awaited names grow.
THEOREM NobodyWaitsInACircle == GuardSpec => []WaitsGoUp
<1>1. ASSUME GuardInv, NEW r \in Requests, NEW q \in Requests,
             NEW n \in NextLocks(r), NEW m \in NextLocks(q), NEW k \in NextLocks(r),
             lock[k] = q, AtTheFirst(q)
      PROVE  n < m
  <2>1. n = k
    BY DEF NextLocks
  <2>2. /\ Wanted(r) \in SUBSET Names /\ Wanted(r) # {} /\ n = Min(Wanted(r))
        /\ Wanted(q) \in SUBSET Names /\ Wanted(q) # {} /\ m = Min(Wanted(q))
    BY <1>1 DEF NextLocks, Wanted, GuardInv, GuardCalls, Idle
  <2>3. n \in Names /\ m \in Wanted(q)
    BY <2>2, FirstName
  <2>4. n \in Held(q)
    BY <1>1, <2>1, <2>3 DEF Held
  <2>5. call[q].op = "check"
    BY <2>3 DEF Wanted
  <2> QED BY <1>1, <2>3, <2>4, <2>5 DEF GuardInv, Guarded, AtTheFirst
<1>2. GuardInv => WaitsGoUp
  BY <1>1 DEF WaitsGoUp, WaitsFor
<1> QED BY GuardInvariant, <1>2, PTL

-----------------------------------------------------------------------------
(***************************************************************************)
(* AppPlatform: the switches stay as they were asked for.                  *)
(***************************************************************************)

AppCalls ==
  {Idle} \cup [op : {"request", "form"}, apps : Settings, industries : SUBSET Industries,
               on : SUBSET Apps, off : SUBSET Apps,
               adds : SUBSET Industries, drops : SUBSET Industries]

\* The patches that store the defaults have run.
Stored == phase \in {"defaulted", "migrated"}

\* What the migrate has and has not yet stored.
StoredSoFar ==
  /\ \A a \in Apps \ NewApps : stored[a] # None
  /\ ~Stored => \A a \in NewApps : stored[a] = None
  /\ Stored => \A a \in DefaultOn : stored[a] # None

\* A call that would still be saved leaves on what is on, but for what it asks;
\* of fields that are not there yet it asks nothing.
SavesWhatIsAsked(r) ==
  call[r] # Idle /\ Fresh(r, "settings") =>
    /\ call[r].industries = (industries \ call[r].drops) \cup call[r].adds
    /\ \A a \in Apps :
         IF Stored \/ a \notin NewApps
           THEN call[r].apps[a] = 1 <=> a \in (On \ call[r].off) \cup call[r].on
           ELSE /\ a \notin call[r].on \cup call[r].off
                /\ call[r].op = "form" => call[r].apps[a] # 1

AppInv ==
  /\ AppTypeOK
  /\ call \in [Requests -> AppCalls]
  /\ phase \in {"synced", "kept", "defaulted"} => \A r \in Requests : call[r].op # "request"
  /\ StoredSoFar
  /\ \A r \in Requests : SavesWhatIsAsked(r)
  /\ SwitchesAsAsked

LEMMA InitApp == BackendInit /\ AppInit => AppInv
<1> SUFFICES ASSUME BackendInit, AppInit PROVE AppInv
  OBVIOUS
<1>1. AppTypeOK
  BY AppAssumption DEF AppInit, AppTypeOK, On, SwitchesOf, Settings
<1>2. StoredSoFar /\ SwitchesAsAsked
  BY AppAssumption DEF AppInit, StoredSoFar, SwitchesAsAsked, Stored
<1>3. \A r \in Requests : call[r] = Idle /\ Idle \in AppCalls /\ Idle.op # "request"
  BY DEF BackendInit, AppCalls, Idle
<1>4. call \in [Requests -> AppCalls]
  BY <1>3 DEF BackendInit
<1>5. \A r \in Requests : SavesWhatIsAsked(r)
  BY <1>3 DEF SavesWhatIsAsked
<1> QED BY <1>1, <1>2, <1>3, <1>4, <1>5 DEF AppInv, AppInit

LEMMA AppCall ==
  ASSUME AppInv, NEW r \in Requests, call[r] # Idle
  PROVE  /\ call[r].op \in {"request", "form"} /\ call[r].apps \in Settings
         /\ call[r].industries \in SUBSET Industries /\ call[r].adds \in SUBSET Industries
         /\ call[r].drops \in SUBSET Industries
         /\ call[r].on \in SUBSET Apps /\ call[r].off \in SUBSET Apps
BY DEF AppInv, AppCalls

LEMMA LoadKeepsApp ==
  ASSUME AppInv, NEW r \in Requests, NEW c \in AppCalls, Load(r, c), UNCHANGED appVars,
         phase \in {"synced", "kept", "defaulted"} => c.op # "request",
         c.industries = (industries \ c.drops) \cup c.adds,
         \A a \in Apps :
           IF Stored \/ a \notin NewApps
             THEN c.apps[a] = 1 <=> a \in (On \ c.off) \cup c.on
             ELSE a \notin c.on \cup c.off /\ (c.op = "form" => c.apps[a] # 1)
  PROVE  AppInv'
<1>1. /\ call' = [call EXCEPT ![r] = c] /\ stale' = stale /\ phase' = phase
      /\ stored' = stored /\ industries' = industries /\ asked' = asked /\ On' = On
      /\ Stored' = Stored
  BY DEF Load, appVars, On, SwitchesOf, Stored
<1>2. call' \in [Requests -> AppCalls] /\ AppTypeOK' /\ StoredSoFar' /\ SwitchesAsAsked'
  BY <1>1 DEF AppInv, AppTypeOK, StoredSoFar, SwitchesAsAsked
<1>3. phase' \in {"synced", "kept", "defaulted"} => \A q \in Requests : call'[q].op # "request"
  BY <1>1 DEF AppInv
<1>4. ASSUME NEW q \in Requests PROVE SavesWhatIsAsked(q)'
  <2>1. CASE q = r
    BY <1>1, <2>1 DEF SavesWhatIsAsked, AppInv
  <2>2. CASE q # r
    <3>1. call'[q] = call[q] /\ SavesWhatIsAsked(q)
      BY <1>1, <2>2 DEF AppInv
    <3> QED BY <1>1, <3>1 DEF SavesWhatIsAsked, Fresh
  <2> QED BY <2>1, <2>2
<1> QED BY <1>2, <1>3, <1>4 DEF AppInv

\* The end of a call, and the moves of the migrate: a call that goes on was there
\* before, and if the settings moved it cannot be saved.
LEMMA OthersKeepApp ==
  ASSUME AppInv, AppTypeOK', StoredSoFar', SwitchesAsAsked',
         call' \in [Requests -> AppCalls],
         \A q \in Requests : call'[q] # Idle => call'[q] = call[q],
         phase' \in {"synced", "kept", "defaulted"} => \A q \in Requests : call'[q].op # "request",
         \/ \A q \in Requests : call'[q] # Idle => ~Fresh(q, "settings")'
         \/ /\ \A q \in Requests : call'[q] # Idle /\ Fresh(q, "settings")' => Fresh(q, "settings")
            /\ On' = On /\ industries' = industries
            /\ \/ Stored' = Stored
               \/ /\ Stored' /\ \A q \in Requests : call[q].op # "request"
                  /\ \A a \in NewApps : a \notin On
  PROVE  AppInv'
<1>1. ASSUME NEW q \in Requests PROVE SavesWhatIsAsked(q)'
  <2> SUFFICES ASSUME call'[q] # Idle, Fresh(q, "settings")' PROVE SavesWhatIsAsked(q)'
    BY DEF SavesWhatIsAsked
  <2>1. call'[q] = call[q] /\ call[q] # Idle /\ Fresh(q, "settings") /\ SavesWhatIsAsked(q)
    BY DEF AppInv
  <2>2. On' = On /\ industries' = industries
    OBVIOUS
  <2>3. CASE Stored' = Stored
    BY <2>1, <2>2, <2>3 DEF SavesWhatIsAsked
  <2>4. CASE Stored' # Stored
    <3>1. call[q].op = "form" /\ \A a \in NewApps : a \notin On
      BY <2>1, <2>4, AppCall
    <3> QED BY <2>1, <2>2, <2>4, <3>1 DEF SavesWhatIsAsked
  <2> QED BY <2>3, <2>4
<1> QED BY <1>1 DEF AppInv

\* The fields of a call that are not its switches.
LEMMA WrittenSwitches ==
  ASSUME AppInv, Online, NEW r \in Requests, call[r] # Idle, Fresh(r, "settings")
  PROVE  /\ Written(call[r].apps) \in Settings
         /\ SwitchesOf(Written(call[r].apps)) = (On \ call[r].off) \cup call[r].on
         /\ \A a \in Apps : Stored \/ a \notin NewApps => Written(call[r].apps)[a] # None
         /\ ~Stored => \A a \in NewApps : Written(call[r].apps)[a] = stored[a]
<1> DEFINE s == call[r].apps
           w == Written(s)
<1>1. stored \in Settings /\ s \in Settings /\ call[r].on \in SUBSET Apps
  BY AppCall DEF AppInv, AppTypeOK
<1>2. phase \in {"deployed", "migrated"}
  BY DEF Online
<1>3. \A a \in Apps : w[a] = IF a \notin Fields THEN stored[a] ELSE IF s[a] = 1 THEN 1 ELSE 0
  BY DEF Written
<1>4. \A a \in Apps : a \notin Fields <=> ~Stored /\ a \in NewApps
  BY <1>2 DEF Fields, Stored
<1>5. w \in Settings
  <2>1. \A a \in Apps : w[a] \in {None, 0, 1}
    BY <1>1, <1>3 DEF Settings
  <2>2. w = [a \in Apps |-> w[a]]
    BY DEF Written
  <2> QED BY <2>1, <2>2 DEF Settings
<1>6. ASSUME NEW a \in Apps
      PROVE  a \in SwitchesOf(w) <=> a \in (On \ call[r].off) \cup call[r].on
  <2>1. CASE a \notin Fields
    <3>1. a \notin call[r].on \cup call[r].off
      BY <1>4, <2>1 DEF AppInv, SavesWhatIsAsked
    <3>2. w[a] = stored[a]
      BY <1>3, <2>1
    <3> QED BY <3>1, <3>2 DEF SwitchesOf, On
  <2>2. CASE a \in Fields
    <3>1. s[a] = 1 <=> a \in (On \ call[r].off) \cup call[r].on
      BY <1>4, <2>2 DEF AppInv, SavesWhatIsAsked
    <3>2. a \in SwitchesOf(w) <=> s[a] = 1
      BY <1>3, <2>2, AppAssumption DEF SwitchesOf
    <3> QED BY <3>1, <3>2
  <2> QED BY <2>1, <2>2
<1>7. SwitchesOf(w) = (On \ call[r].off) \cup call[r].on
  <2>1. SwitchesOf(w) \subseteq Apps /\ On \subseteq Apps
    BY DEF SwitchesOf, On
  <2> HIDE DEF w
  <2> QED BY <1>1, <1>6, <2>1
<1>8. \A a \in Apps : a \in Fields => w[a] # None
  BY <1>3, AppAssumption
<1> QED BY <1>3, <1>4, <1>5, <1>7, <1>8, AppAssumption

LEMMA SaveKeepsApp ==
  ASSUME AppInv, NEW r \in Requests, SaveSettings(r)
  PROVE  AppInv'
<1>1. call[r] # Idle /\ Online /\ Fresh(r, "settings")
  BY DEF SaveSettings
<1>2. /\ stored' = Written(call[r].apps) /\ industries' = call[r].industries
      /\ asked' = [apps |-> (asked.apps \ call[r].off) \cup call[r].on,
                   industries |-> (asked.industries \ call[r].drops) \cup call[r].adds]
      /\ phase' = phase /\ Stored' = Stored
  BY DEF SaveSettings, Stored
<1>3. /\ call' = [call EXCEPT ![r] = Idle]
      /\ \A q \in Requests : q = r \/ call[q] = Idle \/ "settings" \in stale'[q]
  BY DEF SaveSettings, Done, Commit
<1>4. /\ stored' \in Settings /\ On' = (On \ call[r].off) \cup call[r].on
      /\ \A a \in Apps : Stored \/ a \notin NewApps => stored'[a] # None
      /\ ~Stored => \A a \in NewApps : stored'[a] = stored[a]
  BY <1>1, <1>2, WrittenSwitches DEF On, SwitchesOf
<1>5. asked \in [apps : SUBSET Apps, industries : SUBSET Industries]
      /\ On = asked.apps /\ industries = asked.industries
  BY DEF AppInv, AppTypeOK, SwitchesAsAsked
<1>6. call[r].industries = (industries \ call[r].drops) \cup call[r].adds
  BY <1>1 DEF AppInv, SavesWhatIsAsked
<1>7. SwitchesAsAsked'
  BY <1>2, <1>4, <1>5, <1>6 DEF SwitchesAsAsked
<1>8. AppTypeOK'
  BY <1>1, <1>2, <1>4, <1>5, AppCall DEF AppInv, AppTypeOK
<1>9. StoredSoFar'
  BY <1>2, <1>4, AppAssumption DEF AppInv, StoredSoFar
<1>10. Idle \in AppCalls /\ Idle.op # "request"
  BY DEF AppCalls, Idle
<1>11. /\ call' \in [Requests -> AppCalls]
       /\ \A q \in Requests : call'[q] # Idle => call'[q] = call[q]
       /\ phase' \in {"synced", "kept", "defaulted"} => \A q \in Requests : call'[q].op # "request"
  BY <1>2, <1>3, <1>10 DEF AppInv
<1>12. \A q \in Requests : call'[q] # Idle => ~Fresh(q, "settings")'
  BY <1>3 DEF Fresh, AppInv
<1> QED BY <1>7, <1>8, <1>9, <1>11, <1>12, OthersKeepApp

LEMMA GiveUpKeepsApp ==
  ASSUME AppInv, NEW r \in Requests, GiveUpSettings(r)
  PROVE  AppInv'
<1>1. /\ phase' = phase /\ stored' = stored /\ industries' = industries /\ asked' = asked
      /\ On' = On /\ Stored' = Stored
  BY DEF GiveUpSettings, appVars, On, SwitchesOf, Stored
<1>2. /\ call' = [call EXCEPT ![r] = Idle]
      /\ stale' = [q \in Requests |-> IF q = r \/ call[q] = Idle THEN {} ELSE stale[q] \cup {}]
  BY DEF GiveUpSettings, Done, Commit
<1>3. Idle \in AppCalls /\ Idle.op # "request"
  BY DEF AppCalls, Idle
<1>4. /\ call' \in [Requests -> AppCalls]
      /\ \A q \in Requests : call'[q] # Idle => call'[q] = call[q]
      /\ phase' \in {"synced", "kept", "defaulted"} => \A q \in Requests : call'[q].op # "request"
      /\ \A q \in Requests : call'[q] # Idle /\ Fresh(q, "settings")' => Fresh(q, "settings")
  BY <1>1, <1>2, <1>3 DEF AppInv, Fresh
<1>5. AppTypeOK' /\ StoredSoFar' /\ SwitchesAsAsked'
  BY <1>1 DEF AppInv, AppTypeOK, StoredSoFar, SwitchesAsAsked
<1> QED BY <1>1, <1>4, <1>5, OthersKeepApp

LEMMA MigrateKeepsApp ==
  ASSUME ~KeepsRestaurant, AppInv, Migrate
  PROVE  AppInv'
<1>0. AppTypeOK /\ StoredSoFar /\ SwitchesAsAsked /\ call \in [Requests -> AppCalls]
  BY DEF AppInv
<1>1. CASE SyncModels
  <2>1. /\ phase = "deployed" /\ phase' = "synced" /\ UNCHANGED <<call, stale>>
        /\ stored' = stored /\ industries' = industries /\ asked' = asked /\ On' = On
        /\ \A q \in Requests : call[q].op # "request"
        /\ Stored' = Stored /\ ~Stored
    BY <1>1 DEF SyncModels, backendVars, On, SwitchesOf, Stored
  <2>2. AppTypeOK' /\ StoredSoFar' /\ SwitchesAsAsked' /\ call' \in [Requests -> AppCalls]
    BY <1>0, <2>1 DEF AppTypeOK, StoredSoFar, SwitchesAsAsked
  <2> QED BY <2>1, <2>2, OthersKeepApp DEF Fresh
<1>2. CASE EnableRestaurant
  <2>1. /\ phase = "synced" /\ phase' = "kept" /\ UNCHANGED <<call, stale>>
        /\ stored' = stored /\ industries' = industries /\ asked' = asked /\ On' = On
        /\ Stored' = Stored /\ ~Stored
    BY <1>2 DEF EnableRestaurant, backendVars, On, SwitchesOf, Stored
  <2>2. AppTypeOK' /\ StoredSoFar' /\ SwitchesAsAsked' /\ call' \in [Requests -> AppCalls]
    BY <1>0, <2>1 DEF AppTypeOK, StoredSoFar, SwitchesAsAsked
  <2>3. \A q \in Requests : call'[q].op # "request"
    BY <2>1 DEF AppInv
  <2> QED BY <2>1, <2>2, <2>3, OthersKeepApp DEF Fresh
<1>3. CASE StoreDefaults
  <2>1. /\ phase = "kept" /\ phase' = "defaulted" /\ call' = call /\ ~Stored /\ Stored'
        /\ stored' = [a \in Apps |-> IF a \in Defaulted THEN 1 ELSE stored[a]]
        /\ industries' = industries /\ asked' = asked
    BY <1>3 DEF StoreDefaults, SettingsMoved, backendVars, Stored
  <2>2. On' = On
    BY <2>1, AppAssumption DEF On, SwitchesOf, Defaulted
  <2>3. \A q \in Requests : call[q].op # "request"
    BY <2>1 DEF AppInv
  <2>4. stored' \in Settings /\ StoredSoFar'
    BY <1>0, <2>1, AppAssumption DEF StoredSoFar, Defaulted, AppTypeOK, Settings
  <2>5. AppTypeOK' /\ SwitchesAsAsked' /\ call' \in [Requests -> AppCalls]
    BY <1>0, <2>1, <2>2, <2>4 DEF AppTypeOK, SwitchesAsAsked
  <2>6. CASE Defaulted = {}
    <3>1. stale' = stale
      BY <1>3, <2>6 DEF StoreDefaults, backendVars
    <3>2. \A a \in NewApps : a \notin On
      BY <1>0, <2>1, <2>6, AppAssumption DEF Defaulted, On, SwitchesOf, StoredSoFar
    <3> QED BY <2>1, <2>2, <2>3, <2>4, <2>5, <3>1, <3>2, OthersKeepApp DEF Fresh
  <2>7. CASE Defaulted # {}
    <3>1. \A q \in Requests : call'[q] # Idle => ~Fresh(q, "settings")'
      BY <1>3, <2>1, <2>7 DEF StoreDefaults, SettingsMoved, Fresh
    <3> QED BY <2>1, <2>3, <2>4, <2>5, <3>1, OthersKeepApp
  <2> QED BY <2>6, <2>7
<1>4. CASE AdoptOldModules
  <2>1. /\ phase = "defaulted" /\ phase' = "migrated" /\ call' = call /\ Stored /\ Stored'
        /\ stored' = [a \in Apps |-> IF a \in Adopted THEN 1 ELSE stored[a]]
        /\ industries' = industries /\ asked' = [asked EXCEPT !.apps = @ \cup Adopted]
    BY <1>4 DEF AdoptOldModules, SettingsMoved, backendVars, Stored
  <2>2. stored' \in Settings /\ StoredSoFar' /\ On' = On \cup Adopted
    BY <1>0, <2>1, AppAssumption DEF StoredSoFar, AppTypeOK, Settings, On, SwitchesOf
  <2>3. AppTypeOK' /\ SwitchesAsAsked' /\ call' \in [Requests -> AppCalls]
    BY <1>0, <2>1, <2>2, AppAssumption DEF AppTypeOK, SwitchesAsAsked
  <2>4. phase' \notin {"synced", "kept", "defaulted"} /\ Stored' = Stored
    BY <2>1
  <2>5. CASE Adopted = {}
    <3>1. stale' = stale
      BY <1>4, <2>5 DEF AdoptOldModules, backendVars
    <3> QED BY <2>1, <2>2, <2>3, <2>4, <2>5, <3>1, OthersKeepApp DEF Fresh
  <2>6. CASE Adopted # {}
    <3>1. \A q \in Requests : call'[q] # Idle => ~Fresh(q, "settings")'
      BY <1>4, <2>1, <2>6 DEF AdoptOldModules, SettingsMoved, Fresh
    <3> QED BY <2>1, <2>2, <2>3, <2>4, <3>1, OthersKeepApp
  <2> QED BY <2>5, <2>6
<1> QED BY <1>1, <1>2, <1>3, <1>4 DEF Migrate

LEMMA SwitchKeepsApp ==
  ASSUME AppInv, NEW r \in Requests, NEW a \in Apps, NEW v \in {0, 1}, LoadSwitch(r, a, v)
  PROVE  AppInv'
<1> DEFINE s == [stored EXCEPT ![a] = v]
           on == {b \in {a} \cap Fields : v = 1}
           off == {b \in {a} \cap Fields : v = 0}
           c == [op |-> "request", apps |-> s, industries |-> industries,
                 on |-> on, off |-> off, adds |-> {}, drops |-> {}]
<1>1. phase \in {"deployed", "migrated"} /\ Load(r, c) /\ UNCHANGED appVars
  BY DEF LoadSwitch, Online
<1>2. stored \in Settings /\ industries \in SUBSET Industries /\ StoredSoFar
  BY DEF AppInv, AppTypeOK
<1>3. s \in Settings
  BY <1>2 DEF Settings
<1>4. c \in AppCalls
  <2>1. on \in SUBSET Apps /\ off \in SUBSET Apps
    OBVIOUS
  <2> HIDE DEF on, off, s
  <2> QED BY <1>2, <1>3, <2>1 DEF AppCalls
<1>5. \A b \in Apps : b \in Fields <=> Stored \/ b \notin NewApps
  BY <1>1 DEF Fields, Stored
<1>6. ASSUME NEW b \in Apps, b \in Fields
      PROVE  s[b] = 1 <=> b \in (On \ off) \cup on
  <2>1. stored[b] # None \/ b \notin DefaultOn
    BY <1>2, <1>5, <1>6 DEF StoredSoFar
  <2>2. b \in On <=> stored[b] = 1
    BY <2>1 DEF On, SwitchesOf
  <2>3. s[b] = IF b = a THEN v ELSE stored[b]
    BY <1>2 DEF Settings
  <2>4. CASE b = a
    BY <1>6, <2>3, <2>4
  <2>5. CASE b # a
    BY <2>2, <2>3, <2>5
  <2> QED BY <2>4, <2>5
<1>7. \A b \in Apps : b \notin Fields => b \notin on \cup off
  OBVIOUS
<1>8. c.op = "request" /\ c.industries = (industries \ c.drops) \cup c.adds
      /\ c.apps = s /\ c.on = on /\ c.off = off
  OBVIOUS
<1> HIDE DEF c, on, off, s
<1> QED BY <1>1, <1>4, <1>5, <1>6, <1>7, <1>8, LoadKeepsApp

LEMMA IndustryKeepsApp ==
  ASSUME AppInv, NEW r \in Requests, NEW i \in Industries, LoadIndustry(r, i)
  PROVE  AppInv'
<1> DEFINE c == [op |-> "request", apps |-> stored, industries |-> industries \cup {i},
                 on |-> {}, off |-> {}, adds |-> {i}, drops |-> {}]
<1>1. phase \in {"deployed", "migrated"} /\ Load(r, c) /\ UNCHANGED appVars
      /\ c.industries = (industries \ c.drops) \cup c.adds
  BY DEF LoadIndustry, Online
<1>2. stored \in Settings /\ industries \in SUBSET Industries /\ StoredSoFar
  BY DEF AppInv, AppTypeOK
<1>3. c \in AppCalls
  <2>1. (industries \cup {i}) \in SUBSET Industries
    BY <1>2
  <2> QED BY <1>2, <2>1 DEF AppCalls
<1>4. ASSUME NEW b \in Apps, Stored \/ b \notin NewApps
      PROVE  stored[b] = 1 <=> b \in (On \ {}) \cup {}
  <2>1. stored[b] # None \/ b \notin DefaultOn
    BY <1>2, <1>4 DEF StoredSoFar
  <2> QED BY <2>1 DEF On, SwitchesOf
<1> QED BY <1>1, <1>3, <1>4, LoadKeepsApp

LEMMA FormKeepsApp ==
  ASSUME AppInv, NEW r \in Requests, NEW S \in SUBSET Apps, NEW I \in SUBSET Industries,
         OpenForm(r, S, I)
  PROVE  AppInv'
<1> DEFINE shown == {a \in Fields : stored[a] = 1}
           s == [a \in Apps |-> IF a \notin Fields THEN None
                                ELSE IF (a \in shown) # (a \in S) THEN 1 ELSE 0]
           new == (industries \ I) \cup (I \ industries)
           c == [op |-> "form", industries |-> new, apps |-> s,
                 on |-> S \ shown, off |-> S \cap shown,
                 adds |-> I \ industries, drops |-> I \cap industries]
<1>1. phase \in {"deployed", "migrated"} /\ Load(r, c) /\ UNCHANGED appVars /\ S \subseteq Fields
  BY DEF OpenForm, Online
<1>2. stored \in Settings /\ industries \in SUBSET Industries /\ StoredSoFar
  BY DEF AppInv, AppTypeOK
<1>3. s \in Settings
  BY DEF Settings
<1>4. c \in AppCalls
  <2>1. (S \ shown) \in SUBSET Apps /\ (S \cap shown) \in SUBSET Apps
        /\ new \in SUBSET Industries /\ (I \ industries) \in SUBSET Industries
        /\ (I \cap industries) \in SUBSET Industries
    BY <1>2
  <2> HIDE DEF s, shown, new
  <2> QED BY <1>2, <1>3, <2>1 DEF AppCalls
<1>5. \A b \in Apps : b \in Fields <=> Stored \/ b \notin NewApps
  BY <1>1 DEF Fields, Stored
<1>6. ASSUME NEW b \in Apps, b \in Fields
      PROVE  s[b] = 1 <=> b \in (On \ (S \cap shown)) \cup (S \ shown)
  <2>1. stored[b] # None \/ b \notin DefaultOn
    BY <1>2, <1>5, <1>6 DEF StoredSoFar
  <2>2. b \in On <=> b \in shown
    BY <1>6, <2>1 DEF On, SwitchesOf
  <2>3. s[b] = 1 <=> (b \in shown) # (b \in S)
    BY <1>6
  <2> HIDE DEF shown, s
  <2> QED BY <2>2, <2>3
<1>7. \A b \in Apps : b \notin Fields =>
        b \notin (S \ shown) \cup (S \cap shown) /\ s[b] # 1
  BY <1>1, AppAssumption
<1>8. c.op = "form" /\ c.industries = (industries \ c.drops) \cup c.adds
      /\ c.apps = s /\ c.on = S \ shown /\ c.off = S \cap shown
  OBVIOUS
<1> HIDE DEF c, shown, s
<1> QED BY <1>1, <1>4, <1>5, <1>6, <1>7, <1>8, LoadKeepsApp

LEMMA StepKeepsApp ==
  ASSUME ~KeepsRestaurant, AppInv, [AppNext]_<<backendVars, appVars>>
  PROVE  AppInv'
<1>1. CASE UNCHANGED <<backendVars, appVars>>
  BY <1>1 DEF backendVars, appVars, AppInv, AppTypeOK, StoredSoFar, SavesWhatIsAsked,
              SwitchesAsAsked, On, SwitchesOf, Fresh, Stored
<1> QED
  BY <1>1, SwitchKeepsApp, IndustryKeepsApp, FormKeepsApp, SaveKeepsApp, GiveUpKeepsApp,
     MigrateKeepsApp DEF AppNext

\* Types, whatever the migrate saves.
AppTyped == AppTypeOK /\ call \in [Requests -> AppCalls]

LEMMA WrittenIsTyped ==
  ASSUME stored \in Settings, NEW s PROVE Written(s) \in Settings
BY DEF Written, Settings

LEMMA AppKeepsTypes == AppTyped /\ [AppNext]_<<backendVars, appVars>> => AppTyped'
<1> SUFFICES ASSUME AppTyped, [AppNext]_<<backendVars, appVars>> PROVE AppTyped'
  OBVIOUS
<1>0. /\ stored \in Settings /\ industries \in SUBSET Industries
      /\ asked.apps \in SUBSET Apps /\ asked.industries \in SUBSET Industries
      /\ asked = [apps |-> asked.apps, industries |-> asked.industries]
      /\ call \in [Requests -> AppCalls] /\ Idle \in AppCalls /\ AppTypeOK
      /\ \A r \in Requests : call[r] # Idle =>
           /\ call[r].industries \in SUBSET Industries /\ call[r].adds \in SUBSET Industries
           /\ call[r].drops \in SUBSET Industries /\ call[r].on \in SUBSET Apps
  BY DEF AppTyped, AppTypeOK, AppCalls
<1>1. ASSUME NEW r \in Requests, NEW c \in AppCalls, Load(r, c), UNCHANGED appVars
      PROVE  AppTyped'
  BY <1>0, <1>1 DEF AppTyped, AppTypeOK, Load, appVars
<1>2. ASSUME NEW r \in Requests, NEW a \in Apps, NEW v \in {0, 1}, LoadSwitch(r, a, v)
      PROVE  AppTyped'
  <2> DEFINE s == [stored EXCEPT ![a] = v]
             on == {b \in {a} \cap Fields : v = 1}
             off == {b \in {a} \cap Fields : v = 0}
             c == [op |-> "request", apps |-> s, industries |-> industries,
                   on |-> on, off |-> off, adds |-> {}, drops |-> {}]
  <2>1. s \in Settings /\ on \in SUBSET Apps /\ off \in SUBSET Apps
    BY <1>0 DEF Settings
  <2>2. Load(r, c) /\ UNCHANGED appVars
    BY <1>2 DEF LoadSwitch
  <2> HIDE DEF s, on, off
  <2>3. c \in AppCalls
    BY <1>0, <2>1 DEF AppCalls
  <2> QED BY <1>1, <2>2, <2>3
<1>3. ASSUME NEW r \in Requests, NEW i \in Industries, LoadIndustry(r, i) PROVE AppTyped'
  <2> DEFINE c == [op |-> "request", apps |-> stored, industries |-> industries \cup {i},
                   on |-> {}, off |-> {}, adds |-> {i}, drops |-> {}]
  <2>1. c \in AppCalls
    BY <1>0 DEF AppCalls
  <2> QED BY <1>1, <1>3, <2>1 DEF LoadIndustry
<1>4. ASSUME NEW r \in Requests, NEW S \in SUBSET Apps, NEW I \in SUBSET Industries,
             OpenForm(r, S, I)
      PROVE  AppTyped'
  <2> DEFINE shown == {a \in Fields : stored[a] = 1}
             s == [a \in Apps |-> IF a \notin Fields THEN None
                                  ELSE IF (a \in shown) # (a \in S) THEN 1 ELSE 0]
             new == (industries \ I) \cup (I \ industries)
             c == [op |-> "form", industries |-> new, apps |-> s,
                   on |-> S \ shown, off |-> S \cap shown,
                   adds |-> I \ industries, drops |-> I \cap industries]
  <2>1. s \in Settings /\ (S \ shown) \in SUBSET Apps /\ (S \cap shown) \in SUBSET Apps
        /\ new \in SUBSET Industries /\ (I \ industries) \in SUBSET Industries
        /\ (I \cap industries) \in SUBSET Industries
    BY <1>0 DEF Settings
  <2>2. Load(r, c) /\ UNCHANGED appVars
    BY <1>4 DEF OpenForm
  <2> HIDE DEF s, shown, new
  <2>3. c \in AppCalls
    BY <1>0, <2>1 DEF AppCalls
  <2> QED BY <1>1, <2>2, <2>3
<1>5. ASSUME NEW r \in Requests, SaveSettings(r) PROVE AppTyped'
  <2>1. /\ call[r] # Idle /\ phase' = phase /\ stored' = Written(call[r].apps)
        /\ industries' = call[r].industries /\ call' = [call EXCEPT ![r] = Idle]
        /\ asked' = [apps |-> (asked.apps \ call[r].off) \cup call[r].on,
                     industries |-> (asked.industries \ call[r].drops) \cup call[r].adds]
    BY <1>5 DEF SaveSettings, Done, Commit
  <2>2. stored' \in Settings
    BY <1>0, <2>1, WrittenIsTyped
  <2> QED BY <1>0, <2>1, <2>2 DEF AppTyped, AppTypeOK
<1>6. ASSUME NEW r \in Requests, GiveUpSettings(r) PROVE AppTyped'
  BY <1>0, <1>6 DEF GiveUpSettings, Done, Commit, AppTyped, AppTypeOK, appVars
<1>7. CASE SyncModels
  BY <1>0, <1>7 DEF SyncModels, backendVars, AppTyped, AppTypeOK
<1>8. CASE EnableRestaurant
  <2>1. CASE KeepsRestaurant
    <3>1. /\ phase' = "kept" /\ stored' = Written(stored) /\ call' = call
          /\ industries' = industries \cup {Restaurant}
          /\ asked' = [asked EXCEPT !.industries = @ \cup {Restaurant}]
      BY <1>8, <2>1 DEF EnableRestaurant, SettingsMoved
    <3>2. stored' \in Settings /\ industries' \in SUBSET Industries
      BY <1>0, <3>1, WrittenIsTyped, AppAssumption
    <3>3. asked' \in [apps : SUBSET Apps, industries : SUBSET Industries]
      BY <1>0, <3>1, AppAssumption
    <3> QED BY <1>0, <3>1, <3>2, <3>3 DEF AppTyped, AppTypeOK
  <2>2. CASE ~KeepsRestaurant
    BY <1>0, <1>8, <2>2 DEF EnableRestaurant, backendVars, AppTyped, AppTypeOK
  <2> QED BY <2>1, <2>2
<1>9. CASE StoreDefaults
  <2>1. /\ phase' = "defaulted" /\ call' = call
        /\ stored' = [a \in Apps |-> IF a \in Defaulted THEN 1 ELSE stored[a]]
        /\ industries' = industries /\ asked' = asked
    BY <1>9 DEF StoreDefaults, SettingsMoved, backendVars
  <2>2. stored' \in Settings
    BY <1>0, <2>1 DEF Settings
  <2> QED BY <1>0, <2>1, <2>2 DEF AppTyped, AppTypeOK
<1>10. CASE AdoptOldModules
  <2>1. /\ phase' = "migrated" /\ call' = call /\ industries' = industries
        /\ stored' = [a \in Apps |-> IF a \in Adopted THEN 1 ELSE stored[a]]
        /\ asked' = [asked EXCEPT !.apps = @ \cup Adopted]
    BY <1>10 DEF AdoptOldModules, SettingsMoved, backendVars
  <2>2. stored' \in Settings
    BY <1>0, <2>1 DEF Settings
  <2>3. asked' \in [apps : SUBSET Apps, industries : SUBSET Industries]
    BY <1>0, <2>1, AppAssumption
  <2> QED BY <1>0, <2>1, <2>2, <2>3 DEF AppTyped, AppTypeOK
<1>11. CASE UNCHANGED <<backendVars, appVars>>
  BY <1>11 DEF backendVars, appVars, AppTyped, AppTypeOK
<1> QED BY <1>2, <1>3, <1>4, <1>5, <1>6, <1>7, <1>8, <1>9, <1>10, <1>11 DEF AppNext, Migrate

LEMMA AppTypes ==
  /\ BackendInit /\ AppInit => AppTypeOK
  /\ AppSpec => []AppTypeOK
<1>1. BackendInit /\ AppInit => AppTyped
  BY InitApp DEF AppInv, AppTyped
<1>2. AppTyped => AppTypeOK
  BY DEF AppTyped
<1> QED BY <1>1, <1>2, AppKeepsTypes, PTL DEF AppSpec

\* Where the migrate does not enable the restaurant of its own accord, the apps and
\* industries that are on are those last asked for, for any apps, industries and
\* requests, whole-document saves and stale forms (check_if_latest).
THEOREM SwitchesStayAsAsked ==
  ASSUME ~KeepsRestaurant
  PROVE  AppSpec => []SwitchesAsAsked
<1>1. AppInv /\ [AppNext]_<<backendVars, appVars>> => AppInv'
  BY StepKeepsApp
<1>2. AppInv => SwitchesAsAsked
  BY DEF AppInv
<1> QED BY <1>1, <1>2, InitApp, PTL DEF AppSpec

-----------------------------------------------------------------------------
(***************************************************************************)
(* SettingsCache: what is served is what the table held at some moment of the *)
(* request.                                                                *)
(***************************************************************************)

CacheCalls ==
  {Idle} \cup [op : {"read", "store", "save", "saved", "quiet"}, k : Keys,
               v : Values \cup {None}, since : Nat]

Serves(r, k) == call[r] # Idle /\ call[r].k = k
HoldsRow(r, k) == call[r].op = "saved" /\ call[r].k = k

\* Requests do not outlive the tick after the one they began in.
ServedInTime ==
  \A r \in Requests : call[r] # Idle =>
    call[r].since <= clock /\ clock <= call[r].since + 1

\* The row lock, and who is met while it is held.
OneHolds ==
  \A r, q \in Requests, k \in Keys : r # q /\ HoldsRow(r, k) =>
    /\ ~HoldsRow(q, k)
    /\ Serves(q, k) => ~alone[k]

\* What a reader has and the table no longer holds was replaced by a save that
\* ended after the reader began, and that it overlapped.
ReadsAreKnown ==
  \A r \in Requests : call[r].op \in {"read", "store"} =>
    \/ call[r].v = row[call[r].k]
    \/ ~alone[call[r].k] /\ call[r].since <= settled[call[r].k]

\* A copy that differs from the table expires one time to live and one tick
\* after the last save ended.
Outlived(k) == ~alone[k] /\ cached[k].until <= settled[k] + 1 + TimeToLive[k]

CopiesAreKnown ==
  \A k \in Keys :
    /\ cached[k].until <= clock + TimeToLive[k]
    /\ settled[k] <= clock
    /\ \/ cached[k].v \in {None, row[k]}
       \/ Outlived(k)
       \/ k = "component" /\ \E r \in Requests : HoldsRow(r, k)
    /\ \A r \in Requests : HoldsRow(r, k) =>
         /\ k = "component" => cached[k].v = call[r].v
         /\ k = "settings" => ~alone[k] \/ cached[k].v = None

CacheInv ==
  /\ CacheTypeOK
  /\ call \in [Requests -> CacheCalls]
  /\ \A r \in Requests : call[r].op = "store" => call[r].k = "settings"
  /\ ServedInTime /\ OneHolds /\ ReadsAreKnown /\ CopiesAreKnown

LEMMA InitCache == BackendInit /\ CacheInit => CacheInv
<1> SUFFICES ASSUME BackendInit, CacheInit PROVE CacheInv
  OBVIOUS
<1>1. \A r \in Requests : call[r] = Idle /\ Idle \in CacheCalls /\ Idle.op = "none"
  BY DEF BackendInit, CacheCalls, Idle
<1>2. call \in [Requests -> CacheCalls]
  BY <1>1 DEF BackendInit
<1>3. CacheTypeOK
  <2>1. (CHOOSE v \in Values : TRUE) \in Values
    BY CacheAssumption
  <2> QED BY <2>1, CacheAssumption DEF CacheInit, CacheTypeOK, NoCopy, Copies
<1>4. CopiesAreKnown
  BY <1>1, CacheAssumption DEF CacheInit, CopiesAreKnown, NoCopy, HoldsRow
<1> QED BY <1>1, <1>2, <1>3, <1>4
        DEF CacheInv, ServedInTime, OneHolds, ReadsAreKnown, HoldsRow

LEMMA CacheCall ==
  ASSUME CacheInv, NEW r \in Requests, call[r] # Idle
  PROVE  /\ call[r].op \in {"read", "store", "save", "saved", "quiet"} /\ call[r].k \in Keys
         /\ call[r].v \in Values \cup {None} /\ call[r].since \in Nat
BY DEF CacheInv, CacheCalls

LEMMA CacheNumbers ==
  ASSUME CacheInv, NEW k \in Keys
  PROVE  /\ clock \in Nat /\ settled[k] \in Nat /\ TimeToLive[k] \in Nat
         /\ cached[k].until \in Nat /\ alone[k] \in BOOLEAN
BY CacheAssumption DEF CacheInv, CacheTypeOK, Copies

\* A request that begins.
LEMMA BeginKeepsCache ==
  ASSUME CacheInv, NEW r \in Requests, NEW c \in CacheCalls,
         c.op \in {"read", "save"}, c.op = "read" => c.v = row[c.k],
         c.k \in Keys, c.since = clock,
         Load(r, c), Meets(c.k), UNCHANGED <<row, cached, clock, settled>>
  PROVE  CacheInv'
<1>1. /\ call' = [call EXCEPT ![r] = c] /\ call'[r] = c /\ call[r] = Idle
      /\ \A q \in Requests \ {r} : call'[q] = call[q]
  BY DEF Load, CacheInv
<1>2. PICK x \in BOOLEAN :
        /\ alone' = [alone EXCEPT ![c.k] = x]
        /\ x => alone[c.k] /\ \A q \in Requests : call[q].op # "saved"
  BY DEF Meets
<1>3. alone' \in [Keys -> BOOLEAN]
  BY <1>2 DEF CacheInv, CacheTypeOK
<1>4. /\ \A k \in Keys : alone'[k] => alone[k]
      /\ alone'[c.k] => \A q \in Requests : call[q].op # "saved"
  BY <1>2 DEF CacheInv, CacheTypeOK
<1>5. /\ CacheTypeOK' /\ call' \in [Requests -> CacheCalls]
      /\ \A q \in Requests : call'[q].op = "store" => call'[q].k = "settings"
  BY <1>1, <1>3 DEF CacheInv, CacheTypeOK
<1>6. ServedInTime'
  <2>1. clock \in Nat
    BY CacheAssumption DEF CacheInv, CacheTypeOK
  <2> QED BY <1>1, <2>1 DEF CacheInv, ServedInTime
<1>7. \A q \in Requests, k \in Keys : HoldsRow(q, k)' <=> q # r /\ HoldsRow(q, k)
  BY <1>1 DEF HoldsRow
<1>8. OneHolds'
  <2> SUFFICES ASSUME NEW p \in Requests, NEW q \in Requests, NEW k \in Keys,
                      p # q, HoldsRow(p, k)'
               PROVE  ~HoldsRow(q, k)' /\ (Serves(q, k)' => ~alone'[k])
    BY DEF OneHolds
  <2>1. CASE q = r
    BY <1>1, <1>4, <1>7, <2>1 DEF HoldsRow, Serves
  <2>2. CASE q # r
    <3>1. Serves(q, k)' <=> Serves(q, k)
      BY <1>1, <2>2 DEF Serves
    <3> QED BY <1>4, <1>7, <2>2, <3>1 DEF CacheInv, OneHolds
  <2> QED BY <2>1, <2>2
<1>9. ReadsAreKnown'
  <2> SUFFICES ASSUME NEW q \in Requests, call'[q].op \in {"read", "store"}
               PROVE  \/ call'[q].v = row[call'[q].k]
                      \/ ~alone'[call'[q].k] /\ call'[q].since <= settled[call'[q].k]
    BY DEF ReadsAreKnown
  <2>1. CASE q # r
    <3>1. call[q] # Idle
      BY <1>1, <2>1 DEF Idle
    <3> QED BY <1>1, <1>4, <2>1, <3>1, CacheCall DEF CacheInv, ReadsAreKnown
  <2>2. CASE q = r
    BY <1>1, <2>2
  <2> QED BY <2>1, <2>2
<1>10. CopiesAreKnown'
  <2>1. \A q \in Requests, k \in Keys : HoldsRow(q, k) => HoldsRow(q, k)' /\ call'[q] = call[q]
    BY <1>1, <1>7 DEF HoldsRow, Idle
  <2>2. \A k \in Keys : Outlived(k) => Outlived(k)'
    BY <1>4 DEF Outlived
  <2> QED BY <1>1, <1>4, <1>7, <2>1, <2>2 DEF CacheInv, CopiesAreKnown
<1> QED BY <1>5, <1>6, <1>8, <1>9, <1>10 DEF CacheInv

\* A request that ends, or that goes on to store what it read or to write without
\* telling Redis, and leaves the table and the copies as they are.
LEMMA EndKeepsCache ==
  ASSUME CacheInv, NEW r \in Requests, call[r] # Idle, call[r].op # "saved",
         NEW c \in {Idle, [call[r] EXCEPT !.op = "store"],
                   [call[r] EXCEPT !.op = "quiet"]},
         c.op = "store" => call[r].op = "read" /\ call[r].k = "settings",
         call' = [call EXCEPT ![r] = c],
         UNCHANGED <<row, clock, settled, alone>>,
         CacheTypeOK', CopiesAreKnown'
  PROVE  CacheInv'
<1>1. call'[r] = c /\ \A q \in Requests \ {r} : call'[q] = call[q]
  BY DEF CacheInv
<1>2. c \in CacheCalls /\ (c = Idle \/
        (/\ c.op \in {"store", "quiet"} /\ c.k = call[r].k /\ c.v = call[r].v
         /\ c.since = call[r].since))
  BY DEF CacheInv, CacheCalls
<1>3. call' \in [Requests -> CacheCalls] /\ c.op \in {"none", "store", "quiet"}
  BY <1>2 DEF CacheInv, Idle
<1>4. \A q \in Requests : call'[q].op = "store" => call'[q].k = "settings"
  BY <1>1, <1>2 DEF CacheInv, Idle
<1>5. ServedInTime'
  BY <1>1, <1>2 DEF CacheInv, ServedInTime
<1>6. ReadsAreKnown'
  BY <1>1, <1>2 DEF CacheInv, ReadsAreKnown, Idle
<1>7. \A q \in Requests, k \in Keys : HoldsRow(q, k)' => HoldsRow(q, k)
  BY <1>1, <1>3 DEF HoldsRow
<1>8. \A q \in Requests, k \in Keys : Serves(q, k)' => Serves(q, k)
  BY <1>1, <1>2 DEF Serves
<1>9. OneHolds'
  BY <1>7, <1>8 DEF CacheInv, OneHolds
<1> QED BY <1>3, <1>4, <1>5, <1>6, <1>9 DEF CacheInv

\* The copies as they were.
LEMMA SameCopies ==
  ASSUME CacheInv, NEW r \in Requests, call[r].op # "saved",
         NEW c, call' = [call EXCEPT ![r] = c], c.op # "saved",
         UNCHANGED cacheVars
  PROVE  CacheTypeOK' /\ CopiesAreKnown'
<1>1. \A q \in Requests, k \in Keys :
        /\ HoldsRow(q, k)' <=> HoldsRow(q, k)
        /\ HoldsRow(q, k) => call'[q] = call[q]
  BY DEF CacheInv, HoldsRow
<1>2. \A k \in Keys : Outlived(k) => Outlived(k)'
  BY DEF Outlived, cacheVars
<1> QED BY <1>1, <1>2 DEF CacheInv, CacheTypeOK, CopiesAreKnown, cacheVars

LEMMA StoreKeepsCache ==
  ASSUME CacheInv, NEW r \in Requests, Store(r)
  PROVE  CacheInv'
<1>1. call[r].op = "store" /\ call[r] # Idle /\ call[r].k = "settings"
      /\ "settings" \in Keys
  BY DEF Store, Idle, CacheInv, Keys
<1>2. /\ cached' = [cached EXCEPT !["settings"] = Put("settings", call[r].v)]
      /\ call' = [call EXCEPT ![r] = Idle] /\ UNCHANGED <<row, clock, settled, alone>>
  BY <1>1 DEF Store, Done, Commit
<1>3. /\ call[r].v \in Values \cup {None} /\ call[r].since \in Nat
      /\ clock \in Nat /\ TimeToLive["settings"] \in Nat /\ settled["settings"] \in Nat
  BY <1>1, CacheCall, CacheNumbers
<1>4. CacheTypeOK'
  <2>1. Put("settings", call[r].v) \in Copies
    BY <1>3 DEF Put, Copies
  <2> QED BY <1>2, <2>1 DEF CacheInv, CacheTypeOK
<1>5. /\ cached'["settings"].v = call[r].v
      /\ cached'["settings"].until = clock + TimeToLive["settings"]
      /\ \A k \in Keys \ {"settings"} : cached'[k] = cached[k]
  BY <1>1, <1>2 DEF CacheInv, CacheTypeOK, Put
<1>6. \A q \in Requests, k \in Keys :
        /\ HoldsRow(q, k)' <=> HoldsRow(q, k)
        /\ HoldsRow(q, k) => call'[q] = call[q]
  BY <1>1, <1>2 DEF CacheInv, HoldsRow, Idle
<1>7. CopiesAreKnown'
  <2>1. \A q \in Requests : HoldsRow(q, "settings") => ~alone["settings"]
    BY <1>1 DEF CacheInv, OneHolds, HoldsRow, Serves
  <2>2. \/ call[r].v = row["settings"]
        \/ ~alone["settings"] /\ call[r].since <= settled["settings"]
    BY <1>1 DEF CacheInv, ReadsAreKnown
  <2>3. clock <= call[r].since + 1
    BY <1>1 DEF CacheInv, ServedInTime
  <2>4. cached'["settings"].v = row["settings"] \/ Outlived("settings")'
    BY <1>2, <1>3, <1>5, <2>2, <2>3 DEF Outlived
  <2>5. \A k \in Keys \ {"settings"} : Outlived(k) => Outlived(k)'
    BY <1>2, <1>5 DEF Outlived
  <2> SUFFICES ASSUME NEW k \in Keys
               PROVE  /\ cached'[k].until <= clock + TimeToLive[k]
                      /\ settled[k] <= clock
                      /\ \/ cached'[k].v \in {None, row[k]}
                         \/ Outlived(k)'
                         \/ k = "component" /\ \E q \in Requests : HoldsRow(q, k)'
                      /\ \A q \in Requests : HoldsRow(q, k)' =>
                           /\ k = "component" => cached'[k].v = call'[q].v
                           /\ k = "settings" => ~alone[k] \/ cached'[k].v = None
    BY <1>2 DEF CopiesAreKnown
  <2>6. CASE k = "settings"
    <3>1. settled[k] <= clock
      BY DEF CacheInv, CopiesAreKnown
    <3> QED BY <1>3, <1>5, <1>6, <2>1, <2>4, <2>6, <3>1
  <2>7. CASE k # "settings"
    BY <1>5, <1>6, <2>5, <2>7 DEF CacheInv, CopiesAreKnown
  <2> QED BY <2>6, <2>7
<1> QED BY <1>1, <1>2, <1>4, <1>7, EndKeepsCache DEF Idle

LEMMA SaveKeepsCache ==
  ASSUME CacheInv, NEW r \in Requests, Save(r)
  PROVE  CacheInv'
<1> DEFINE c == [call[r] EXCEPT !.op = "saved"]
<1>0. PICK k : k = call[r].k
  OBVIOUS
<1>1. call[r].op = "save" /\ call[r] # Idle /\ k \in Keys /\ call[r] \in CacheCalls
  BY <1>0, CacheCall DEF Save, Idle, CacheInv
<1>2. /\ \A q \in Requests : ~HoldsRow(q, k)
      /\ cached' = [cached EXCEPT ![k] =
                      IF k = "component" THEN Put(k, call[r].v) ELSE NoCopy]
      /\ call' = [call EXCEPT ![r] = c] /\ UNCHANGED <<row, clock, settled>>
  BY <1>0 DEF Save, RowIsFree, Writing, Commit, HoldsRow
<1>3. PICK x \in BOOLEAN :
        /\ alone' = [alone EXCEPT ![k] = x]
        /\ x => \A q \in Requests \ {r} : ~Serves(q, k)
  BY <1>0 DEF Save, Overlapped, Serves
<1>4. /\ c.op = "saved" /\ c.k = k /\ c.v = call[r].v /\ c.since = call[r].since
      /\ c \in CacheCalls
  BY <1>0, <1>1 DEF CacheCalls, Idle
<1> HIDE DEF c
<1>5. call'[r] = c /\ \A q \in Requests \ {r} : call'[q] = call[q]
  BY <1>2 DEF CacheInv
<1>6. /\ call[r].v \in Values \cup {None} /\ call[r].since \in Nat
      /\ clock \in Nat /\ TimeToLive[k] \in Nat
  BY <1>1, CacheCall, CacheNumbers
<1>7. /\ alone' \in [Keys -> BOOLEAN]
      /\ alone'[k] => \A q \in Requests \ {r} : ~Serves(q, k)
      /\ \A h \in Keys \ {k} : alone'[h] = alone[h] /\ cached'[h] = cached[h]
  BY <1>1, <1>2, <1>3 DEF CacheInv, CacheTypeOK
<1>8. CacheTypeOK' /\ call' \in [Requests -> CacheCalls]
      /\ \A q \in Requests : call'[q].op = "store" => call'[q].k = "settings"
  <2>1. Put(k, call[r].v) \in Copies /\ NoCopy \in Copies
    BY <1>6 DEF Put, Copies, NoCopy
  <2> QED BY <1>2, <1>4, <1>5, <1>7, <2>1 DEF CacheInv, CacheTypeOK
<1>9. ServedInTime'
  BY <1>1, <1>2, <1>4, <1>5 DEF CacheInv, ServedInTime
<1>10. \A q \in Requests, h \in Keys :
         /\ HoldsRow(q, h)' <=> HoldsRow(q, h) \/ (q = r /\ h = k)
         /\ Serves(q, h)' <=> Serves(q, h)
  BY <1>0, <1>1, <1>4, <1>5 DEF HoldsRow, Serves, Idle
<1>11. OneHolds'
  <2> SUFFICES ASSUME NEW p \in Requests, NEW q \in Requests, NEW h \in Keys,
                      p # q, HoldsRow(p, h)'
               PROVE  ~HoldsRow(q, h)' /\ (Serves(q, h)' => ~alone'[h])
    BY DEF OneHolds
  <2>1. CASE h = k
    BY <1>2, <1>7, <1>10, <2>1
  <2>2. CASE h # k
    BY <1>7, <1>10, <2>2 DEF CacheInv, OneHolds
  <2> QED BY <2>1, <2>2
<1>12. ReadsAreKnown'
  <2> SUFFICES ASSUME NEW q \in Requests, call'[q].op \in {"read", "store"}
               PROVE  \/ call'[q].v = row[call'[q].k]
                      \/ ~alone'[call'[q].k] /\ call'[q].since <= settled[call'[q].k]
    BY <1>2 DEF ReadsAreKnown
  <2>1. q # r /\ call'[q] = call[q] /\ call[q] # Idle
    BY <1>4, <1>5 DEF Idle
  <2>2. call[q].k \in Keys
    BY <2>1, CacheCall
  <2>3. call[q].k = k => ~alone'[k]
    BY <1>7, <2>1 DEF Serves
  <2> QED BY <1>7, <2>1, <2>2, <2>3 DEF CacheInv, ReadsAreKnown
<1>13. CopiesAreKnown'
  <2>1. \A h \in Keys \ {k} : Outlived(h) => Outlived(h)'
    BY <1>2, <1>7 DEF Outlived
  <2>2. /\ cached'[k].until <= clock + TimeToLive[k]
        /\ k = "component" => cached'[k].v = call[r].v
        /\ k # "component" => cached'[k].v = None
    BY <1>1, <1>2, <1>6 DEF CacheInv, CacheTypeOK, Put, NoCopy
  <2> SUFFICES ASSUME NEW h \in Keys
               PROVE  /\ cached'[h].until <= clock + TimeToLive[h]
                      /\ settled[h] <= clock
                      /\ \/ cached'[h].v \in {None, row[h]}
                         \/ Outlived(h)'
                         \/ h = "component" /\ \E q \in Requests : HoldsRow(q, h)'
                      /\ \A q \in Requests : HoldsRow(q, h)' =>
                           /\ h = "component" => cached'[h].v = call'[q].v
                           /\ h = "settings" => ~alone'[h] \/ cached'[h].v = None
    BY <1>2 DEF CopiesAreKnown
  <2>3. CASE h = k
    <3>1. settled[h] <= clock
      BY DEF CacheInv, CopiesAreKnown
    <3>2. \A q \in Requests : HoldsRow(q, k)' => q = r
      BY <1>1, <1>2, <1>10
    <3> QED BY <1>4, <1>5, <1>10, <2>2, <2>3, <3>1, <3>2
  <2>4. CASE h # k
    <3>1. \A q \in Requests : HoldsRow(q, h) => call'[q] = call[q]
      BY <1>1, <1>5 DEF HoldsRow
    <3> QED BY <1>7, <1>10, <2>1, <2>4, <3>1 DEF CacheInv, CopiesAreKnown
  <2> QED BY <2>3, <2>4
<1> QED BY <1>8, <1>9, <1>11, <1>12, <1>13 DEF CacheInv

\* A save that ends, committed or rolled back.
LEMMA SettleKeepsCache ==
  ASSUME CacheInv, NEW r \in Requests, NEW k, k = call[r].k, call[r].op = "saved",
         call' = [call EXCEPT ![r] = Idle],
         settled' = [settled EXCEPT ![k] = clock],
         UNCHANGED <<cached, clock>>,
         \/ row' = [row EXCEPT ![k] = call[r].v] /\ alone' = alone
         \/ row' = row /\ alone' = [alone EXCEPT ![k] = @ /\ k # "component"]
  PROVE  CacheInv'
<1>1. /\ call[r] # Idle /\ k \in Keys /\ HoldsRow(r, k) /\ call[r].v \in Values \cup {None}
      /\ Idle \in CacheCalls /\ Idle.op = "none"
  BY CacheCall DEF Idle, HoldsRow, CacheCalls
<1>2. call'[r] = Idle /\ \A q \in Requests \ {r} : call'[q] = call[q]
  BY DEF CacheInv
<1>3. /\ settled'[k] = clock /\ \A h \in Keys \ {k} : settled'[h] = settled[h]
      /\ \A h \in Keys \ {k} : row'[h] = row[h]
      /\ row'[k] \in {row[k], call[r].v}
  BY <1>1 DEF CacheInv, CacheTypeOK
<1>4. /\ \A h \in Keys : alone'[h] \in BOOLEAN /\ (alone'[h] => alone[h])
      /\ k = "component" /\ row'[k] # call[r].v => ~alone'[k]
      /\ alone' \in [Keys -> BOOLEAN]
  <2>1. CASE row' = [row EXCEPT ![k] = call[r].v] /\ alone' = alone
    BY <1>1, <2>1 DEF CacheInv, CacheTypeOK
  <2>2. CASE row' = row /\ alone' = [alone EXCEPT ![k] = @ /\ k # "component"]
    <3>1. PICK x \in BOOLEAN :
            alone' = [alone EXCEPT ![k] = x] /\ (x => alone[k] /\ k # "component")
      BY <2>2
    <3> QED BY <1>1, <3>1 DEF CacheInv, CacheTypeOK
  <2> QED BY <2>1, <2>2
<1>5. \A h \in Keys : /\ settled[h] \in Nat /\ TimeToLive[h] \in Nat
                      /\ clock \in Nat /\ cached[h].until \in Nat
                      /\ settled[h] <= clock
  BY CacheNumbers DEF CacheInv, CopiesAreKnown
<1>6. CacheTypeOK' /\ call' \in [Requests -> CacheCalls]
      /\ \A q \in Requests : call'[q].op = "store" => call'[q].k = "settings"
  BY <1>1, <1>2, <1>4 DEF CacheInv, CacheTypeOK
<1>7. ServedInTime'
  BY <1>2 DEF CacheInv, ServedInTime
<1>8. \A q \in Requests, h \in Keys :
        /\ HoldsRow(q, h)' <=> q # r /\ HoldsRow(q, h)
        /\ Serves(q, h)' <=> q # r /\ Serves(q, h)
  BY <1>1, <1>2 DEF HoldsRow, Serves
<1>9. OneHolds'
  BY <1>4, <1>8 DEF CacheInv, OneHolds
<1>10. ReadsAreKnown'
  <2> SUFFICES ASSUME NEW q \in Requests, call'[q].op \in {"read", "store"}
               PROVE  \/ call'[q].v = row'[call'[q].k]
                      \/ ~alone'[call'[q].k] /\ call'[q].since <= settled'[call'[q].k]
    BY DEF ReadsAreKnown
  <2>1. q # r /\ call'[q] = call[q] /\ call[q] # Idle
    BY <1>1, <1>2
  <2>2. call[q].k \in Keys /\ call[q].since \in Nat /\ call[q].since <= clock
    BY <2>1, CacheCall DEF CacheInv, ServedInTime
  <2>3. CASE call[q].k = k
    <3>1. ~alone[k]
      BY <1>1, <2>1, <2>3 DEF CacheInv, OneHolds, Serves
    <3> QED BY <1>1, <1>3, <1>4, <2>1, <2>2, <2>3, <3>1
  <2>4. CASE call[q].k # k
    BY <1>3, <1>4, <2>1, <2>2, <2>4 DEF CacheInv, ReadsAreKnown
  <2> QED BY <2>3, <2>4
<1>11. CopiesAreKnown'
  <2> SUFFICES ASSUME NEW h \in Keys
               PROVE  /\ cached[h].until <= clock + TimeToLive[h]
                      /\ settled'[h] <= clock
                      /\ \/ cached[h].v \in {None, row'[h]}
                         \/ Outlived(h)'
                         \/ h = "component" /\ \E q \in Requests : HoldsRow(q, h)'
                      /\ \A q \in Requests : HoldsRow(q, h)' =>
                           /\ h = "component" => cached[h].v = call'[q].v
                           /\ h = "settings" => ~alone'[h] \/ cached[h].v = None
    BY DEF CopiesAreKnown
  <2>1. cached[h].until <= clock + TimeToLive[h]
    BY DEF CacheInv, CopiesAreKnown
  <2>2. CASE h = k
    <3>1. ~alone'[k] => Outlived(k)'
      BY <1>3, <1>5, <2>1, <2>2 DEF Outlived
    <3>2. alone'[k] => cached[k].v \in {None, row'[k]}
      <4>1. k = "component" \/ k = "settings"
        BY <1>1 DEF Keys
      <4>2. k = "component" => cached[k].v = call[r].v
        BY <1>1 DEF CacheInv, CopiesAreKnown
      <4>3. k = "settings" => ~alone[k] \/ cached[k].v = None
        BY <1>1 DEF CacheInv, CopiesAreKnown
      <4> QED BY <1>1, <1>4, <4>1, <4>2, <4>3
    <3>3. \A q \in Requests : ~HoldsRow(q, k)'
      BY <1>1, <1>8 DEF CacheInv, OneHolds
    <3> QED BY <1>3, <1>5, <2>1, <2>2, <3>1, <3>2, <3>3
  <2>3. CASE h # k
    <3>1. Outlived(h) => Outlived(h)'
      BY <1>3, <1>4, <2>3 DEF Outlived
    <3>2. \A q \in Requests : HoldsRow(q, h) => q # r /\ call'[q] = call[q]
      BY <1>1, <1>2, <2>3 DEF HoldsRow
    <3> QED BY <1>3, <1>4, <1>8, <2>1, <2>3, <3>1, <3>2 DEF CacheInv, CopiesAreKnown
  <2> QED BY <2>2, <2>3
<1> QED BY <1>6, <1>7, <1>9, <1>10, <1>11 DEF CacheInv

\* A write that Redis never hears of.
LEMMA QuietKeepsCache ==
  ASSUME CacheInv, NEW r \in Requests, CommitQuietly(r)
  PROVE  CacheInv'
<1>0. PICK k : k = call[r].k
  OBVIOUS
<1>1. /\ call[r].op = "quiet" /\ call[r] # Idle /\ k \in Keys
      /\ call[r].v \in Values \cup {None} /\ Idle \in CacheCalls /\ Idle.op = "none"
  BY <1>0, CacheCall DEF CommitQuietly, Idle, CacheCalls
<1>2. /\ call' = [call EXCEPT ![r] = Idle] /\ row' = [row EXCEPT ![k] = call[r].v]
      /\ settled' = [settled EXCEPT ![k] = clock]
      /\ alone' = [alone EXCEPT ![k] = FALSE] /\ UNCHANGED <<cached, clock>>
  BY <1>0 DEF CommitQuietly, Done, Commit
<1>3. call'[r] = Idle /\ \A q \in Requests \ {r} : call'[q] = call[q]
  BY <1>2 DEF CacheInv
<1>4. /\ settled'[k] = clock /\ ~alone'[k]
      /\ \A h \in Keys \ {k} : /\ settled'[h] = settled[h] /\ row'[h] = row[h]
                              /\ alone'[h] = alone[h]
  BY <1>1, <1>2 DEF CacheInv, CacheTypeOK
<1>5. CacheTypeOK' /\ call' \in [Requests -> CacheCalls]
      /\ \A q \in Requests : call'[q].op = "store" => call'[q].k = "settings"
  <2>1. clock \in 0..MaxClock
    BY DEF CacheInv, CacheTypeOK
  <2> QED BY <1>1, <1>2, <1>3, <2>1 DEF CacheInv, CacheTypeOK
<1>6. ServedInTime'
  BY <1>2, <1>3 DEF CacheInv, ServedInTime
<1>7. \A q \in Requests, h \in Keys :
        /\ HoldsRow(q, h)' <=> HoldsRow(q, h)
        /\ HoldsRow(q, h) => call'[q] = call[q]
        /\ Serves(q, h)' => Serves(q, h)
  BY <1>1, <1>3 DEF HoldsRow, Serves
<1>8. OneHolds'
  BY <1>4, <1>7 DEF CacheInv, OneHolds
<1>9. ReadsAreKnown'
  <2> SUFFICES ASSUME NEW q \in Requests, call'[q].op \in {"read", "store"}
               PROVE  \/ call'[q].v = row'[call'[q].k]
                      \/ ~alone'[call'[q].k] /\ call'[q].since <= settled'[call'[q].k]
    BY DEF ReadsAreKnown
  <2>1. q # r /\ call'[q] = call[q] /\ call[q] # Idle
    BY <1>1, <1>3
  <2>2. call[q].k \in Keys /\ call[q].since <= clock
    BY <2>1, CacheCall DEF CacheInv, ServedInTime
  <2> QED BY <1>4, <2>1, <2>2 DEF CacheInv, ReadsAreKnown
<1>10. CopiesAreKnown'
  <2>1. \A h \in Keys : /\ settled[h] \in Nat /\ TimeToLive[h] \in Nat /\ clock \in Nat
                        /\ cached[h].until \in Nat /\ settled[h] <= clock
                        /\ cached[h].until <= clock + TimeToLive[h]
    BY CacheNumbers DEF CacheInv, CopiesAreKnown
  <2>2. Outlived(k)'
    BY <1>1, <1>2, <1>4, <2>1 DEF Outlived
  <2>3. \A h \in Keys \ {k} : Outlived(h) => Outlived(h)'
    BY <1>2, <1>4 DEF Outlived
  <2>4. \A h \in Keys : settled'[h] <= clock
    BY <1>4, <2>1
  <2> QED BY <1>2, <1>4, <1>7, <2>1, <2>2, <2>3, <2>4 DEF CacheInv, CopiesAreKnown
<1> QED BY <1>5, <1>6, <1>8, <1>9, <1>10 DEF CacheInv

LEMMA ClearKeepsCache ==
  ASSUME CacheInv, ClearCache
  PROVE  CacheInv'
<1>1. /\ UNCHANGED <<row, clock, settled, alone, call>>
      /\ cached' = [cached EXCEPT !["settings"] = NoCopy] /\ "settings" \in Keys
  BY DEF ClearCache, backendVars, Keys
<1>2. /\ cached'["settings"] = NoCopy /\ NoCopy \in Copies
      /\ \A k \in Keys \ {"settings"} : cached'[k] = cached[k]
  BY <1>1 DEF CacheInv, CacheTypeOK, NoCopy, Copies
<1>3. CacheTypeOK'
  BY <1>1, <1>2 DEF CacheInv, CacheTypeOK
<1>4. clock \in Nat /\ TimeToLive["settings"] \in Nat
  BY <1>1, CacheNumbers
<1>5. \A r \in Requests, k \in Keys : HoldsRow(r, k)' <=> HoldsRow(r, k)
  BY <1>1 DEF HoldsRow
<1>6. \A k \in Keys \ {"settings"} : Outlived(k) => Outlived(k)'
  BY <1>1, <1>2 DEF Outlived
<1>7. CopiesAreKnown'
  BY <1>1, <1>2, <1>4, <1>5, <1>6 DEF CacheInv, CopiesAreKnown, NoCopy
<1>8. OneHolds'
  BY <1>1 DEF CacheInv, OneHolds, HoldsRow, Serves
<1> QED BY <1>1, <1>3, <1>7, <1>8 DEF CacheInv, ServedInTime, ReadsAreKnown

LEMMA TickKeepsCache ==
  ASSUME CacheInv, CacheTick
  PROVE  CacheInv'
<1>1. /\ UNCHANGED <<row, cached, settled, alone, call>>
      /\ clock' = clock + 1 /\ clock < MaxClock
      /\ \A r \in Requests : call[r] # Idle => call[r].since = clock
  BY DEF CacheTick, backendVars
<1>2. clock \in Nat /\ MaxClock \in Nat /\ clock' \in 0..MaxClock
  BY <1>1, CacheAssumption DEF CacheInv, CacheTypeOK
<1>3. CacheTypeOK'
  BY <1>1, <1>2 DEF CacheInv, CacheTypeOK
<1>4. ServedInTime'
  BY <1>1, <1>2 DEF ServedInTime
<1>5. \A r \in Requests, k \in Keys : HoldsRow(r, k)' <=> HoldsRow(r, k)
  BY <1>1 DEF HoldsRow
<1>6. \A k \in Keys : /\ Outlived(k) => Outlived(k)'
                      /\ cached[k].until <= clock + 1 + TimeToLive[k]
                      /\ settled[k] <= clock + 1
  <2> TAKE k \in Keys
  <2>1. /\ settled[k] \in Nat /\ TimeToLive[k] \in Nat /\ cached[k].until \in Nat
        /\ cached[k].until <= clock + TimeToLive[k] /\ settled[k] <= clock
    BY CacheNumbers DEF CacheInv, CopiesAreKnown
  <2> QED BY <1>1, <1>2, <2>1 DEF Outlived
<1>7. CopiesAreKnown'
  BY <1>1, <1>5, <1>6 DEF CacheInv, CopiesAreKnown
<1>8. OneHolds'
  BY <1>1 DEF CacheInv, OneHolds, HoldsRow, Serves
<1> QED BY <1>1, <1>3, <1>4, <1>7, <1>8 DEF CacheInv, ReadsAreKnown

LEMMA StepKeepsCache ==
  CacheInv /\ [CacheNext]_<<backendVars, cacheVars>> => CacheInv'
<1> SUFFICES ASSUME CacheInv, [CacheNext]_<<backendVars, cacheVars>> PROVE CacheInv'
  OBVIOUS
<1>1. ASSUME NEW r \in Requests, NEW k \in Keys, BeginRead(r, k) PROVE CacheInv'
  <2> DEFINE c == [op |-> "read", k |-> k, v |-> row[k], since |-> clock]
  <2>1. c \in CacheCalls
    BY CacheNumbers DEF CacheInv, CacheTypeOK, CacheCalls
  <2>2. c.op = "read" /\ c.v = row[c.k] /\ c.k = k /\ c.since = clock
    OBVIOUS
  <2>3. Load(r, c) /\ Meets(k) /\ UNCHANGED <<row, cached, clock, settled>>
    BY <1>1 DEF BeginRead
  <2> HIDE DEF c
  <2> QED BY <2>1, <2>2, <2>3, BeginKeepsCache
<1>2. ASSUME NEW r \in Requests, NEW k \in Keys, NEW v \in Values \cup {None},
             BeginSave(r, k, v)
      PROVE  CacheInv'
  <2> DEFINE c == [op |-> "save", k |-> k, v |-> v, since |-> clock]
  <2>1. c \in CacheCalls
    BY CacheNumbers DEF CacheInv, CacheTypeOK, CacheCalls
  <2>2. c.op = "save" /\ c.k = k /\ c.since = clock
    OBVIOUS
  <2>3. Load(r, c) /\ Meets(k) /\ UNCHANGED <<row, cached, clock, settled>>
    BY <1>2 DEF BeginSave
  <2> HIDE DEF c
  <2> QED BY <2>1, <2>2, <2>3, BeginKeepsCache
<1>3. ASSUME NEW r \in Requests, ServeCopy(r) \/ Produce(r) \/ SaveQuietly(r)
      PROVE  CacheInv'
  <2>1. call[r].op \in {"read", "save"} /\ call[r] # Idle /\ call[r] \in CacheCalls
    BY <1>3 DEF ServeCopy, Produce, SaveQuietly, Idle, CacheInv
  <2>2. PICK c \in {Idle, [call[r] EXCEPT !.op = "store"],
                   [call[r] EXCEPT !.op = "quiet"]} :
          /\ call' = [call EXCEPT ![r] = c] /\ UNCHANGED cacheVars
          /\ c.op = "store" => call[r].op = "read" /\ call[r].k # "component"
    <3>1. CASE ServeCopy(r)
      BY <3>1 DEF ServeCopy, Done, Commit, Idle
    <3>2. CASE Produce(r)
      BY <3>2 DEF Produce, Done, Commit, Idle
    <3>3. CASE SaveQuietly(r)
      <4>1. [call[r] EXCEPT !.op = "quiet"].op = "quiet"
        BY <2>1 DEF CacheCalls, Idle
      <4> QED BY <3>3, <4>1 DEF SaveQuietly, Commit
    <3> QED BY <1>3, <3>1, <3>2, <3>3
  <2>3. c.op \in {"none", "store", "quiet"}
    BY <2>1, <2>2 DEF Idle, CacheCalls
  <2>4. c.op = "store" => call[r].op = "read" /\ call[r].k = "settings"
    BY <2>1, <2>2, CacheCall DEF Keys
  <2>5. CacheTypeOK' /\ CopiesAreKnown'
    BY <2>1, <2>2, <2>3, SameCopies
  <2> QED BY <2>1, <2>2, <2>4, <2>5, EndKeepsCache DEF cacheVars
<1>4. ASSUME NEW r \in Requests, CommitSave(r) PROVE CacheInv'
  BY <1>4, SettleKeepsCache DEF CommitSave, Done, Commit
<1>5. ASSUME NEW r \in Requests, RollBack(r) PROVE CacheInv'
  <2>1. CASE call[r].op = "saved"
    BY <1>5, <2>1, SettleKeepsCache DEF RollBack, Done, Commit
  <2>2. CASE call[r].op # "saved"
    <3>1. /\ call[r] # Idle /\ call' = [call EXCEPT ![r] = Idle]
          /\ UNCHANGED cacheVars /\ Idle.op # "saved"
      BY <1>5, <2>2 DEF RollBack, Done, Commit, cacheVars, Idle
    <3>2. CacheTypeOK' /\ CopiesAreKnown'
      BY <2>2, <3>1, SameCopies
    <3> QED BY <2>2, <3>1, <3>2, EndKeepsCache DEF cacheVars, Idle
  <2> QED BY <2>1, <2>2
<1>6. CASE UNCHANGED <<backendVars, cacheVars>>
  BY <1>6 DEF backendVars, cacheVars, CacheInv, CacheTypeOK, ServedInTime, OneHolds,
              ReadsAreKnown, CopiesAreKnown, HoldsRow, Serves, Outlived
<1>7. CASE CacheNext
  BY <1>1, <1>2, <1>3, <1>4, <1>5, <1>7, StoreKeepsCache, SaveKeepsCache,
     QuietKeepsCache, ClearKeepsCache, TickKeepsCache DEF CacheNext
<1> QED BY <1>6, <1>7

\* A copy that readers get is the committed document at once after a save that
\* told Redis and that no other request of the key overlapped, and otherwise no
\* later than one time to live and one tick after the last save ended, also one
\* that Redis never heard of, for any times to live and any number of readers and
\* savers (get_or_set, on_update, _save_component_state, _sync_sections).
THEOREM CopiesAreServedCurrent == CacheSpec => []ServedIsCurrent
<1>1. CacheInv => ServedIsCurrent
  <2> SUFFICES ASSUME CacheInv, NEW k \in Keys
               PROVE  \/ Get(k) \in {None, row[k]}
                      \/ \E r \in Requests : call[r].op = "saved" /\ call[r].k = k
                      \/ ~alone[k] /\ clock < settled[k] + 1 + TimeToLive[k]
    BY DEF ServedIsCurrent
  <2>1. /\ clock \in Nat /\ settled[k] \in Nat /\ TimeToLive[k] \in Nat
        /\ cached[k].until \in Nat
    BY CacheNumbers
  <2>2. \/ cached[k].v \in {None, row[k]}
        \/ ~alone[k] /\ cached[k].until <= settled[k] + 1 + TimeToLive[k]
        \/ \E r \in Requests : call[r].op = "saved" /\ call[r].k = k
    BY DEF CacheInv, CopiesAreKnown, Outlived, HoldsRow
  <2> QED BY <2>1, <2>2 DEF Get
<1> QED BY <1>1, InitCache, StepKeepsCache, PTL DEF CacheSpec

-----------------------------------------------------------------------------
(***************************************************************************)
(* InvoiceNaming: a name tells the counter and the number it was made from, *)
(* unless one prefix is the other and then only digits.                    *)
(***************************************************************************)

LEMMA LeastOf ==
  ASSUME NEW S \in SUBSET Nat, S # {}
  PROVE  \E x \in S : \A y \in S : x <= y
<1>2. PICK x \in S : \A y \in S : <<y, x>> \notin OpToRel(<, Nat)
  BY WFMin, NatLessThanWellFounded, Zenon
<1>3. \A y \in S : ~ (y < x)
  BY <1>2, Zenon DEF OpToRel
<1>4. \A y \in S : x <= y
  BY <1>3
<1> QED BY <1>4

-----------------------------------------------------------------------------
(* Dividing by Base again and again.                                       *)

\* g divides n by Base up to the m-th time.
Divides(g, n, m) == g[0] = n /\ \A k \in 1..m : g[k] = g[k - 1] \div Base

LEMMA DivideOnce ==
  ASSUME NEW x \in Nat
  PROVE  x \div Base \in Nat /\ (x > 0 => x \div Base < x) /\ x = Base * (x \div Base) + (x % Base)
         /\ x % Base \in Nat /\ x % Base < Base
<1>1. PICK b \in Nat : b = Base /\ b > 1
  BY NamingAssumption
<1>2. x \div b \in Nat /\ x = b * (x \div b) + (x % b) /\ x % b \in Nat /\ x % b < b
  <2>1. b \in Nat /\ b > 0
    BY <1>1
  <2>2. x % b \in 0..b - 1
    BY <2>1
  <2>3. x = b * (x \div b) + (x % b)
    BY <2>1
  <2>4. x \div b \in Nat
    <3>0. x \div b \in Int
      BY <2>1, SMTT(30)
    <3>1. PICK q \in Int : q = x \div b
      BY <3>0
    <3>2. PICK z \in 0..b - 1 : z = x % b
      BY <2>2
    <3>3. x = b * q + z
      BY <2>3, <3>1, <3>2
    <3>4. q <= -1 => b * q <= -b
      BY <2>1
    <3> QED BY <2>1, <3>1, <3>3, <3>4
  <2> QED BY <2>1, <2>2, <2>3, <2>4
<1>3. x > 0 => x \div b < x
  <2>1. PICK y \in Nat, z \in Nat : y = x \div b /\ z = x % b
    BY <1>2
  <2>2. y >= 1 => b * y >= 2 * y
    BY <1>1
  <2> QED BY <1>2, <2>1, <2>2
<1> QED BY <1>1, <1>2, <1>3

LEMMA DividesExists ==
  ASSUME NEW n \in Nat
  PROVE  \A m \in Nat : \E g \in [Nat -> Nat] : Divides(g, n, m)
<1> DEFINE S == {m \in Nat : ~\E g \in [Nat -> Nat] : Divides(g, n, m)}
<1>1. ASSUME S # {} PROVE FALSE
  <2>1. PICK m \in S : \A y \in S : m <= y
    BY <1>1, LeastOf
  <2>2. CASE m = 0
    <3>1. [k \in Nat |-> n] \in [Nat -> Nat] /\ Divides([k \in Nat |-> n], n, 0)
      BY DEF Divides
    <3> QED BY <2>1, <2>2, <3>1
  <2>3. CASE m # 0
    <3>1. m \in Nat /\ m - 1 \in Nat /\ m - 1 \notin S
      <4>1. m \in Nat /\ m - 1 \in Nat /\ ~(m <= m - 1)
        BY <2>1, <2>3
      <4> HIDE DEF S
      <4> QED BY <2>1, <4>1
    <3>2. PICK g \in [Nat -> Nat] : Divides(g, n, m - 1)
      BY <3>1
    <3>3. PICK h : h = [g EXCEPT ![m] = g[m - 1] \div Base]
      OBVIOUS
    <3>4. g[m - 1] \div Base \in Nat
      BY <3>1, DivideOnce
    <3>5. h \in [Nat -> Nat] /\ h[m] = g[m - 1] \div Base /\ \A k \in Nat : k # m => h[k] = g[k]
      BY <3>1, <3>3, <3>4
    <3>6. \A k \in 1..m : h[k] = h[k - 1] \div Base
      <4> SUFFICES ASSUME NEW k \in 1..m PROVE h[k] = h[k - 1] \div Base
        OBVIOUS
      <4>1. k \in Nat /\ k - 1 \in Nat /\ k - 1 # m /\ (k # m => k \in 1..(m - 1))
        BY <3>1
      <4>2. CASE k = m
        BY <3>5, <4>1, <4>2
      <4>3. CASE k # m
        BY <3>2, <3>5, <4>1, <4>3 DEF Divides
      <4> QED BY <4>2, <4>3
    <3>7. h[0] = n
      BY <2>3, <3>2, <3>5 DEF Divides
    <3> QED BY <2>1, <3>5, <3>6, <3>7 DEF Divides
  <2> QED BY <2>2, <2>3
<1> QED BY <1>1

LEMMA DividesAlike ==
  ASSUME NEW n, NEW g, NEW h, NEW a \in Nat, NEW b \in Nat, Divides(g, n, a), Divides(h, n, b)
  PROVE  \A k \in Nat : k <= a /\ k <= b => g[k] = h[k]
<1> DEFINE S == {k \in Nat : k <= a /\ k <= b /\ g[k] # h[k]}
<1>1. ASSUME S # {} PROVE FALSE
  <2>1. PICK k \in S : \A y \in S : k <= y
    BY <1>1, LeastOf
  <2>2. k # 0
    BY <2>1 DEF Divides
  <2>3. k - 1 \in Nat /\ k - 1 \notin S /\ k \in 1..a /\ k \in 1..b
    BY <2>1, <2>2
  <2>4. g[k - 1] = h[k - 1]
    BY <2>1, <2>3
  <2> QED BY <2>1, <2>3, <2>4 DEF Divides
<1> QED BY <1>1

\* Shifted is what its equation says.
LEMMA ShiftedIs ==
  ASSUME NEW n \in Nat
  PROVE  /\ Shifted(n)[0] = n
         /\ \A k \in Nat : Shifted(n)[k] \in Nat /\ Shifted(n)[k + 1] = Shifted(n)[k] \div Base
<1> DEFINE Rest(g) == g = [k \in Nat |-> IF k = 0 THEN n ELSE g[k - 1] \div Base]
           F == [m \in Nat |-> CHOOSE g \in [Nat -> Nat] : Divides(g, n, m)]
           f == [k \in Nat |-> F[k][k]]
           rest == CHOOSE g : Rest(g)
<1>1. Shifted(n) = rest
  BY DEF Shifted
<1>2. \A m \in Nat : F[m] \in [Nat -> Nat] /\ Divides(F[m], n, m)
  BY DividesExists
<1> HIDE DEF F
<1>3. \A k \in Nat : f[k] = IF k = 0 THEN n ELSE f[k - 1] \div Base
  <2> SUFFICES ASSUME NEW k \in Nat PROVE f[k] = IF k = 0 THEN n ELSE f[k - 1] \div Base
    OBVIOUS
  <2>1. CASE k = 0
    BY <1>2, <2>1 DEF Divides
  <2>2. CASE k # 0
    <3>1. k - 1 \in Nat /\ k \in 1..k /\ k - 1 <= k
      BY <2>2
    <3>2. F[k][k] = F[k][k - 1] \div Base
      BY <1>2, <3>1 DEF Divides
    <3>3. F[k][k - 1] = F[k - 1][k - 1]
      BY <1>2, <3>1, DividesAlike
    <3> QED BY <2>2, <3>1, <3>2, <3>3
  <2> QED BY <2>1, <2>2
<1>4. Rest(f)
  <2>1. f = [k \in Nat |-> f[k]]
    OBVIOUS
  <2> HIDE DEF f
  <2> QED BY <1>3, <2>1
<1> HIDE DEF f
<1>5. Rest(rest)
  BY <1>4
<1> HIDE DEF rest
<1>6. rest[0] = n /\ \A k \in Nat : rest[k + 1] = rest[k] \div Base
  <2>1. rest[0] = n
    BY <1>5
  <2>2. ASSUME NEW k \in Nat PROVE rest[k + 1] = rest[k] \div Base
    <3>1. k + 1 \in Nat /\ k + 1 # 0 /\ (k + 1) - 1 = k
      OBVIOUS
    <3> QED BY <1>5, <3>1
  <2> QED BY <2>1, <2>2
<1> DEFINE S == {k \in Nat : rest[k] \notin Nat}
<1>7. ASSUME S # {} PROVE FALSE
  <2>1. PICK k \in S : \A y \in S : k <= y
    BY <1>7, LeastOf
  <2>2. k # 0
    BY <1>6, <2>1
  <2>3. k - 1 \in Nat /\ (k - 1) + 1 = k /\ k - 1 \notin S
    BY <2>1, <2>2
  <2>4. rest[k] = rest[k - 1] \div Base /\ rest[k - 1] \in Nat
    BY <1>6, <2>3
  <2> QED BY <2>1, <2>4, DivideOnce
<1> QED BY <1>1, <1>6, <1>7

\* A number is used up.
LEMMA ShiftedEnds ==
  ASSUME NEW n \in Nat
  PROVE  \A k \in Nat : Shifted(n)[k] = 0 \/ Shifted(n)[k] + k <= n
<1> DEFINE S == {k \in Nat : ~(Shifted(n)[k] = 0 \/ Shifted(n)[k] + k <= n)}
<1>1. ASSUME S # {} PROVE FALSE
  <2>1. PICK k \in S : \A y \in S : k <= y
    BY <1>1, LeastOf
  <2>2. k # 0
    BY <2>1, ShiftedIs
  <2>3. k - 1 \in Nat /\ (k - 1) + 1 = k /\ k - 1 \notin S
    BY <2>1, <2>2
  <2>4. Shifted(n)[k] = Shifted(n)[k - 1] \div Base /\ Shifted(n)[k - 1] \in Nat
    BY <2>3, ShiftedIs
  <2>5. PICK x \in Nat : x = Shifted(n)[k - 1]
    BY <2>4
  <2>6. x = 0 \/ x + (k - 1) <= n
    BY <2>3, <2>5
  <2>7. x \div Base \in Nat /\ (x > 0 => x \div Base < x) /\ x = Base * (x \div Base) + (x % Base)
        /\ x % Base \in Nat
    BY DivideOnce
  <2>8. x = 0 => x \div Base = 0
    BY NamingAssumption
  <2>9. PICK y \in Nat : y = x \div Base /\ y = Shifted(n)[k]
    BY <2>4, <2>5, <2>7
  <2>10. ~(y = 0 \/ y + k <= n) /\ k \in Nat
    BY <2>1, <2>9
  <2>11. x > 0 => y < x
    BY <2>7, <2>9
  <2>12. x = 0 => y = 0
    BY <2>8, <2>9
  <2> QED BY <2>6, <2>10, <2>11, <2>12
<1> QED BY <1>1

LEMMA LengthIs ==
  ASSUME NEW n \in Nat, NEW w \in Nat \ {0}
  PROVE  Length(n, w) \in Nat /\ Length(n, w) >= 1 /\ Shifted(n)[Length(n, w)] = 0
<1> DEFINE S == {k \in w..w + n : Shifted(n)[k] = 0}
<1>1. w + n \in S
  <2>1. w + n \in Nat /\ w + n \in w..w + n /\ w + n > n
    OBVIOUS
  <2>2. Shifted(n)[w + n] \in Nat
    BY <2>1, ShiftedIs
  <2>3. Shifted(n)[w + n] = 0 \/ Shifted(n)[w + n] + (w + n) <= n
    BY <2>1, ShiftedEnds
  <2> QED BY <2>1, <2>2, <2>3
<1>2. PICK k \in S : \A y \in S : k <= y
  <2>1. S \in SUBSET Nat
    OBVIOUS
  <2> HIDE DEF S
  <2> QED BY <1>1, <2>1, LeastOf
<1>3. k = w \/ Shifted(n)[k - 1] > 0
  <2> SUFFICES ASSUME k # w PROVE Shifted(n)[k - 1] > 0
    OBVIOUS
  <2>1. k - 1 \in w..w + n /\ k - 1 \in Nat /\ ~(k <= k - 1)
    BY <1>2
  <2>2. k - 1 \notin S
    BY <1>2, <2>1
  <2>3. Shifted(n)[k - 1] # 0 /\ Shifted(n)[k - 1] \in Nat
    BY <2>1, <2>2, ShiftedIs
  <2> QED BY <2>3
<1>4. k \in w..w + n /\ Shifted(n)[k] = 0 /\ (k = w \/ Shifted(n)[k - 1] > 0)
  BY <1>2, <1>3
<1>5. Length(n, w) \in w..w + n /\ Shifted(n)[Length(n, w)] = 0
  BY <1>4 DEF Length
<1> QED BY <1>5

-----------------------------------------------------------------------------
(* The digits of a number, and the names they end.                         *)

LEMMA DigitsAre ==
  ASSUME NEW n \in Nat, NEW w \in Nat \ {0}
  PROVE  /\ Digits(n, w) \in Seq(Nat) /\ Len(Digits(n, w)) = Length(n, w)
         /\ \A i \in 1..Length(n, w) : /\ Digits(n, w)[i] = Shifted(n)[Length(n, w) - i] % Base
                                       /\ Digits(n, w)[i] < Base
<1>1. PICK l \in Nat : l = Length(n, w) /\ l >= 1
  BY LengthIs
<1>2. Digits(n, w) = [i \in 1..l |-> Shifted(n)[l - i] % Base]
  BY <1>1 DEF Digits
<1>3. \A i \in 1..l : Shifted(n)[l - i] % Base \in Nat /\ Shifted(n)[l - i] % Base < Base
  <2> SUFFICES ASSUME NEW i \in 1..l
               PROVE  Shifted(n)[l - i] % Base \in Nat /\ Shifted(n)[l - i] % Base < Base
    OBVIOUS
  <2>1. l - i \in Nat
    BY <1>1
  <2>2. Shifted(n)[l - i] \in Nat
    BY <2>1, ShiftedIs
  <2> QED BY <2>2, DivideOnce
<1> QED BY <1>1, <1>2, <1>3

\* No two numbers have the same digits, in whatever width.
LEMMA DigitsTell ==
  ASSUME NEW n \in Nat, NEW m \in Nat, NEW v \in Nat \ {0}, NEW w \in Nat \ {0},
         Digits(n, v) = Digits(m, w)
  PROVE  n = m
<1>1. PICK l \in Nat : l = Length(n, v) /\ l >= 1
  BY LengthIs
<1>2. l = Length(m, w)
  BY <1>1, DigitsAre
<1>3. Shifted(n)[l] = 0 /\ Shifted(m)[l] = 0
  BY <1>1, <1>2, LengthIs
<1>4. \A i \in 1..l : Shifted(n)[l - i] % Base = Shifted(m)[l - i] % Base
  <2> SUFFICES ASSUME NEW i \in 1..l
               PROVE  Shifted(n)[l - i] % Base = Shifted(m)[l - i] % Base
    OBVIOUS
  <2>1. Digits(n, v)[i] = Shifted(n)[l - i] % Base
    BY <1>1, DigitsAre
  <2>2. Digits(m, w)[i] = Shifted(m)[l - i] % Base
    BY <1>2, DigitsAre
  <2> QED BY <2>1, <2>2
<1> DEFINE S == {i \in 0..l : Shifted(n)[l - i] # Shifted(m)[l - i]}
<1>5. ASSUME S # {} PROVE FALSE
  <2>1. PICK i \in S : \A y \in S : i <= y
    <3>1. S \in SUBSET Nat
      OBVIOUS
    <3> HIDE DEF S
    <3> QED BY <1>5, <3>1, LeastOf
  <2>2. i # 0
    BY <1>3, <2>1
  <2>3. i \in 1..l /\ l - i \in Nat /\ l - (i - 1) = (l - i) + 1 /\ i - 1 \in 0..l /\ ~(i <= i - 1)
    BY <2>1, <2>2
  <2>4. i - 1 \notin S
    BY <2>1, <2>3
  <2>5. Shifted(n)[(l - i) + 1] = Shifted(m)[(l - i) + 1]
    BY <2>3, <2>4
  <2>6. PICK x \in Nat, y \in Nat : x = Shifted(n)[l - i] /\ y = Shifted(m)[l - i]
    BY <2>3, ShiftedIs
  <2>7. x \div Base = y \div Base
    BY <2>3, <2>5, <2>6, ShiftedIs
  <2>8. x % Base = y % Base
    BY <1>4, <2>3, <2>6
  <2>9. PICK q, z : q = x \div Base /\ q = y \div Base /\ z = x % Base /\ z = y % Base
    BY <2>7, <2>8
  <2>10. x = Base * q + z
    <3>1. x = Base * (x \div Base) + (x % Base)
      BY DivideOnce
    <3> QED BY <2>9, <3>1, Zenon
  <2>11. y = Base * q + z
    <3>1. y = Base * (y \div Base) + (y % Base)
      BY DivideOnce
    <3> QED BY <2>9, <3>1, Zenon
  <2>12. x = y
    BY <2>10, <2>11
  <2> QED BY <2>1, <2>6, <2>12
<1>6. Shifted(n)[l - l] = Shifted(m)[l - l]
  BY <1>5
<1> QED BY <1>6, ShiftedIs

LEMMA SameSequence ==
  ASSUME NEW p \in Seq(Nat), NEW q \in Seq(Nat), Len(p) = Len(q),
         \A i \in 1..Len(p) : p[i] = q[i]
  PROVE  p = q
<1>1. p = [i \in 1..Len(p) |-> p[i]] /\ q = [i \in 1..Len(q) |-> q[i]]
  OBVIOUS
<1> QED BY <1>1

\* Two names that are the same come from one counter, or one prefix is the other
\* and then only digits.
LEMMA NamesMeet ==
  ASSUME NEW p \in Seq(Nat), NEW q \in Seq(Nat), NEW d \in Seq(Nat), NEW e \in Seq(Nat),
         p \o d = q \o e, Len(p) <= Len(q), \A i \in 1..Len(d) : d[i] < Base
  PROVE  (p = q /\ d = e) \/ Extends(p, q)
<1>1. /\ Len(p) + Len(d) = Len(q) + Len(e)
      /\ \A i \in 1..Len(p) : (p \o d)[i] = p[i]
      /\ \A i \in 1..Len(q) : (q \o e)[i] = q[i]
      /\ \A i \in 1..Len(d) : (p \o d)[Len(p) + i] = d[i]
      /\ \A i \in 1..Len(e) : (q \o e)[Len(q) + i] = e[i]
  <2>1. Len(p \o d) = Len(p) + Len(d) /\ Len(q \o e) = Len(q) + Len(e)
    OBVIOUS
  <2>2. /\ \A i \in 1..Len(p) : (p \o d)[i] = p[i]
        /\ \A i \in 1..Len(q) : (q \o e)[i] = q[i]
    OBVIOUS
  <2>3. ASSUME NEW a \in Seq(Nat), NEW b \in Seq(Nat), NEW i \in 1..Len(b)
        PROVE  (a \o b)[Len(a) + i] = b[i]
    OBVIOUS
  <2> QED BY <2>1, <2>2, <2>3
<1>2. Len(p) \in Nat /\ Len(q) \in Nat /\ Len(d) \in Nat /\ Len(e) \in Nat
  OBVIOUS
<1>3. \A i \in 1..Len(p) : p[i] = q[i]
  <2> SUFFICES ASSUME NEW i \in 1..Len(p) PROVE p[i] = q[i]
    OBVIOUS
  <2>1. i \in 1..Len(q)
    BY <1>2
  <2>2. p[i] = (p \o d)[i] /\ q[i] = (q \o e)[i]
    BY <1>1, <2>1, Zenon
  <2> QED BY <2>2
<1>4. CASE Len(p) = Len(q)
  <2>1. p = q
    BY <1>3, <1>4, SameSequence
  <2>2. Len(d) = Len(e)
    BY <1>1, <1>2, <1>4
  <2>4. ASSUME NEW i \in 1..Len(d) PROVE d[i] = e[i]
    <3>1. (p \o d)[Len(p) + i] = d[i]
      BY <1>1, Zenon
    <3>2. (q \o e)[Len(q) + i] = e[i]
      BY <1>1, <2>2, Zenon
    <3> QED BY <1>4, <3>1, <3>2
  <2>3. d = e
    BY <2>2, <2>4, SameSequence
  <2> QED BY <2>1, <2>3
<1>5. CASE Len(p) < Len(q)
  <2>1. p # q
    BY <1>5
  <2>2. SubSeq(p, 1, Len(p)) = SubSeq(q, 1, Len(p))
    BY <1>2, <1>3, <1>5
  <2>3. ASSUME NEW i \in Len(p) + 1..Len(q) PROVE q[i] < Base
    <3>1. i - Len(p) \in 1..Len(d) /\ Len(p) + (i - Len(p)) = i /\ i \in 1..Len(q)
      BY <1>1, <1>2
    <3>2. (p \o d)[i] = d[i - Len(p)] /\ (q \o e)[i] = q[i]
      BY <1>1, <3>1
    <3> QED BY <3>1, <3>2
  <2> QED BY <2>1, <2>2, <2>3 DEF Extends, IsStrictPrefix, IsPrefix
<1> QED BY <1>2, <1>4, <1>5

-----------------------------------------------------------------------------
(* The rule, the counters and the names given.                             *)

NamingCalls ==
  {Idle}
    \cup [op : {"rule"}, new : [Holders -> Rules \cup {None}],
          ruled : SUBSET Seq(Nat), with : SUBSET Seq(Nat)]
    \cup [op : {"name"}, s : Series]

\* None of the counters in `some` can collide with one in `with`.
Apart(some, with) ==
  <<>> \notin some \cup with /\ \A p \in some, q \in with : ~CounterCollision(p, q)

\* A name was made by its counter, no later than the counter's last number.
Made(g) ==
  /\ g.by \in Counters
  /\ \E s \in Series, n \in Nat : g.name = NameOf(g.by, WidthOf[s], n) /\ n <= counter[g.by]

NamingInv ==
  /\ NamingTypeOK
  /\ call \in [Requests -> NamingCalls]
  /\ \A r \in Requests : call[r].op = "rule" => Apart(call[r].ruled, call[r].with)
  /\ Apart(ruled, compared)
  /\ \A g \in given : Made(g)

LEMMA NamingCall ==
  ASSUME NEW r \in Requests, call \in [Requests -> NamingCalls]
  PROVE  /\ call[r].op = "rule" =>
              /\ call[r].new \in [Holders -> Rules \cup {None}]
              /\ call[r].ruled \subseteq Seq(Nat) /\ call[r].with \subseteq Seq(Nat)
         /\ call[r].op = "name" => call[r].s \in Series
         /\ Idle.op = "none" /\ Idle \in NamingCalls
BY DEF NamingCalls, Idle

LEMMA CountersAre ==
  /\ Counters \subseteq Seq(Nat)
  /\ \A s \in Series : WidthOf[s] \in Nat \ {0}
  /\ \A s \in Series, d \in Days : FoundFor[s][d] \in Seq(Nat) /\ PrefixesOf[s][d] \subseteq Counters
  /\ MaxNumber \in Nat
BY NamingAssumption DEF Counters

LEMMA NamesAre ==
  ASSUME NEW p \in Seq(Nat), NEW w \in Nat \ {0}, NEW n \in Nat
  PROVE  /\ NameOf(p, w, n) = p \o Digits(n, w)
         /\ Digits(n, w) \in Seq(Nat)
         /\ \A i \in 1..Len(Digits(n, w)) : Digits(n, w)[i] < Base
BY DigitsAre DEF NameOf

\* Two names are the same only for one counter and number, or if one prefix is the
\* other and then only digits.
LEMMA NamesTell ==
  ASSUME NEW p \in Seq(Nat), NEW q \in Seq(Nat), NEW w \in Nat \ {0}, NEW v \in Nat \ {0},
         NEW n \in Nat, NEW m \in Nat, NameOf(p, w, n) = NameOf(q, v, m)
  PROVE  (p = q /\ n = m) \/ Extends(p, q) \/ Extends(q, p)
<1>3. PICK d \in Seq(Nat) : d = Digits(n, w) /\ \A i \in 1..Len(d) : d[i] < Base
  BY NamesAre
<1>4. PICK e \in Seq(Nat) : e = Digits(m, v) /\ \A i \in 1..Len(e) : e[i] < Base
  BY NamesAre
<1>5. p \o d = q \o e
  <2>1. NameOf(p, w, n) = p \o d
    BY <1>3, NamesAre, Zenon
  <2>2. NameOf(q, v, m) = q \o e
    BY <1>4, NamesAre, Zenon
  <2> QED BY <2>1, <2>2
<1>6. Len(p) \in Nat /\ Len(q) \in Nat
  OBVIOUS
<1>7. d = e => n = m
  BY <1>3, <1>4, DigitsTell
<1>8. CASE Len(p) <= Len(q)
  <2>1. (p = q /\ d = e) \/ Extends(p, q)
    BY <1>3, <1>5, <1>8, NamesMeet
  <2> QED BY <1>7, <2>1
<1>9. CASE Len(q) <= Len(p)
  <2>1. (q = p /\ e = d) \/ Extends(q, p)
    BY <1>4, <1>5, <1>9, NamesMeet
  <2> QED BY <1>7, <2>1
<1> QED BY <1>6, <1>8, <1>9

LEMMA NextIsFree == NamingInv => NextNumberIsFree
<1> SUFFICES ASSUME NamingInv, NEW s \in SeriesOf(rule), NEW g \in given,
                    NEW p \in PrefixesOf[s][day] \cap ruled,
                    g.name = NameOf(p, WidthOf[s], counter[p] + 1)
             PROVE  g.by \notin compared
  BY DEF NextNumberIsFree
<1>1. s \in Series
  BY DEF SeriesOf, NamingInv, NamingTypeOK, Rules
<1>2. p \in Counters /\ p \in Seq(Nat) /\ counter[p] \in Nat /\ WidthOf[s] \in Nat \ {0}
  BY <1>1, CountersAre DEF NamingInv, NamingTypeOK
<1>3. PICK t \in Series, m \in Nat : g.name = NameOf(g.by, WidthOf[t], m) /\ m <= counter[g.by]
  BY DEF NamingInv, Made
<1>4. g.by \in Seq(Nat) /\ WidthOf[t] \in Nat \ {0}
  BY CountersAre DEF NamingInv, Made
<1>5. PICK n \in Nat : n = counter[p] + 1
  BY <1>2
<1>6. (p = g.by /\ n = m) \/ Extends(p, g.by) \/ Extends(g.by, p)
  <2>1. PICK q \in Seq(Nat), w \in Nat \ {0}, v \in Nat \ {0} :
          q = g.by /\ w = WidthOf[s] /\ v = WidthOf[t]
    BY <1>2, <1>4
  <2>2. NameOf(p, w, n) = NameOf(q, v, m)
    BY <1>3, <1>5, <2>1, Zenon
  <2>3. (p = q /\ n = m) \/ Extends(p, q) \/ Extends(q, p)
    BY <1>2, <2>2, NamesTell
  <2> QED BY <2>1, <2>3
<1>7. ~(p = g.by /\ n = m)
  BY <1>2, <1>3, <1>5
<1>8. g.by \in compared => ~Extends(p, g.by) /\ ~Extends(g.by, p)
  BY DEF NamingInv, Apart, CounterCollision
<1> QED BY <1>6, <1>7, <1>8

LEMMA InitNaming == BackendInit /\ NamingInit => NamingInv
<1> SUFFICES ASSUME BackendInit, NamingInit PROVE NamingInv
  OBVIOUS
<1>1. call \in [Requests -> NamingCalls] /\ \A r \in Requests : call[r].op = "none"
  BY DEF BackendInit, NamingCalls, Idle
<1>2. NamingTypeOK
  BY NamingAssumption DEF NamingInit, NamingTypeOK, Days
<1> QED BY <1>1, <1>2 DEF NamingInv, NamingInit, Apart

\* A step of a request that changes no state but its own.
LEMMA CallKeepsNaming ==
  ASSUME NamingInv, UNCHANGED namingVars, NEW r \in Requests, NEW c \in NamingCalls,
         call' = [call EXCEPT ![r] = c], c.op = "rule" => Apart(c.ruled, c.with)
  PROVE  NamingInv'
<1>1. /\ options' = options /\ rule' = rule /\ counter' = counter /\ given' = given
      /\ ruled' = ruled /\ compared' = compared /\ day' = day
  BY DEF namingVars
<1>2. NamingTypeOK' /\ call' \in [Requests -> NamingCalls]
  BY <1>1 DEF NamingInv, NamingTypeOK
<1>3. \A q \in Requests : call'[q].op = "rule" => Apart(call'[q].ruled, call'[q].with)
  BY DEF NamingInv
<1>4. \A g \in given : Made(g)'
  BY <1>1 DEF NamingInv, Made
<1> QED BY <1>1, <1>2, <1>3, <1>4 DEF NamingInv

LEMMA StepKeepsNaming ==
  ASSUME NamingInv, [NamingNext]_<<backendVars, namingVars>>
  PROVE  NamingInv'
<1>1. CASE UNCHANGED <<backendVars, namingVars>>
  BY <1>1 DEF NamingInv, NamingTypeOK, backendVars, namingVars, Made
<1>2. ASSUME NEW r \in Requests, NEW h \in Holders, NEW line \in Rules \cup {None},
             LoadRule(r, h, line)
      PROVE  NamingInv'
  <2>1. PICK new : new = [rule EXCEPT ![h] = line]
    OBVIOUS
  <2>2. PICK some, with : some = Found(SeriesOf(new)) /\ with = Found(options)
    OBVIOUS
  <2>3. PICK c : c = [op |-> "rule", new |-> new, ruled |-> some, with |-> with]
    OBVIOUS
  <2>4. new \in [Holders -> Rules \cup {None}] /\ SeriesOf(new) \subseteq Series
        /\ options \subseteq Series /\ day \in Days
    <3>1. new \in [Holders -> Rules \cup {None}]
      BY <2>1 DEF NamingInv, NamingTypeOK
    <3> QED BY <3>1 DEF SeriesOf, Rules, NamingInv, NamingTypeOK
  <2>5. some \subseteq Seq(Nat) /\ with \subseteq Seq(Nat)
    BY <2>2, <2>4, CountersAre DEF Found
  <2>6. c \in NamingCalls /\ c.op = "rule" /\ c.ruled = some /\ c.with = with
    BY <2>3, <2>4, <2>5 DEF NamingCalls
  <2>7. Apart(some, with)
    <3>1. \A s \in SeriesOf(new), o \in options :
            ~CounterCollision(FoundFor[s][day], FoundFor[o][day])
      BY <1>2, <2>1 DEF LoadRule, Valid
    <3> QED BY <2>2, <3>1 DEF Found, Apart
  <2>8. call' = [call EXCEPT ![r] = c] /\ UNCHANGED namingVars
    BY <1>2, <2>1, <2>2, <2>3 DEF LoadRule, Load
  <2> QED BY <2>6, <2>7, <2>8, CallKeepsNaming
<1>3. ASSUME NEW r \in Requests, NEW s \in Series, s \in options,
             Load(r, [op |-> "name", s |-> s]), UNCHANGED namingVars
      PROVE  NamingInv'
  <2>1. PICK c : c = [op |-> "name", s |-> s]
    OBVIOUS
  <2>2. c \in NamingCalls /\ c.op = "name"
    BY <2>1 DEF NamingCalls
  <2> QED BY <1>3, <2>1, <2>2, CallKeepsNaming DEF Load
<1>4. ASSUME NEW r \in Requests, NEW h \in Holders, NEW isReturn \in BOOLEAN,
             LoadByRule(r, h, isReturn)
      PROVE  NamingInv'
  <2>1. PICK s : s \in options /\ Load(r, [op |-> "name", s |-> s])
    BY <1>4 DEF LoadByRule
  <2>2. s \in Series /\ UNCHANGED namingVars
    BY <1>4, <2>1 DEF LoadByRule, NamingInv, NamingTypeOK
  <2> QED BY <1>3, <2>1, <2>2
<1>5. ASSUME NEW r \in Requests, NEW s \in Series, LoadByRequest(r, s)
      PROVE  NamingInv'
  BY <1>3, <1>5 DEF LoadByRequest
<1>6. ASSUME NEW r \in Requests, GiveUpNaming(r)
      PROVE  NamingInv'
  <2>1. Idle \in NamingCalls /\ Idle.op = "none"
    BY NamingCall DEF NamingInv
  <2> QED BY <1>6, <2>1, CallKeepsNaming DEF GiveUpNaming, Done, Commit
<1>7. ASSUME NEW r \in Requests, SaveRule(r)
      PROVE  NamingInv'
  <2>1. /\ call[r].op = "rule" /\ rule' = call[r].new
        /\ ruled' = call[r].ruled /\ compared' = call[r].with
        /\ options' = options /\ counter' = counter /\ given' = given /\ day' = day
        /\ call' = [call EXCEPT ![r] = Idle]
    BY <1>7 DEF SaveRule, Done, Commit
  <2>2. /\ call[r].new \in [Holders -> Rules \cup {None}]
        /\ call[r].ruled \subseteq Seq(Nat) /\ call[r].with \subseteq Seq(Nat)
        /\ Idle \in NamingCalls /\ Idle.op = "none"
    BY <2>1, NamingCall DEF NamingInv
  <2>3. NamingTypeOK' /\ call' \in [Requests -> NamingCalls]
    BY <2>1, <2>2 DEF NamingInv, NamingTypeOK
  <2>4. \A q \in Requests : call'[q].op = "rule" => Apart(call'[q].ruled, call'[q].with)
    BY <2>1, <2>2 DEF NamingInv
  <2>5. Apart(ruled', compared')
    BY <2>1 DEF NamingInv
  <2>6. \A g \in given : Made(g)'
    BY <2>1 DEF NamingInv, Made
  <2> QED BY <2>1, <2>3, <2>4, <2>5, <2>6 DEF NamingInv
<1>8. ASSUME NEW r \in Requests, NEW p \in Counters, InsertInvoice(r, p)
      PROVE  NamingInv'
  <2>1. PICK s : s = call[r].s
    OBVIOUS
  <2>2. PICK n : n = counter[p] + 1
    OBVIOUS
  <2>3. PICK new : new = [name |-> NameOf(p, WidthOf[s], n), by |-> p]
    OBVIOUS
  <2>4. /\ s \in Series /\ n <= MaxNumber /\ counter' = [counter EXCEPT ![p] = n]
        /\ given' = given \cup {new} /\ call' = [call EXCEPT ![r] = Idle]
        /\ options' = options /\ rule' = rule /\ ruled' = ruled
        /\ compared' = compared /\ day' = day
    BY <1>8, <2>1, <2>2, <2>3, NamingCall DEF InsertInvoice, Done, Commit, NamingInv
  <2>5. counter[p] \in Nat /\ counter \in [Counters -> 0..MaxNumber] /\ MaxNumber \in Nat
    BY CountersAre DEF NamingInv, NamingTypeOK
  <2>6. n \in Nat /\ n \in 0..MaxNumber /\ counter[p] <= n
    BY <2>2, <2>4, <2>5
  <2>7. counter' \in [Counters -> 0..MaxNumber]
    BY <2>4, <2>5, <2>6
  <2>8. NamingTypeOK'
    BY <2>4, <2>7 DEF NamingInv, NamingTypeOK
  <2>9. /\ call' \in [Requests -> NamingCalls]
        /\ \A q \in Requests : call'[q].op = "rule" => Apart(call'[q].ruled, call'[q].with)
    BY <2>4, NamingCall DEF NamingInv
  <2>10. \A q \in Counters : counter[q] \in Nat /\ counter'[q] \in Nat /\ counter[q] <= counter'[q]
    BY <2>4, <2>5, <2>6
  <2>11. ASSUME NEW g \in given PROVE Made(g)'
    <3>1. PICK t \in Series, m \in Nat :
            g.name = NameOf(g.by, WidthOf[t], m) /\ m <= counter[g.by]
      BY DEF NamingInv, Made
    <3>2. g.by \in Counters
      BY DEF NamingInv, Made
    <3>3. m <= counter'[g.by]
      BY <2>10, <3>1, <3>2
    <3> QED BY <3>1, <3>2, <3>3 DEF Made
  <2>12. new.by = p /\ new.name = NameOf(p, WidthOf[s], n) /\ counter'[p] = n
    BY <2>3, <2>4, <2>5
  <2>13. Made(new)'
    BY <2>4, <2>6, <2>12 DEF Made
  <2> QED BY <2>4, <2>8, <2>9, <2>11, <2>13 DEF NamingInv
<1>9. CASE (\E s \in Series : ChangeOptions(s)) \/ NextSeriesDay
  <2>1. /\ options' \subseteq Series /\ day' \in Days
        /\ rule' = rule /\ counter' = counter /\ given' = given
        /\ ruled' = ruled /\ compared' = compared /\ call' = call
    <3>1. ASSUME NEW s \in Series, ChangeOptions(s)
          PROVE  options' \subseteq Series /\ UNCHANGED <<rule, counter, given, ruled, compared, day, call>>
      BY <3>1 DEF ChangeOptions, backendVars, NamingInv, NamingTypeOK
    <3>2. ASSUME NextSeriesDay
          PROVE  /\ day' \in Days
                 /\ UNCHANGED <<options, rule, counter, given, ruled, compared, call>>
      BY <3>2, NamingAssumption DEF NextSeriesDay, Days, backendVars, NamingInv, NamingTypeOK
    <3> QED BY <1>9, <3>1, <3>2 DEF NamingInv, NamingTypeOK
  <2>2. \A g \in given : Made(g)'
    BY <2>1 DEF NamingInv, Made
  <2> QED BY <2>1, <2>2 DEF NamingInv, NamingTypeOK
<1> QED BY <1>1, <1>2, <1>4, <1>5, <1>6, <1>7, <1>8, <1>9 DEF NamingNext

\* The next number that a rule's user gets from a counter that was found when the
\* rules were saved was never given by another counter that was then found for a
\* rule or an option, nor by its own in another width, whatever days pass, whatever
\* series are added and removed since and whatever others insert
\* (counter_collision, validate_rules): a name tells its counter and number, unless
\* one prefix is the other and then only digits.
THEOREM NextNumberStaysFree == NamingSpec => []NextNumberIsFree
<1>1. NamingInv /\ [NamingNext]_<<backendVars, namingVars>> => NamingInv'
  BY StepKeepsNaming
<1> QED BY <1>1, InitNaming, NextIsFree, PTL DEF NamingSpec
=============================================================================
