----------------------------- MODULE MCScheduled -----------------------------
(***************************************************************************)
(* The scheduled tasks under their fairness, and one instance each of the  *)
(* smaller modules on the backend; a behaviour is one of one part.  The    *)
(* fairness speaks of scheduled tasks only: in the other parts, which have *)
(* no liveness property, nothing satisfies it and only safety is checked.  *)
(***************************************************************************)
EXTENDS
  ScheduledTasks, SpaceOrders, KdsTickets, Returns, Journal, VanRoute,
  DuplicateGuard, SubscriptionGate, SettingsCache, InvoiceNaming,
  AppPlatform, TLC

VARIABLE part

Parts ==
  {"scheduled tasks", "space", "kitchen", "returns", "journal", "van route",
   "duplicates", "gate", "naming", "apps"} \cup Keys

ScheduledInit ==
  /\ part \in Parts
  /\ BackendInit
  /\ PlanInit /\ SpaceInit /\ KdsInit /\ ReturnsInit /\ JournalInit
  /\ RouteInit /\ GuardInit /\ GateInit /\ CacheInit /\ NamingInit /\ AppInit
  /\ part # "apps" => industries = {} /\ \A a \in Apps : stored[a] # 1

\* Three hosts, one callback at a time.
SpaceOneCallback ==
  /\ SpaceNext
  /\ Cardinality({r \in Requests : call'[r].op \in {"status", "usage"}}) <= 1

\* One override or one cancellation; records keep some identifier, and one request at
\* a time goes on to a second record, with the identifier that is surely found.
Saving == {r \in Requests : call'[r].op \in {"check", "checked"}}
GuardPart ==
  /\ GuardNext
  /\ Cardinality(gone') + Cardinality(logged' \cup UNION {call'[r].log : r \in Saving}) <= 1
  /\ \A r \in Saving :
       call'[r].ids \in IF call'[r].mine \ {call'[r].record} = {} THEN SUBSET Names \ {{}} ELSE {Exact}
  /\ Cardinality({r \in Saving : call'[r].mine \ {call'[r].record} # {}}) <= 1

\* Requests meet nowhere in the gate, and what is pushed while one is at work it never
\* reads: one at a time, next to one push, shows all the gate does.
Lapsed == [on |-> TRUE, status |-> "EXPIRED", trialEnds |-> None, paidUntil |-> None, grace |-> 0]
GateAlone ==
  /\ GateNext
  /\ Cardinality({r \in Requests : call'[r] # Idle}) <= 1
  /\ \A r \in Requests : call'[r] # Idle => conf' \in {call'[r].conf, Lapsed}

\* One form next to a request, or two requests; a form flips one box of each kind
\* at most.
OneForm ==
  /\ AppNext
  /\ Cardinality({r \in Requests : call'[r].op = "form"}) <= 1
  /\ \A r \in Requests : call'[r] # Idle =>
       /\ Cardinality(call'[r].on \cup call'[r].off) <= 1
       /\ Cardinality(call'[r].adds \cup call'[r].drops) <= 1

\* One cached key at a time: they share nothing.
OneKey == CacheNext /\ \A r \in Requests : call'[r] # Idle => call'[r].k = part

\* Characters below 2 are the digits.  A series, one whose counter continues it
\* with a digit, its return series, and one with a field of the invoice, which may
\* hold such a digit or nothing, and which is found on the last day only.
SeriesPrefix(s) ==
  CASE s = "S-.#" -> <<2>>          [] s = "S-1.#" -> <<2, 1>>
    [] s = "S-RET-.#" -> <<2, 3>>   [] s = "S-.f.##" -> <<2, 4>>

\* Only the overlapping series comes and goes, next to one request at a time:
\* invoices wait for each other's counter anyway.  Every rule has the one return
\* series, which collides with none and is not used; the second holder may only
\* have the series whose counter depends on the invoice.
NamingPart ==
  /\ NamingNext
  /\ Series \ {"S-1.#"} \subseteq options'
  /\ Cardinality({r \in Requests : call'[r] # Idle}) <= 1
  /\ counter'[SeriesPrefix("S-RET-.#")] = 0
  /\ \A r \in Requests : call'[r].op = "rule" =>
       \A h \in Holders : LET mine == call'[r].new[h] IN
         mine # None => /\ mine.return = "S-RET-.#"
                        /\ h = "u2" => mine.normal = "S-.f.##"

ScheduledNext ==
  \/ /\ part = "scheduled tasks"
     /\ PlanNext
     /\ UNCHANGED <<part, spaceVars, kdsVars, returnsVars, journalVars,
                    routeVars, guardVars, gateVars, cacheVars, namingVars,
                    appVars>>
  \/ /\ part = "space"
     /\ SpaceOneCallback
     /\ UNCHANGED <<part, planVars, kdsVars, returnsVars, journalVars,
                    routeVars, guardVars, gateVars, cacheVars, namingVars,
                    appVars>>
  \/ /\ part = "kitchen"
     /\ KdsNext
     /\ UNCHANGED <<part, planVars, spaceVars, returnsVars, journalVars,
                    routeVars, guardVars, gateVars, cacheVars, namingVars,
                    appVars>>
  \/ /\ part = "returns"
     /\ ReturnsNext
     /\ UNCHANGED <<part, planVars, spaceVars, kdsVars, journalVars, routeVars,
                    guardVars, gateVars, cacheVars, namingVars, appVars>>
  \/ /\ part = "journal"
     /\ JournalNext
     /\ UNCHANGED <<part, planVars, spaceVars, kdsVars, returnsVars, routeVars,
                    guardVars, gateVars, cacheVars, namingVars, appVars>>
  \/ /\ part = "van route"
     /\ RouteNext
     /\ UNCHANGED <<part, planVars, spaceVars, kdsVars, returnsVars,
                    journalVars, guardVars, gateVars, cacheVars, namingVars,
                    appVars>>
  \/ /\ part = "duplicates"
     /\ GuardPart
     /\ UNCHANGED <<part, planVars, spaceVars, kdsVars, returnsVars,
                    journalVars, routeVars, gateVars, cacheVars, namingVars,
                    appVars>>
  \/ /\ part = "gate"
     /\ GateAlone
     /\ UNCHANGED <<part, planVars, spaceVars, kdsVars, returnsVars,
                    journalVars, routeVars, guardVars, cacheVars, namingVars,
                    appVars>>
  \/ /\ part \in Keys
     /\ OneKey
     /\ UNCHANGED <<part, planVars, spaceVars, kdsVars, returnsVars,
                    journalVars, routeVars, guardVars, gateVars, namingVars,
                    appVars>>
  \/ /\ part = "naming"
     /\ NamingPart
     /\ UNCHANGED <<part, planVars, spaceVars, kdsVars, returnsVars,
                    journalVars, routeVars, guardVars, gateVars, cacheVars,
                    appVars>>
  \/ /\ part = "apps"
     /\ OneForm
     /\ UNCHANGED <<part, planVars, spaceVars, kdsVars, returnsVars,
                    journalVars, routeVars, guardVars, gateVars, cacheVars,
                    namingVars>>

ScheduledVars ==
  <<part, backendVars, planVars, spaceVars, kdsVars,
    returnsVars, journalVars, routeVars, guardVars, gateVars,
    cacheVars, namingVars, appVars>>

ScheduledSpec == ScheduledInit /\ [][ScheduledNext]_ScheduledVars /\ PlanFairness

-----------------------------------------------------------------------------
OneStation == [t \in Tickets |-> CHOOSE s \in Stations : TRUE]

\* An item on two lines of three.
TwiceListed == <<"apple", "apple", "bread">>
Quantities == <<1, 2, 1>>

ScheduledTypeOK ==
  /\ PlanTypeOK /\ SpaceTypeOK /\ KdsTypeOK /\ ReturnsTypeOK
  /\ JournalTypeOK /\ RouteTypeOK /\ GuardTypeOK /\ GateTypeOK
  /\ CacheTypeOK /\ NamingTypeOK /\ AppTypeOK

Taken ==
  [s \in Series |-> [d \in Days |->
     IF s = "S-.f.##" THEN {<<2>>, <<2, 1>>} ELSE {SeriesPrefix(s)}]]
FoundThen ==
  [s \in Series |-> [d \in Days |->
     IF s = "S-.f.##" /\ d < LastDay THEN <<>> ELSE SeriesPrefix(s)]]

Widths == [s \in Series |-> IF s = "S-.f.##" THEN 2 ELSE 1]

\* Ticks of a request's longest service.
Lifetimes == [k \in Keys |-> IF k = "component" THEN 3 ELSE 2]

\* The web page needs its app.
Catalog == [a \in Apps |-> IF a = "vansalex_web" THEN {"vansalex"} ELSE {}]
=============================================================================
