---------------------------- MODULE SubscriptionGate ----------------------------
(***************************************************************************)
(* The subscription gate of a tenant site (services/subscription_gate.py): *)
(* the platform pushes the subscription into the site's configuration, and *)
(* the site itself decides by the dates in it whether it is read-only.     *)
(* Requests are looked at when they begin and at each document they save,  *)
(* by the configuration that was loaded when they began.                   *)
(* Writes that fire no document event (SQL, set_value) pass, as            *)
(* docs/subscription.md says, and are left out.                            *)
(***************************************************************************)
EXTENDS Backend, FiniteSetsExt

CONSTANTS
  MaxDay,   \* bound on the days that pass
  MaxGrace  \* bound on the payment grace the platform sends

ASSUME GateAssumption == MaxDay \in Nat /\ MaxGrace \in Nat

VARIABLES
  conf,   \* zg_subscription in the site configuration, or None
  today,
  written   \* how often, modulo 2, each worker changed records of the tenant

gateVars == <<conf, today, written>>

Dates == 0..MaxDay \cup {None}

\* EXPIRED stands for all READ_ONLY_STATUSES, NEW for one this code does not know.
Subscriptions ==
  [on : BOOLEAN, status : {"TRIAL", "ACTIVE", "EXPIRED", "NEW"},
   trialEnds : Dates, paidUntil : Dates, grace : 0..MaxGrace]

GateTypeOK ==
  /\ conf \in Subscriptions \cup {None}
  /\ today \in 0..MaxDay
  /\ written \in [Requests -> 0..1]

GateInit == conf = None /\ today = 0 /\ written = [r \in Requests |-> 0]

\* What is saved: a record of the tenant, by a user or a job or in a system context
\* (install, migrate, patch, uninstall, a sync of the platform), a log, one's own.
Kinds == {"record", "system", "log", "own"}

-----------------------------------------------------------------------------
\* evaluate
Evaluate(c) ==
  /\ c # None /\ c.on
  /\ \/ c.status = "EXPIRED"
     \/ /\ c.status = "TRIAL" /\ c.trialEnds # None
        /\ today >= c.trialEnds
        /\ c.paidUntil = None \/ ~(today < c.paidUntil)
     \/ /\ c.status = "ACTIVE" /\ c.paidUntil # None
        /\ today > c.paidUntil + c.grace

\* gate_requests and guard_job: a known write endpoint is refused at once, a guarded
\* job does nothing; other requests and jobs begin in any case.
LoadWrite(r, known, kind) ==
  /\ known => ~Evaluate(conf) /\ kind # "system"
  /\ Load(r, [op |-> "write", kind |-> kind, conf |-> conf])
  /\ UNCHANGED gateVars

\* Faulty: a request that was let in goes through.
TrustTheRequest(kind, c) == TRUE

\* doc_has_permission and enforce_doc_write, at the save of each document: system
\* contexts, logs and the person's own records are exempt.
MayWrite(kind, c) == kind \in {"system", "log", "own"} \/ ~Evaluate(c)

SaveWrite(r) ==
  /\ call[r].op = "write"
  /\ MayWrite(call[r].kind, call[r].conf)
  /\ written' = IF call[r].kind \in {"record", "system"}
                  THEN [written EXCEPT ![r] = 1 - written[r]] ELSE written
  /\ \/ Done(r, {})
     \/ Commit(r, call[r], {})
  /\ UNCHANGED <<conf, today>>

GiveUpWrite(r) ==
  /\ call[r].op = "write"
  /\ Done(r, {})
  /\ UNCHANGED gateVars

\* The platform pushes what it knows; a push may also be missed.
Push(c) ==
  /\ conf' = c
  /\ UNCHANGED <<today, written, backendVars>>

NextDay ==
  /\ today < MaxDay
  /\ today' = today + 1
  /\ UNCHANGED <<conf, written, backendVars>>

GateNext ==
  \/ \E r \in Requests :
       \/ \E known \in BOOLEAN, kind \in Kinds : LoadWrite(r, known, kind)
       \/ SaveWrite(r)
       \/ GiveUpWrite(r)
  \/ \E c \in Subscriptions : Push(c)
  \/ NextDay

GateSpec == BackendInit /\ GateInit /\ [][GateNext]_<<backendVars, gateVars>>

-----------------------------------------------------------------------------
\* The first day on which a site with this subscription is read-only: the later
\* of trial and payment, or the end of the grace.  Without dates it never ends.
Never == MaxDay + MaxGrace + 2

RightsEnd(c) ==
  CASE c = None -> Never
    [] c # None /\ (~c.on \/ c.status = "NEW") -> Never
    [] c # None /\ c.on /\ c.status = "EXPIRED" -> 0
    [] c # None /\ c.on /\ c.status = "TRIAL" ->
         Max({IF c.trialEnds = None THEN Never ELSE c.trialEnds,
              IF c.paidUntil = None THEN 0 ELSE c.paidUntil})
    [] c # None /\ c.on /\ c.status = "ACTIVE" ->
         IF c.paidUntil = None THEN Never ELSE c.paidUntil + c.grace + 1

\* The site knows the end of what was last pushed by itself, to the day.
ExpiresByItself == Evaluate(conf) <=> today >= RightsEnd(conf)

\* A request changes no record of the tenant, outside of system contexts, once the
\* subscription has ended that the site knew of when the request began: not one that
\* runs past the last day, nor one that no list of endpoints names.
NoEditAfterTheEnd ==
  [][\A r \in Requests : written'[r] # written[r] /\ call[r].kind # "system" =>
       today < RightsEnd(call[r].conf)]_written
=============================================================================
