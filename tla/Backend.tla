-------------------------------- MODULE Backend --------------------------------
(***************************************************************************)
(* How Frappe serves requests, for the modules of the back office: a       *)
(* request (or background job) takes a call, loads documents, and commits  *)
(* or fails as one transaction; some go on with another transaction.       *)
(*                                                                         *)
(* Document.save() is refused when the `modified` of the document moved    *)
(* since it was loaded.  A call therefore carries only what it read of     *)
(* documents it does not save; of one it saves, `Fresh` says that what it  *)
(* loaded is what the table still holds.  Other writes (set_value, SQL)    *)
(* are checked by nothing, unless SnapshotIsolation refuses those to rows  *)
(* that changed since the snapshot.                                        *)
(***************************************************************************)
EXTENDS Naturals, FiniteSets

CONSTANTS
  Requests,  \* requests and jobs that are served at the same time
  SnapshotIsolation,  \* innodb_snapshot_isolation is ON
  None

ASSUME IsolationAssumption == SnapshotIsolation \in BOOLEAN /\ None \notin Requests
ASSUME WorkersAssumption == IsFiniteSet(Requests) /\ Requests # {}

VARIABLES
  call,   \* what each request serves: a record with a field op
  stale   \* documents whose `modified` moved since the request loaded them

backendVars == <<call, stale>>

Idle == [op |-> "none"]

BackendInit ==
  /\ call = [r \in Requests |-> Idle]
  /\ stale = [r \in Requests |-> {}]

\* A request arrives and reads what it needs.
Load(r, c) ==
  /\ call[r] = Idle
  /\ call' = [call EXCEPT ![r] = c]
  /\ UNCHANGED stale

\* r commits, having saved the documents `saved`, and goes on with c.
Commit(r, c, saved) ==
  /\ call' = [call EXCEPT ![r] = c]
  /\ stale' = [q \in Requests |->
                 IF q = r \/ call[q] = Idle THEN {} ELSE stale[q] \cup saved]

\* The call of r is over.
Done(r, saved) == Commit(r, Idle, saved)

Fresh(r, d) == d \notin stale[r]
=============================================================================
