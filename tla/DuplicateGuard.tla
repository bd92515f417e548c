----------------------------- MODULE DuplicateGuard -----------------------------
(***************************************************************************)
(* Duplicate prevention (services/duplicate/enforcement.py) under a rule   *)
(* that blocks: the validate hook takes a named database lock on each      *)
(* unique identifier of a record, in the order of the lock names, looks    *)
(* for other records with one of them, and holds the locks until the       *)
(* transaction is over, which may save several records.  An unexpected     *)
(* error of the check itself lets the save pass and is left out.           *)
(***************************************************************************)
EXTENDS Backend, FiniteSetsExt

CONSTANTS
  Records,     \* documents of one DocType
  Names,       \* lock names of normalised identifiers, in their order
  Exact,       \* those that every record stores in the same spelling
  Submittable  \* the DocType is submittable

ASSUME NamesAssumption == Names \subseteq Nat

VARIABLES
  kept,    \* the identifiers of each committed record
  gone,    \* the records that are cancelled or deleted
  logged,  \* <<d, e>>: an override of d accepted e as no duplicate
  lock     \* the request whose connection holds each named lock, or None

guardVars == <<kept, gone, logged, lock>>

GuardTypeOK ==
  /\ kept \in [Records -> SUBSET Names]
  /\ gone \subseteq Records /\ logged \subseteq Records \X Records
  /\ lock \in [Names -> Requests \cup {None}]

GuardInit ==
  /\ kept = [d \in Records |-> {}]
  /\ gone = {} /\ logged = {}
  /\ lock = [n \in Names |-> None]

Live == {d \in Records \ gone : kept[d] # {}}

Held(r) == {n \in Names : lock[n] = r}

\* release_locks, after the commit or the rollback.
Release(r) == lock' = [n \in Names |-> IF lock[n] = r THEN None ELSE lock[n]]

\* What r reads of a record: its own save of it, or the table.
Row(r, e) == IF e \in call[r].mine THEN call[r].saves[e] ELSE kept[e]

GoOn(r, c) == call' = [call EXCEPT ![r] = c] /\ UNCHANGED stale

-----------------------------------------------------------------------------
\* A record is inserted, or saved with other identifiers than it had.  `mine` are
\* the records r has saved in its transaction, `seen` those of its snapshot.
LoadRecord(r, d, ids) ==
  /\ ids # kept[d] /\ d \notin gone
  /\ Load(r, [op |-> "check", record |-> d, ids |-> ids, seen |-> Live,
              mine |-> {}, saves |-> [e \in Records |-> {}], log |-> {}])
  /\ UNCHANGED guardVars

\* The same transaction goes on to save another record.
LoadAnother(r, d, ids) ==
  /\ call[r].op = "checked" /\ ids # Row(r, d) /\ d \notin gone
  /\ GoOn(r, [call[r] EXCEPT !.op = "check", !.record = d, !.ids = ids])
  /\ UNCHANGED guardVars

\* The locks still to take, and the next: the first in order.
Wanted(r) == IF call[r].op = "check" THEN call[r].ids \ Held(r) ELSE {}

NextLocks(r) == IF Wanted(r) = {} THEN {} ELSE {Min(Wanted(r))}

TakeLock(r) ==
  /\ \E n \in NextLocks(r) : lock[n] = None /\ lock' = [lock EXCEPT ![n] = r]
  /\ UNCHANGED <<kept, gone, logged, backendVars>>

\* _acquire_locks is over when nothing is left to take.
Locked(r) == Wanted(r) = {}

Twins(r, ids) == {e \in Records \ (gone \cup {call[r].record}) : Row(r, e) \cap ids # {}}

\* The twins the locking read finds whatever their spelling; those of a submittable
\* DocType are then looked up in the snapshot (_docstatus_ok).
SureTwins(r) ==
  {e \in Twins(r, call[r].ids \cap Exact) : Submittable => e \in call[r].seen \cup call[r].mine}

\* Snapshot isolation refuses the locking read of a row that is newer (error 1020).
Readable(r) ==
  SnapshotIsolation =>
    \A e \in Twins(r, call[r].ids \cap Exact) \ call[r].mine : Fresh(r, e)

\* The check passes: nothing was found, or an authorised user accepts what was, which
\* is logged.  A twin in another spelling may be found, or not.
PassCheck(r) ==
  LET cl == call[r]
  IN  \E found \in SUBSET Twins(r, cl.ids) :
        /\ SureTwins(r) \subseteq found
        /\ GoOn(r, [cl EXCEPT !.op = "checked", !.mine = @ \cup {cl.record},
                              !.saves[cl.record] = cl.ids,
                              !.log = @ \cup {cl.record} \X found])
        /\ UNCHANGED guardVars

\* Faulty: nothing waits for the locks.
SaveUnlocked(r) == call[r].op = "check" /\ Readable(r) /\ PassCheck(r)

\* validate_document, after the locks.
SaveRecord(r) == call[r].op = "check" /\ Locked(r) /\ Readable(r) /\ PassCheck(r)

\* The rest of the request, up to its commit.  A record may have been saved by
\* another request since: that save is refused.
CommitRecord(r) ==
  LET cl == call[r]
  IN  /\ cl.op = "checked" /\ \A e \in cl.mine : Fresh(r, e)
      /\ kept' = [e \in Records |-> Row(r, e)]
      /\ logged' = logged \cup cl.log
      /\ Release(r)
      /\ Done(r, cl.mine)
      /\ UNCHANGED gone

\* A duplicate, a lock not given within LOCK_WAIT_SECONDS, a failed request.
RefuseRecord(r) ==
  /\ call[r].op \in {"check", "checked"}
  /\ Release(r)
  /\ Done(r, {})
  /\ UNCHANGED <<kept, gone, logged>>

\* A record is cancelled or deleted, with no check.
CancelRecord(r, d) ==
  /\ call[r] = Idle /\ d \in Live
  /\ gone' = gone \cup {d}
  /\ Done(r, {d})
  /\ UNCHANGED <<kept, logged, lock>>

GuardNext ==
  \E r \in Requests :
    \/ \E d \in Records, ids \in SUBSET Names : LoadRecord(r, d, ids) \/ LoadAnother(r, d, ids)
    \/ TakeLock(r)
    \/ SaveRecord(r)
    \/ CommitRecord(r)
    \/ RefuseRecord(r)
    \/ \E d \in Records : CancelRecord(r, d)

GuardSpec == BackendInit /\ GuardInit /\ [][GuardNext]_<<backendVars, guardVars>>

-----------------------------------------------------------------------------
\* No two records share a unique identifier in one spelling, though each request
\* looked before the other committed, unless an override that names the two is
\* logged (enforcement: "two concurrent requests cannot both pass").
NoTwins ==
  \A d, e \in Records \ gone : d # e /\ kept[d] \cap kept[e] \cap Exact # {} =>
    <<d, e>> \in logged \/ <<e, d>> \in logged

WaitsFor(r, q) == \E n \in NextLocks(r) : lock[n] = q

AtTheFirst(r) == call[r].op = "check" /\ call[r].mine = {}

\* Among requests that are at their first record, whoever is waited for waits, if at
\* all, for a later name: the names of a record are taken in their order.
WaitsGoUp ==
  \A r, q \in Requests : AtTheFirst(r) /\ AtTheFirst(q) /\ WaitsFor(r, q) =>
    \A n \in NextLocks(r), m \in NextLocks(q) : n < m
=============================================================================
