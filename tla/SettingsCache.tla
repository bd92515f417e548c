----------------------------- MODULE SettingsCache -----------------------------
(***************************************************************************)
(* The Redis copies of the settings: read through get_or_set and deleted   *)
(* in on_update (cache/, mixins/cacheable_settings.py), or, for the        *)
(* component state of a section, written by the save itself                *)
(* (services/config_loader_service.py).  Both happen before the save is    *)
(* committed.  Some writers never touch the copy.  The unit of time is the *)
(* longest that a request is served, so none outlives two ticks; the       *)
(* framework's own copies of documents are taken to be what the table      *)
(* holds.                                                                  *)
(***************************************************************************)
EXTENDS Backend

CONSTANTS
  TimeToLive,  \* CACHE_TTL_SECONDS and 3600 s for component state, per key
  MaxClock,    \* bound on the clock
  Values       \* what a settings document may hold

\* One key of each kind.
Keys == {"settings", "component"}

ASSUME CacheAssumption ==
  /\ TimeToLive \in [Keys -> Nat \ {0}] /\ MaxClock \in Nat
  /\ Values # {} /\ None \notin Values

VARIABLES
  row,      \* the committed document of each key, or None
  cached,   \* its copy: value and time of expiry
  clock,
  settled,  \* when the last save of the key ended
  alone     \* the last save of the key renewed its copy, or dropped it, and no
            \* other request overlapped it

cacheVars == <<row, cached, clock, settled, alone>>

Copies == [v : Values \cup {None}, until : Nat]
NoCopy == [v |-> None, until |-> 0]

CacheTypeOK ==
  /\ row \in [Keys -> Values \cup {None}]
  /\ cached \in [Keys -> Copies]
  /\ clock \in 0..MaxClock
  /\ settled \in [Keys -> 0..MaxClock]
  /\ alone \in [Keys -> BOOLEAN]

CacheInit ==
  /\ row = [k \in Keys |-> CHOOSE v \in Values : TRUE]
  /\ cached = [k \in Keys |-> NoCopy]
  /\ clock = 0
  /\ settled = [k \in Keys |-> 0]
  /\ alone = [k \in Keys |-> TRUE]

\* CacheManager.get: what Redis serves; a cached None counts as a miss.
Get(k) == IF cached[k].until > clock THEN cached[k].v ELSE None

\* CacheManager.set
Put(k, v) == [v |-> v, until |-> clock + TimeToLive[k]]

Overlapped(r, k) == \E q \in Requests \ {r} : call[q] # Idle /\ call[q].k = k

\* The row's lock, from the write to the end of the transaction.
Writing(r) == call[r].op \in {"saved", "quiet"}
RowIsFree(k) == \A q \in Requests : Writing(q) => call[q].k # k

\* A request that begins while another saves the key meets it.
Meets(k) == alone' = [alone EXCEPT ![k] = @ /\ \A q \in Requests : call[q].op # "saved"]

-----------------------------------------------------------------------------
(* Readers.                                                                *)

\* A reader takes its snapshot; its look at Redis may come much later.
BeginRead(r, k) ==
  /\ Load(r, [op |-> "read", k |-> k, v |-> row[k], since |-> clock])
  /\ Meets(k)
  /\ UNCHANGED <<row, cached, clock, settled>>

ServeCopy(r) ==
  /\ call[r].op = "read"
  /\ Get(call[r].k) # None
  /\ Done(r, {})
  /\ UNCHANGED cacheVars

\* The producer's document, from the snapshot, is what gets stored.  Component
\* state that is not in Redis is read and not stored (_load_component_state).
Produce(r) ==
  /\ call[r].op = "read"
  /\ Get(call[r].k) = None
  /\ IF call[r].k = "component"
       THEN Done(r, {})
       ELSE Commit(r, [call[r] EXCEPT !.op = "store"], {})
  /\ UNCHANGED cacheVars

\* Faulty: the copy is stored without an expiry.
StoreForGood(r) ==
  /\ call[r].op = "store"
  /\ cached' = [cached EXCEPT ![call[r].k] =
                  [v |-> call[r].v, until |-> MaxClock + TimeToLive[call[r].k]]]
  /\ Done(r, {})
  /\ UNCHANGED <<row, clock, settled, alone>>

\* get_or_set, after the producer.
Store(r) ==
  /\ call[r].op = "store"
  /\ cached' = [cached EXCEPT ![call[r].k] = Put(call[r].k, call[r].v)]
  /\ Done(r, {})
  /\ UNCHANGED <<row, clock, settled, alone>>

-----------------------------------------------------------------------------
(* Savers.                                                                 *)

BeginSave(r, k, v) ==
  /\ Load(r, [op |-> "save", k |-> k, v |-> v, since |-> clock])
  /\ Meets(k)
  /\ UNCHANGED <<row, cached, clock, settled>>

\* Document.save: the row is locked from here to the end of the transaction, and
\* on_update or on_trash deletes the copy; component state is written to it.
Save(r) ==
  /\ call[r].op = "save"
  /\ LET k == call[r].k IN
       /\ RowIsFree(k) /\ Fresh(r, k)
       /\ cached' = [cached EXCEPT ![k] =
                       IF k = "component" THEN Put(k, call[r].v) ELSE NoCopy]
       /\ alone' = [alone EXCEPT ![k] = ~Overlapped(r, k)]
  /\ Commit(r, [call[r] EXCEPT !.op = "saved"], {})
  /\ UNCHANGED <<row, clock, settled>>

CommitSave(r) ==
  /\ call[r].op = "saved"
  /\ row' = [row EXCEPT ![call[r].k] = call[r].v]
  /\ settled' = [settled EXCEPT ![call[r].k] = clock]
  /\ Done(r, {call[r].k})
  /\ UNCHANGED <<cached, clock, alone>>

\* A write that leaves Redis alone: the form of a section and the sync of an
\* application's sections, whose doctype has no CacheableSettingsMixin; or a
\* patch's set_single_value, which no `modified` check guards.
SaveQuietly(r) ==
  /\ call[r].op = "save"
  /\ RowIsFree(call[r].k)
  /\ call[r].k = "component" => Fresh(r, "component")
  /\ Commit(r, [call[r] EXCEPT !.op = "quiet"], {})
  /\ UNCHANGED cacheVars

CommitQuietly(r) ==
  /\ call[r].op = "quiet"
  /\ LET k == call[r].k IN
       /\ row' = [row EXCEPT ![k] = call[r].v]
       /\ settled' = [settled EXCEPT ![k] = clock]
       /\ alone' = [alone EXCEPT ![k] = FALSE]
       /\ Done(r, {k})
  /\ UNCHANGED <<cached, clock>>

\* Whatever fails after the save rolls it back, and not what it did to Redis.
RollBack(r) ==
  /\ call[r] # Idle
  /\ LET k == call[r].k IN
       IF call[r].op = "saved"
         THEN /\ settled' = [settled EXCEPT ![k] = clock]
              /\ alone' = [alone EXCEPT ![k] = @ /\ k # "component"]
         ELSE UNCHANGED <<settled, alone>>
  /\ Done(r, {})
  /\ UNCHANGED <<row, cached, clock>>

\* clear_all_core_cache; it names the settings of the site, not those of
\* companies, branches and users, nor component state.
ClearCache ==
  /\ cached' = [cached EXCEPT !["settings"] = NoCopy]
  /\ UNCHANGED <<row, clock, settled, alone, backendVars>>

\* No request is served for longer than two ticks.
CacheTick ==
  /\ clock < MaxClock
  /\ \A r \in Requests : call[r] # Idle => call[r].since = clock
  /\ clock' = clock + 1
  /\ UNCHANGED <<row, cached, settled, alone, backendVars>>

CacheNext ==
  \/ \E r \in Requests :
       \/ \E k \in Keys : BeginRead(r, k)
       \/ \E k \in Keys, v \in Values \cup {None} : BeginSave(r, k, v)
       \/ ServeCopy(r) \/ Produce(r) \/ Store(r)
       \/ Save(r) \/ CommitSave(r) \/ SaveQuietly(r) \/ CommitQuietly(r) \/ RollBack(r)
  \/ ClearCache
  \/ CacheTick

CacheSpec == BackendInit /\ CacheInit /\ [][CacheNext]_<<backendVars, cacheVars>>

-----------------------------------------------------------------------------
(* Properties.                                                             *)

\* The copy that readers get is the committed document at once after a save
\* that told Redis and that no other request of the key overlapped, and in any
\* case one time to live and one tick after the last save ended: nobody prolongs
\* an outdated copy, and none outlives a save that was rolled back, or one that
\* Redis never heard of (get_or_set, on_update, _save_component_state and
\* _sync_sections).
ServedIsCurrent ==
  \A k \in Keys :
    \/ Get(k) \in {None, row[k]}
    \/ \E r \in Requests : call[r].op = "saved" /\ call[r].k = k
    \/ ~alone[k] /\ clock < settled[k] + 1 + TimeToLive[k]
=============================================================================
