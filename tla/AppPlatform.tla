----------------------------- MODULE AppPlatform -----------------------------
(***************************************************************************)
(* The apps of a site and their switches (services/app_state.py,           *)
(* app_authority.py, the controller of ZG System Settings) through a       *)
(* deploy and its migrate.  All switches are fields of one document, which *)
(* every save writes as a whole; Desk forms stay open through a migrate.   *)
(* Desk entries, module definitions, the plugin registry, the Redis copy of *)
(* the settings and the roles of whoever saves are left out.               *)
(***************************************************************************)
EXTENDS Backend

CONSTANTS
  Apps,        \* apps with a switch
  DefaultOn,   \* those that count as on where nothing is stored
  NeedsOf,     \* the apps each requires
  NewApps,     \* those whose field comes with the deploy
  Adopted,     \* bundled modules that the site has installed as apps of their own
  Industries,
  Restaurant,
  KeepsRestaurant  \* the migrate runs patch v0_4_0 on a site with tables or orders

ASSUME AppAssumption ==
  /\ DefaultOn \subseteq Apps /\ NewApps \subseteq Apps /\ Adopted \subseteq Apps
  /\ NeedsOf \in [Apps -> SUBSET Apps]
  /\ Restaurant \in Industries
  /\ KeepsRestaurant \in BOOLEAN
  /\ None \notin {0, 1}

VARIABLES
  phase,       \* how far the deploy has come: deployed, synced, kept,
               \* defaulted, migrated
  stored,      \* the value of each switch in tabSingles, or None
  industries,  \* the industries that are enabled
  asked        \* what was last asked: the apps and the industries that shall be on

appVars == <<phase, stored, industries, asked>>

Settings == [Apps -> {None, 0, 1}]

AppTypeOK ==
  /\ phase \in {"deployed", "synced", "kept", "defaulted", "migrated"}
  /\ stored \in Settings
  /\ industries \subseteq Industries
  /\ asked \in [apps : SUBSET Apps, industries : SUBSET Industries]

-----------------------------------------------------------------------------
\* The fields that the site's DocType has.
Fields == IF phase = "deployed" THEN Apps \ NewApps ELSE Apps

\* switch_state: the apps that are on with the values s.
SwitchesOf(s) == {a \in Apps : s[a] = 1 \/ (s[a] = None /\ a \in DefaultOn)}

On == SwitchesOf(stored)

\* dependency_problems
Problems(on) == {p \in Apps \X Apps : p[1] \in on /\ p[2] \in NeedsOf[p[1]] \ on}

\* Document.save writes every field there is, of a Check one or zero.
Written(s) == [a \in Apps |->
  IF a \notin Fields THEN stored[a] ELSE IF s[a] = 1 THEN 1 ELSE 0]

AppInit ==
  /\ phase = "deployed"
  /\ stored \in {s \in Settings :
       (\A a \in Apps : s[a] = None <=> a \in NewApps) /\ Problems(SwitchesOf(s)) = {}}
  /\ industries \in SUBSET (Industries \ {Restaurant})
  /\ asked = [apps |-> On, industries |-> industries]

\* assert_can_switch, of a System Manager.
AssertCanSwitch(before, after) ==
  SwitchesOf(before) # SwitchesOf(after) =>
    Problems(SwitchesOf(after)) \subseteq Problems(SwitchesOf(before))

Online == phase \in {"deployed", "migrated"}

\* set_switch loads the settings and sets the one field.
LoadSwitch(r, a, v) ==
  /\ Online
  /\ Load(r, [op |-> "request", apps |-> [stored EXCEPT ![a] = v], industries |-> industries,
              on |-> {b \in {a} \cap Fields : v = 1}, off |-> {b \in {a} \cap Fields : v = 0}, adds |-> {}, drops |-> {}])
  /\ UNCHANGED appVars

\* switch_industry_on: the POS settings need the industry i.
LoadIndustry(r, i) ==
  /\ Online /\ i \notin industries
  /\ Load(r, [op |-> "request", apps |-> stored, industries |-> industries \cup {i},
              on |-> {}, off |-> {}, adds |-> {i}, drops |-> {}])
  /\ UNCHANGED appVars

\* Someone opens the form and flips the boxes S and those of the industries I; without
\* a stored value one opens unticked, and of later fields the form knows nothing.
OpenForm(r, S, I) ==
  /\ Online /\ S \subseteq Fields
  /\ LET shown == {a \in Fields : stored[a] = 1} IN
       Load(r, [op |-> "form", industries |-> (industries \ I) \cup (I \ industries),
                apps |-> [a \in Apps |-> IF a \notin Fields THEN None
                                         ELSE IF (a \in shown) # (a \in S) THEN 1 ELSE 0],
                on |-> S \ shown, off |-> S \cap shown,
                adds |-> I \ industries, drops |-> I \cap industries])
  /\ UNCHANGED appVars

\* The save, with validate() and on_update() of the controller; no industry that is
\* registered requires another.
SaveSettings(r) ==
  /\ call[r] # Idle /\ Online
  /\ Fresh(r, "settings")
  /\ AssertCanSwitch(stored, call[r].apps)
  /\ stored' = Written(call[r].apps)
  /\ industries' = call[r].industries
  /\ asked' = [apps |-> (asked.apps \ call[r].off) \cup call[r].on,
               industries |-> (asked.industries \ call[r].drops) \cup call[r].adds]
  /\ Done(r, {"settings"})
  /\ UNCHANGED phase

GiveUpSettings(r) ==
  /\ call[r] # Idle
  /\ Done(r, {})
  /\ UNCHANGED appVars

-----------------------------------------------------------------------------
(* bench migrate, during which the site serves no requests; forms that are *)
(* open stay open.                                                         *)

\* Faulty: patches store without moving `modified`.
SettingsUnmarked == UNCHANGED backendVars

\* The settings were saved, or their `modified` moved, outside a request.
SettingsMoved ==
  /\ stale' = [r \in Requests |-> IF call[r] = Idle THEN {} ELSE stale[r] \cup {"settings"}]
  /\ UNCHANGED call

SyncModels ==
  /\ phase = "deployed"
  /\ \A r \in Requests : call[r].op # "request"
  /\ phase' = "synced"
  /\ UNCHANGED <<stored, industries, asked, backendVars>>

\* v0_4_0: a save of the whole document, with the fields of the latest release.
EnableRestaurant ==
  /\ phase = "synced"
  /\ phase' = "kept"
  /\ IF KeepsRestaurant
     THEN /\ stored' = Written(stored)
          /\ industries' = industries \cup {Restaurant}
          /\ asked' = [asked EXCEPT !.industries = @ \cup {Restaurant}]
          /\ SettingsMoved
     ELSE UNCHANGED <<stored, industries, asked, backendVars>>

Defaulted == {a \in DefaultOn : stored[a] = None}

\* v0_4_7, v0_4_9 and v0_5_0: store the 1 where nothing is stored.
StoreDefaults ==
  /\ phase = "kept"
  /\ phase' = "defaulted"
  /\ stored' = [a \in Apps |-> IF a \in Defaulted THEN 1 ELSE stored[a]]
  /\ IF Defaulted = {} THEN UNCHANGED backendVars ELSE SettingsMoved
  /\ UNCHANGED <<industries, asked>>

\* after_migrate: what the site has installed as an app of its own goes on, and so it
\* is asked for.
AdoptOldModules ==
  /\ phase = "defaulted"
  /\ phase' = "migrated"
  /\ stored' = [a \in Apps |-> IF a \in Adopted THEN 1 ELSE stored[a]]
  /\ asked' = [asked EXCEPT !.apps = @ \cup Adopted]
  /\ IF Adopted = {} THEN UNCHANGED backendVars ELSE SettingsMoved
  /\ UNCHANGED industries

Migrate == SyncModels \/ EnableRestaurant \/ StoreDefaults \/ AdoptOldModules

AppNext ==
  \/ \E r \in Requests :
       \/ \E a \in Apps, v \in {0, 1} : LoadSwitch(r, a, v)
       \/ \E S \in SUBSET Apps, I \in SUBSET Industries : OpenForm(r, S, I)
       \/ \E i \in Industries : LoadIndustry(r, i)
       \/ SaveSettings(r) \/ GiveUpSettings(r)
  \/ Migrate

AppSpec == BackendInit /\ AppInit /\ [][AppNext]_<<backendVars, appVars>>

-----------------------------------------------------------------------------
(* Properties.                                                             *)

\* The apps and industries that are on are those that were last asked for, each by
\* someone else perhaps, through whole-document saves of which none looks at the
\* others and forms that are older than the fields they save (check_if_latest, the
\* patches that store the defaults).
SwitchesAsAsked ==
  On = asked.apps /\ industries = asked.industries

\* An app that is on unless it is switched off stays on until someone does
\* (app_state.py:9, "keeps running what it always had").
DefaultOnStays == \A a \in DefaultOn : a \in asked.apps => a \in On
=============================================================================
