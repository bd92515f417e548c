----------------------------- MODULE MCBackOffice -----------------------------
(***************************************************************************)
(* One instance each of the larger modules on the backend.  They share no  *)
(* documents, so a behaviour is one of one part, chosen at the start, and  *)
(* the others stay as they are.                                            *)
(***************************************************************************)
EXTENDS
  TrackerSession, ChatTurn, SyncBatch, Ledger, VanSales, TLC

VARIABLE part

\* The timers come in three sizes: one user with several tasks, two users on one
\* task, and three timers of one user on one task that are started and stopped
\* two at a time.
TimerParts == {"timers of one user", "timers on one task", "three timers"}

VanParts == {"van sales", "van stock"}

Parts == TimerParts \cup VanParts \cup {"chat", "sync", "ledger"}

BackOfficeInit ==
  /\ part \in Parts
  /\ BackendInit
  /\ TrackerInit /\ ChatInit /\ SyncInit /\ LedgerInit /\ VanInit

Timers ==
  /\ TrackerNext
  /\ part = "timers of one user" => \A t \in Tasks : assignees'[t] \subseteq Careful
  /\ part # "timers of one user" => Cardinality({t \in Tasks : assignees'[t] # {}}) <= 1
  /\ part # "three timers" => Cardinality({s \in Sessions : session'[s] # None}) <= 2
  /\ part = "three timers" =>
       /\ \A t \in Tasks : assignees'[t] \cap Careful = {}
       /\ \A r \in Requests : call'[r].op \in {"none", "start", "stop", "next"}

\* Who edits or deletes a draft meets only requests for the same document: to
\* others it makes no difference.
Subject(c) == IF "p" \in DOMAIN c THEN c.p ELSE c.i
LedgerPart ==
  /\ LedgerNext
  /\ \A r, q \in Requests :
       /\ call'[r].op \in {"edit", "delete", "edit payment", "delete payment"}
       /\ call'[q] # Idle
       => Subject(call'[r]) = Subject(call'[q])

\* Only while the other record is at its first version does one reach its last:
\* what an operation stores depends on the other only through the snapshot read.
SyncPart ==
  /\ SyncNext
  /\ \A c, d \in Cids :
       c # d /\ record'[c] # None /\ record'[d] # None /\ record'[c].rev = MaxRev
         => record'[d].rev = 1

\* Two users share one invoice id; one user may take two of them.
VanPart ==
  /\ VanNext
  /\ \A d \in PaperIds, r \in Requests :
       call'[r] # Idle /\ call'[r].id = d => (d \in StockIds <=> part = "van stock")
  /\ part = "van stock" => \A d \in PaperIds \ StockIds : paper'[d] = None
  /\ Cardinality({d \in InvoiceIds : paper'[d] # None}) > 1 =>
       Cardinality({t[1] : t \in told'} \cup {call'[r].by : r \in {q \in Requests : call'[q].op \in {"post", "replay"}}}) <= 1

BackOfficeNext ==
  \/ /\ part \in TimerParts
     /\ Timers
     /\ UNCHANGED <<part, chatVars, syncVars, ledgerVars, vanVars>>
  \/ /\ part = "chat"
     /\ ChatNext
     /\ UNCHANGED <<part, trackerVars, syncVars, ledgerVars, vanVars>>
  \/ /\ part = "sync"
     /\ SyncPart
     /\ UNCHANGED <<part, trackerVars, chatVars, ledgerVars, vanVars>>
  \/ /\ part = "ledger"
     /\ LedgerPart
     /\ UNCHANGED <<part, trackerVars, chatVars, syncVars, vanVars>>
  \/ /\ part \in VanParts
     /\ VanPart
     /\ UNCHANGED <<part, trackerVars, chatVars, syncVars, ledgerVars>>

BackOfficeVars ==
  <<part, backendVars, trackerVars, chatVars, syncVars,
    ledgerVars, vanVars>>

BackOfficeSpec == BackOfficeInit /\ [][BackOfficeNext]_BackOfficeVars

-----------------------------------------------------------------------------
\* Everybody may assign to everybody.
Team == [u \in Users |-> Users]

\* A manager opens the conversation of someone else.
Owner == [s \in Chats |-> CHOOSE u \in ChatUsers : u \notin ChatManagers]

InvoiceNumbers == 1..2

\* Tasks, payments and invoices are named by the same model values.
Symmetry ==
  Permutations(Requests) \cup Permutations(Tasks) \cup Permutations(Sessions)

BackOfficeTypeOK ==
  TrackerTypeOK /\ ChatTypeOK /\ SyncTypeOK /\ LedgerTypeOK /\ VanTypeOK
=============================================================================
