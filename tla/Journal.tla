-------------------------------- MODULE Journal --------------------------------
(***************************************************************************)
(* Journal entries of the back office (services/erpnext_writes.py): the    *)
(* voucher-type rules over an entry's lines, and the operations that       *)
(* create, change, submit and cancel entries.  The rules tell lines apart  *)
(* only by the kind of their account and the side they stand on, so the    *)
(* lines of an entry are the total of each.                                *)
(***************************************************************************)
EXTENDS Backend

CONSTANTS
  Vouchers,   \* the client ids entries are created under
  MaxAmount   \* bound on the total of one side

ASSUME JournalAssumption == MaxAmount \in Nat

VoucherTypes == {"Journal Entry", "Bank Entry", "Contra Entry"}

LineSets == [{"cash", "other"} \X {"debit", "credit"} -> 0..MaxAmount]

EntryDocs ==
  [status : {"draft", "posted", "cancelled"}, type : VoucherTypes, lines : LineSets]

ASSUME EntryAssumption == None \notin EntryDocs

VARIABLE voucher  \* the journal entry of each client id, or None

journalVars == voucher

JournalTypeOK == voucher \in [Vouchers -> {None} \cup EntryDocs]

JournalInit == voucher = [v \in Vouchers |-> None]

Sides(lines, kind) == {s \in {"debit", "credit"} : lines[<<kind, s>>] > 0}

-----------------------------------------------------------------------------
\* _validate_voucher_type_accounts
AccountsFit(type, lines) ==
  LET cash == Sides(lines, "cash")
      other == Sides(lines, "other")
  IN  /\ type = "Contra Entry" => other = {}
      /\ type = "Bank Entry" => Cardinality(cash) = 1 /\ cash # other
      /\ type = "Journal Entry" => cash = {}

\* _build_journal_entry_rows: the rules above, then the balance.
RowsFit(type, lines) ==
  /\ AccountsFit(type, lines)
  /\ lines[<<"cash", "debit">>] + lines[<<"other", "debit">>]
       = lines[<<"cash", "credit">>] + lines[<<"other", "credit">>]
  /\ Sides(lines, "cash") \cup Sides(lines, "other") = {"debit", "credit"}

Is(v, status) == voucher[v] # None /\ voucher[v].status = status

Entry(status, type, lines) == [status |-> status, type |-> type, lines |-> lines]

-----------------------------------------------------------------------------
\* create_journal_entry commits the draft and then tries to post it.
CreateEntry(r, v, type, lines) ==
  /\ voucher[v] = None /\ call[r] = Idle
  /\ RowsFit(type, lines)
  /\ voucher' = [voucher EXCEPT ![v] = Entry("draft", type, lines)]
  /\ Commit(r, [op |-> "submit", id |-> v], {})

\* _create_split_entry: cash and bank lines against one line of the party.
SplitEntry(r, v, side, amount) ==
  LET against == CHOOSE s \in {"debit", "credit"} : s # side
  IN  CreateEntry(r, v, "Bank Entry",
        [k \in {"cash", "other"} \X {"debit", "credit"} |->
           IF k \in {<<"cash", side>>, <<"other", against>>} THEN amount ELSE 0])

\* submit_journal_entry, and a create whose client id is taken.
LoadSubmitEntry(r, v) ==
  /\ Is(v, "draft")
  /\ Load(r, [op |-> "submit", id |-> v])
  /\ UNCHANGED voucher

LoadCancelEntry(r, v) ==
  /\ Is(v, "posted")
  /\ Load(r, [op |-> "cancel", id |-> v])
  /\ UNCHANGED voucher

\* update_journal_entry: what is not given stays as it was loaded, and the
\* result must fit whichever of the two was given.
LoadUpdateEntry(r, v, type, lines) ==
  /\ Is(v, "draft")
  /\ RowsFit(type, lines)
  /\ Load(r, [op |-> "update", id |-> v, type |-> type, lines |-> lines])
  /\ UNCHANGED voucher

\* delete_journal_entry looks whether it is a draft ...
LoadDeleteEntry(r, v) ==
  /\ Is(v, "draft")
  /\ Load(r, [op |-> "delete", id |-> v])
  /\ UNCHANGED voucher

Saved(cl) ==
  CASE cl.op = "submit" -> [voucher[cl.id] EXCEPT !.status = "posted"]
    [] cl.op = "cancel" -> [voucher[cl.id] EXCEPT !.status = "cancelled"]
    [] cl.op = "update" -> Entry("draft", cl.type, cl.lines)

\* Faulty: whatever was loaded is saved.
SaveBlindly(r) ==
  LET cl == call[r]
      v == cl.id
  IN  /\ cl.op \in {"submit", "cancel", "update"} /\ voucher[v] # None
      /\ voucher' = [voucher EXCEPT ![v] = Saved(cl)]
      /\ Done(r, {v})

\* The document is saved when nothing moved it since it was loaded.
SaveEntry(r) ==
  LET cl == call[r]
      v == cl.id
  IN  /\ cl.op \in {"submit", "cancel", "update"} /\ voucher[v] # None /\ Fresh(r, v)
      /\ voucher' = [voucher EXCEPT ![v] = Saved(cl)]
      /\ Done(r, {v})

\* ... and removes the row.
DeleteEntry(r) ==
  LET v == call[r].id
  IN  /\ call[r].op = "delete" /\ voucher[v] # None
      /\ SnapshotIsolation => Fresh(r, v)
      /\ voucher' = [voucher EXCEPT ![v] = None]
      /\ Done(r, {v})

\* A refused submit leaves the draft; any call may fail before it commits.
GiveUpJournal(r) ==
  /\ call[r] # Idle
  /\ Done(r, {})
  /\ UNCHANGED voucher

JournalNext ==
  \/ \E r \in Requests :
       \/ \E v \in Vouchers, type \in VoucherTypes, lines \in LineSets :
            CreateEntry(r, v, type, lines)
       \/ \E v \in Vouchers, side \in {"debit", "credit"}, amount \in 1..MaxAmount :
            SplitEntry(r, v, side, amount)
       \/ \E v \in Vouchers : LoadSubmitEntry(r, v)
       \/ \E v \in Vouchers : LoadCancelEntry(r, v)
       \/ \E v \in Vouchers, type \in VoucherTypes, lines \in LineSets :
            LoadUpdateEntry(r, v, type, lines)
       \/ \E v \in Vouchers : LoadDeleteEntry(r, v)
       \/ SaveEntry(r)
       \/ DeleteEntry(r)
       \/ GiveUpJournal(r)

JournalSpec ==
  BackendInit /\ JournalInit /\ [][JournalNext]_<<backendVars, journalVars>>

-----------------------------------------------------------------------------
\* A posted entry stands as it was posted, whoever else loaded its draft to change,
\* submit or delete it: it can only be cancelled, and then nothing moves it
\* (_require_draft, update_journal_entry, _delete_draft).
PostedEntryStands ==
  [][\A v \in Vouchers : voucher[v] # None /\ voucher[v].status # "draft" =>
       \/ voucher'[v] = voucher[v]
       \/ Is(v, "posted") /\ voucher'[v] = [voucher[v] EXCEPT !.status = "cancelled"]]_voucher

\* In a Bank Entry every line that is not Cash or Bank is on the other side than
\* those that are (docstring of _validate_voucher_type_accounts).
OppositeSides ==
  \A v \in Vouchers : voucher[v] # None /\ voucher[v].type = "Bank Entry" =>
    Sides(voucher[v].lines, "cash") \cap Sides(voucher[v].lines, "other") = {}
=============================================================================
