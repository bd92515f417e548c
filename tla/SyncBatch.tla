------------------------------- MODULE SyncBatch -------------------------------
(***************************************************************************)
(* Flushes of a van's outbox: api/v1/sync/batch.py with the customer and   *)
(* item operations it calls.  A batch is one request whose operations      *)
(* commit one by one, each behind a savepoint; a conflict or a failure     *)
(* commits nothing, so the next operation reads from the same snapshot.    *)
(***************************************************************************)
EXTENDS Backend

CONSTANTS
  Cids,     \* client ids of customers and items
  Items,    \* those of items
  Stocked,  \* those of items with an opening quantity
  MaxRev,   \* bound on the versions of a record
  MaxOps    \* operations of a batch

ASSUME SyncAssumption ==
  /\ Stocked \subseteq Items /\ Items \subseteq Cids /\ None \notin Cids
  /\ MaxRev \in Nat \ {0} /\ MaxOps \in Nat

VARIABLE record  \* the Customer or Item with each zatgo_client_id

syncVars == <<record>>

\* rev: its `modified`.  whole: it has its contact, address and images.
RecordDoc == [rev : 1..MaxRev, whole : BOOLEAN]

ASSUME RecordAssumption == None \notin RecordDoc

SyncTypeOK == record \in [Cids -> RecordDoc \cup {None}]

SyncInit == record = [c \in Cids |-> None]

\* Between two operations: seen is the snapshot, left what may still come.
Between(seen, left) == [op |-> "sync", seen |-> seen, left |-> left]

LoadBatch(r) ==
  /\ Load(r, Between(record, MaxOps))
  /\ UNCHANGED record

\* Faulty: the last write wins.
ConflictNever(kind, base, rev) == FALSE

\* The server's copy is newer than the one the client says it edited.
Conflict(kind, base, rev) == kind # "create" /\ base # None /\ rev > base

\* The next operation of the batch, up to the first write.  A create of a
\* client id that exists is an update; an update of one that does not, a
\* create.  base is None under `force`, too, and nobody asks for it on a create.
\* What is answered right here (a conflict, a delete of nothing, a refused
\* payload, a duplicate mobile number or barcode) leaves no trace.
BeginOp(r, c, kind, base) ==
  /\ call[r].op = "sync" /\ call[r].left > 0
  /\ kind = "create" => base = None
  /\ LET doc == call[r].seen[c]
     IN /\ IF doc = None THEN kind # "delete" ELSE ~Conflict(kind, base, doc.rev)
        /\ call' = [call EXCEPT ![r] =
             [op |-> IF doc = None THEN "insert" ELSE "save", c |-> c, kind |-> kind,
              base |-> base, seen |-> call[r].seen, left |-> call[r].left - 1]]
  /\ UNCHANGED <<stale, record>>

CustomerOp(r, c, kind, base) == c \notin Items /\ BeginOp(r, c, kind, base)
ItemOp(r, c, kind, base) == c \in Items /\ BeginOp(r, c, kind, base)

\* The record of r's operation becomes doc, and the batch goes on.
Stored(r, doc, saved) ==
  /\ record' = [record EXCEPT ![call[r].c] = doc]
  /\ Commit(r, Between(record', call[r].left), saved)

\* Faulty: the customer is committed before its contact and address.
InsertInParts(r) ==
  /\ call[r].op = "insert" /\ call[r].c \notin Items
  /\ LET c == call[r].c
     IN /\ record[c] = None
        /\ record' = [record EXCEPT ![c] = [rev |-> 1, whole |-> FALSE]]
        /\ Commit(r, [call[r] EXCEPT !.op = "images"], {c})

\* sync_customer_bundle: the customer, its contact, its address and its
\* attachments.  The unique client id lets one insert through.
InsertCustomer(r) ==
  /\ call[r].op = "insert" /\ call[r].c \notin Items
  /\ record[call[r].c] = None
  /\ Stored(r, [rev |-> 1, whole |-> TRUE], {call[r].c})

\* sync_item_bundle: the item, its price, its opening stock and its images.
\* adjust_stock commits the opening stock, and the item with it, before the
\* images are saved.
InsertItem(r) ==
  /\ call[r].op = "insert" /\ call[r].c \in Items
  /\ LET c == call[r].c
     IN /\ record[c] = None
        /\ record' = [record EXCEPT ![c] = [rev |-> 1, whole |-> c \notin Stocked]]
        /\ Commit(r, IF c \in Stocked THEN [call[r] EXCEPT !.op = "images"]
                     ELSE Between(record', call[r].left), {c})

\* _save_attachment, for the image and the gallery.
SaveImages(r) ==
  /\ call[r].op = "images"
  /\ Stored(r, [record[call[r].c] EXCEPT !.whole = TRUE], {})

\* doc.save(): the next version of the record, unless someone else saved it.
Saved(r, whole) ==
  LET c == call[r].c
  IN /\ Fresh(r, c)
     /\ record[c].rev < MaxRev
     /\ Stored(r, [rev |-> record[c].rev + 1, whole |-> whole], {c})

\* An update of a customer, with the contact, the address and the attachments
\* the payload brings, in one commit.
SaveCustomer(r) ==
  /\ call[r].op = "save" /\ call[r].kind # "delete" /\ call[r].c \notin Items
  /\ Saved(r, TRUE)

\* An update of an item, which may bring its images.
SaveItem(r) ==
  /\ call[r].op = "save" /\ call[r].kind # "delete" /\ call[r].c \in Items
  /\ \E whole \in {record[call[r].c].whole, TRUE} : Saved(r, whole)

\* A delete disables.
Disable(r) ==
  /\ call[r].op = "save" /\ call[r].kind = "delete"
  /\ Saved(r, record[call[r].c].whole)

\* An update that brings attachments and no field: the document is not saved
\* and its `modified` stays, so only the database can refuse it.
SaveAttachments(r) ==
  /\ call[r].op = "save" /\ call[r].kind # "delete"
  /\ SnapshotIsolation => Fresh(r, call[r].c)
  /\ Stored(r, [record[call[r].c] EXCEPT !.whole = TRUE], {})

\* An operation fails: rollback to its savepoint, and on to the next one.  A
\* commit in mid-operation has destroyed the savepoint; the batch ends there.
FailOp(r) ==
  /\ call[r].op \in {"insert", "save", "images"}
  /\ IF call[r].op = "images"
       THEN Done(r, {})
       ELSE /\ call' = [call EXCEPT ![r] = Between(@.seen, @.left)]
            /\ UNCHANGED stale
  /\ UNCHANGED record

\* The batch is answered, or its worker dies.
EndBatch(r) ==
  /\ call[r] # Idle
  /\ Done(r, {})
  /\ UNCHANGED record

\* Someone saves the record in Desk.
DeskEdit(c) ==
  /\ record[c] # None /\ record[c].rev < MaxRev
  /\ record' = [record EXCEPT ![c].rev = @ + 1]
  /\ stale' = [q \in Requests |-> IF call[q] = Idle THEN {} ELSE stale[q] \cup {c}]
  /\ UNCHANGED call

SyncNext ==
  \/ \E r \in Requests :
       \/ LoadBatch(r) \/ InsertCustomer(r) \/ InsertItem(r) \/ SaveImages(r)
       \/ SaveCustomer(r) \/ SaveItem(r) \/ Disable(r) \/ SaveAttachments(r)
       \/ FailOp(r) \/ EndBatch(r)
       \/ \E c \in Cids, kind \in {"create", "update", "delete"},
             base \in 1..MaxRev \cup {None} :
            /\ base # None => record[c] # None /\ base <= record[c].rev
            /\ CustomerOp(r, c, kind, base) \/ ItemOp(r, c, kind, base)
  \/ \E c \in Cids : DeskEdit(c)

SyncSpec == BackendInit /\ SyncInit /\ [][SyncNext]_<<backendVars, syncVars>>

-----------------------------------------------------------------------------
(* Properties.                                                             *)

\* r saves a new version of c in this step.
Saves(r, c) ==
  /\ call[r].op = "save" /\ call[r].c = c
  /\ call'[r] # call[r] /\ record'[c].rev # record[c].rev

\* An update or a delete replaces the version its client edited and no newer
\* one, although the look at `modified`, the savepoints of the operations
\* before it and its own save are apart (_conflict_response).
NoLostUpdate ==
  [][\A r \in Requests, c \in Cids :
       Saves(r, c) /\ call[r].kind # "create" /\ call[r].base # None
         => record[c].rev = call[r].base]_record

\* A record that is committed has its contact, address and images, whichever
\* operation of its batch fails; items with opening stock excepted, which
\* adjust_stock commits first (batch.py, the comment on savepoints).
StoredWhole ==
  \A c \in Cids \ Stocked : record[c] # None => record[c].whole
=============================================================================
