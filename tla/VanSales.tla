------------------------------- MODULE VanSales --------------------------------
(***************************************************************************)
(* Orders and invoices of the VanSaleX app: a sale from the van, or an     *)
(* order that is confirmed into an invoice later                           *)
(* (services/vansalex_service.py); purchases go the same two ways          *)
(* (services/vansalex_purchase_service.py).  The app queues its calls and  *)
(* sends each again until it is answered, under the id it made for it.     *)
(*                                                                         *)
(* A document is inserted and submitted in one transaction.  Submitting an *)
(* invoice makes ERPNext look for one that already bills the order and     *)
(* write what is billed on the order's rows.  Stock entries of the app are *)
(* made the same way, and known ones are acknowledged as they are.         *)
(***************************************************************************)
EXTENDS Backend

CONSTANTS
  VanUsers, VanAdmins,   \* who calls; admins may touch every document
  OrderIds, InvoiceIds,  \* client ids, of orders and of invoices,
  StockIds               \* and of stock entries

VARIABLES
  paper,  \* the document of each client id, or None
  told    \* <<user, id>> for each "ok" a user was given of a document that
          \* was not deleted since

vanVars == <<paper, told>>

PaperIds == OrderIds \cup InvoiceIds \cup StockIds

Paper ==
  [owner : VanUsers, status : {"draft", "posted", "cancelled"},
   order : OrderIds \cup {None}]

ASSUME PaperAssumption == None \notin Paper

VanTypeOK ==
  /\ paper \in [PaperIds -> {None} \cup Paper]
  /\ told \subseteq VanUsers \X PaperIds

VanInit ==
  /\ paper = [d \in PaperIds |-> None]
  /\ told = {}

Exists(d) == paper[d] # None

IsPosted(d) == Exists(d) /\ paper[d].status = "posted"

Billed(o) == \E d \in InvoiceIds : IsPosted(d) /\ paper[d].order = o

Tell(u, d) == told' = told \cup {<<u, d>>}

\* _check_client_id_owner: an id gives back the caller's own document only.
MayReplay(u, d) == u \in VanAdmins \/ paper[d].owner = u

Serve(op, u, d, o) == [op |-> op, by |-> u, id |-> d, order |-> o]

-----------------------------------------------------------------------------
\* create_sales_order, create_order, confirm_order and their purchase
\* counterparts, when the id is new to the caller.
LoadOrderPaper(r, u, d) ==
  /\ d \in OrderIds /\ ~Exists(d)
  /\ Load(r, Serve("post", u, d, None))
  /\ UNCHANGED vanVars

LoadSale(r, u, d) ==
  /\ d \in InvoiceIds /\ ~Exists(d)
  /\ Load(r, Serve("post", u, d, None))
  /\ UNCHANGED vanVars

LoadConfirm(r, u, d, o) ==
  /\ d \in InvoiceIds /\ ~Exists(d)
  /\ IsPosted(o) /\ MayReplay(u, o)
  /\ Load(r, Serve("post", u, d, o))
  /\ UNCHANGED vanVars

\* adjust_stock and transfer_stock: a receipt, an issue or a transfer.
LoadStock(r, u, d) ==
  /\ d \in StockIds /\ ~Exists(d)
  /\ Load(r, Serve("post", u, d, None))
  /\ UNCHANGED vanVars

\* The id is known: the replay goes on with the document found.
LoadReplay(r, u, d) ==
  /\ Exists(d) /\ MayReplay(u, d)
  /\ Load(r, Serve("replay", u, d, None))
  /\ UNCHANGED vanVars

\* ERPNext accepts the bill: nothing posted bills the order, and no row of the
\* order changed since the snapshot.
Billable(r, o) == o # None => ~Billed(o) /\ (SnapshotIsolation => Fresh(r, o))

RowsOf(d, o) == {d} \cup ({o} \ {None})

\* insert_idempotent, then submit_or_rollback.
Post(r) ==
  LET cl == call[r]
  IN  /\ cl.op = "post" /\ ~Exists(cl.id)
      /\ Billable(r, cl.order)
      /\ paper' = [paper EXCEPT ![cl.id] =
           [owner |-> cl.by, status |-> "posted", order |-> cl.order]]
      /\ Tell(cl.by, cl.id)
      /\ Done(r, RowsOf(cl.id, cl.order))

\* The id was taken since: the transaction is rolled back, and the call goes on
\* with the document it finds, as a replay, unless that is another user's.
LosePost(r) ==
  LET cl == call[r]
  IN  /\ cl.op = "post" /\ Exists(cl.id) /\ MayReplay(cl.by, cl.id)
      /\ Commit(r, Serve("replay", cl.by, cl.id, None), {})
      /\ UNCHANGED vanVars

\* Faulty: whatever is found is acknowledged.
ReplayAny(r) ==
  /\ call[r].op = "replay"
  /\ Tell(call[r].by, call[r].id)
  /\ Done(r, {})
  /\ UNCHANGED paper

\* _ensure_submitted_sales_invoice: what is posted is acknowledged, a draft is
\* posted now, what is cancelled is refused.  Whether a stock entry or a sales order
\* was cancelled is not looked at (of a purchase order it is: fewer answers).  An
\* answer speaks of the document as it was loaded.
Replay(r) ==
  LET cl == call[r]
      d == cl.id
  IN  /\ cl.op = "replay" /\ Exists(d) /\ Fresh(r, d)
      /\ \/ /\ paper[d].status # "draft"
            /\ IsPosted(d) \/ d \notin InvoiceIds
            /\ Done(r, {})
            /\ UNCHANGED paper
         \/ /\ paper[d].status = "draft"
            /\ Billable(r, paper[d].order)
            /\ paper' = [paper EXCEPT ![d].status = "posted"]
            /\ Done(r, RowsOf(d, paper[d].order))
      /\ Tell(cl.by, d)

\* A refused submit or a failed call leaves nothing behind.
GiveUpVan(r) ==
  /\ call[r].op \in {"post", "replay", "delete"}
  /\ Done(r, {})
  /\ UNCHANGED vanVars

-----------------------------------------------------------------------------
\* create_sales_invoice: the back office drafts an invoice under an id, for no order.
OfficeDraft(u, d) ==
  /\ d \in InvoiceIds /\ ~Exists(d)
  /\ paper' = [paper EXCEPT ![d] = [owner |-> u, status |-> "draft", order |-> None]]
  /\ UNCHANGED <<told, backendVars>>

\* delete_sales_invoice of a draft, or a deletion in Desk: of what is not posted,
\* and of no order that a document refers to which is not cancelled.
LoadDelete(r, d) ==
  /\ Exists(d) /\ ~IsPosted(d)
  /\ \A i \in InvoiceIds :
       Exists(i) /\ paper[i].order = d => paper[i].status = "cancelled"
  /\ Load(r, [op |-> "delete", id |-> d])
  /\ UNCHANGED vanVars

\* ... checks nothing again when it deletes the row.
Delete(r) ==
  LET d == call[r].id
  IN  /\ call[r].op = "delete" /\ Exists(d)
      /\ SnapshotIsolation => Fresh(r, d)
      /\ paper' = [paper EXCEPT ![d] = None]
      /\ told' = {t \in told : t[2] # d}
      /\ Done(r, {d})

\* submit_sales_invoice
DeskSubmit(d) ==
  /\ Exists(d) /\ paper[d].status = "draft"
  /\ paper' = [paper EXCEPT ![d].status = "posted"]
  /\ stale' = [r \in Requests |-> IF call[r] = Idle THEN {} ELSE stale[r] \cup {d}]
  /\ UNCHANGED <<told, call>>

\* Anyone with the right cancels a document, but no order with a posted invoice.
DeskCancel(d) ==
  /\ IsPosted(d)
  /\ d \in OrderIds => ~Billed(d)
  /\ paper' = [paper EXCEPT ![d].status = "cancelled"]
  /\ stale' = [r \in Requests |->
       IF call[r] = Idle THEN {} ELSE stale[r] \cup RowsOf(d, paper[d].order)]
  /\ UNCHANGED <<told, call>>

VanNext ==
  \/ \E r \in Requests :
       \/ \E u \in VanUsers, d \in PaperIds : LoadOrderPaper(r, u, d)
       \/ \E u \in VanUsers, d \in PaperIds : LoadSale(r, u, d)
       \/ \E u \in VanUsers, d \in PaperIds, o \in OrderIds : LoadConfirm(r, u, d, o)
       \/ \E u \in VanUsers, d \in PaperIds : LoadStock(r, u, d)
       \/ \E u \in VanUsers, d \in PaperIds : LoadReplay(r, u, d)
       \/ Post(r)
       \/ LosePost(r)
       \/ Replay(r)
       \/ GiveUpVan(r)
       \/ \E d \in PaperIds : LoadDelete(r, d)
       \/ Delete(r)
  \/ \E u \in VanUsers, d \in InvoiceIds : OfficeDraft(u, d)
  \/ \E d \in PaperIds : DeskSubmit(d)
  \/ \E d \in PaperIds : DeskCancel(d)

VanSpec == BackendInit /\ VanInit /\ [][VanNext]_<<backendVars, vanVars>>

-----------------------------------------------------------------------------
(* VanSales implements OneDocument: a document is made for its owner, to   *)
(* bill its order; it is complete when it is posted.                       *)
Purposes == [owner : VanUsers, order : OrderIds \cup {None}]

Purpose(d) == [owner |-> paper[d].owner, order |-> paper[d].order]

Papers == INSTANCE OneDocument WITH
  Ids <- PaperIds,
  Clients <- VanUsers,
  Contents <- Purposes,
  IsFor <- {t \in VanUsers \X Purposes : t[1] \in VanAdmins \cup {t[2].owner}},
  Deletable <- PaperIds,
  made <- [d \in PaperIds |-> IF Exists(d) THEN {Purpose(d)} ELSE {}],
  done <- {d \in PaperIds : Exists(d) /\ paper[d].status # "draft"},
  undone <- {d \in PaperIds : Exists(d) /\ paper[d].status = "cancelled"},
  told <- told

\* However calls under one id race, are lost, refused or replayed by several
\* users, and whatever the back office drafts, deletes and cancels in between: the
\* id stands for one document that keeps its owner and its order until it is
\* deleted, which no posted one is, and "ok" is said to its owner (or an admin)
\* once it is posted (insert_idempotent, _ensure_submitted_sales_invoice,
\* _check_client_id_owner and _delete_draft together).
PapersKeepTheirWord == Papers!PromiseSpec

\* Every id a user was told "ok" for stands for a document of that user that was
\* posted, through lost races and replays of drafts (only cancelling undoes it, and
\* then deleting).
ToldIsPosted ==
  \A t \in told :
    Exists(t[2]) /\ paper[t[2]].status # "draft" /\ MayReplay(t[1], t[2])
=============================================================================
