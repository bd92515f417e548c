---------------------------- MODULE RestoCheckout ----------------------------
(***************************************************************************)
(* The Resto POS: orders, floor tables, kitchen tickets and the checkout   *)
(* of services/resto_pos_service.py, as concurrent HTTP requests over one  *)
(* MariaDB database.                                                       *)
(*                                                                         *)
(* A request is a sequence of database transactions.  Ordinary reads of a  *)
(* transaction see the snapshot taken at its first read, a FOR UPDATE read *)
(* the latest committed row.  Document.save() re-reads the row under its   *)
(* lock, refuses it when `modified` has moved since the load, and writes   *)
(* EVERY column; db.set_value(update_modified=False) writes one column and *)
(* leaves `modified` alone.  With SnapshotIsolation (MariaDB's             *)
(* innodb_snapshot_isolation) a locking access to a row that another       *)
(* transaction committed after the snapshot fails with error 1020.         *)
(*                                                                         *)
(* Every refusal of the code - a guard, a TimestampMismatchError, error    *)
(* 1020, a failed submit, a replayed acknowledgement - ends the request    *)
(* without writing, as does a killed worker: all are the action EndRequest *)
(***************************************************************************)
EXTENDS Naturals, FiniteSets

CONSTANTS
  Orders,            \* names of ZG Order documents, one per create client_id
  DeliveryOrders,    \* the orders placed on channel "Delivery"
  CustomerOf,        \* the customer an order names (or the walk-in customer)
  Customers,
  KnownCustomers,    \* the Customer records that exist from the start
  Tables,            \* names of ZG Table documents
  TablesOf,          \* the tables (None: no table) that clients send with the
                     \* client_id of an order, in all requests that carry it
  Rows,              \* item rows an order may hold
  MaxQty,            \* bound on a row's quantity
  ClientIds,         \* client_ids of checkouts; also names what they create
  KeysOf,            \* the client_ids the clients use to pay an order
  Requests,          \* concurrent HTTP requests
  SnapshotIsolation, \* innodb_snapshot_isolation is ON
  None

ASSUME ConstantsAssumption ==
  /\ MaxQty \in Nat
  /\ DeliveryOrders \subseteq Orders
  /\ CustomerOf \in [Orders -> Customers]
  /\ KnownCustomers \subseteq Customers
  /\ TablesOf \in [Orders -> SUBSET (Tables \cup {None})]
  /\ KeysOf \in [Orders -> SUBSET ClientIds]
  /\ SnapshotIsolation \in BOOLEAN

ASSUME NoneAssumption ==
  None \notin Orders \cup Tables \cup ClientIds \cup Requests

\* Documents of the three kinds never share a name.
ASSUME NamesAssumption ==
  /\ Orders \cap Tables = {}
  /\ Orders \cap ClientIds = {}
  /\ Tables \cap ClientIds = {}

VARIABLES
  order,      \* ZG Order rows, committed
  table,      \* ZG Table rows, committed
  ticket,     \* how many ZG KDS Tickets each order row has
  invoice,    \* Sales Invoices, by the client_id they are keyed on
  payment,    \* Payment Entries, by the client_id c of their key "c:pay"
  customers,  \* Customer records, committed
  lock,       \* the request that holds the row lock of an order
  pc,         \* where each request is
  job,        \* what each request was asked to do
  doc,        \* the ZG Order document a request has loaded
  tdoc,       \* the ZG Table document a request has loaded
  view,       \* the snapshot of the request's transaction, None before a read
  bumped,     \* documents whose `modified` moved since the request's loads
  touched     \* rows others committed since the transaction's snapshot, which
              \* SnapshotIsolation refuses to lock

database == <<order, table, ticket, invoice, payment, customers>>
vars == <<order, table, ticket, invoice, payment, customers, lock,
          pc, job, doc, tdoc, view, bumped, touched>>

-----------------------------------------------------------------------------
Docs == Orders \cup Tables \cup ClientIds

OrderStatus == {"Absent", "Open", "Sent", "Paid", "Void"}
OrderDoc == [status : OrderStatus, table : Tables \cup {None},
             items : [Rows -> 0..MaxQty], synced : SUBSET Rows,
             inv : ClientIds \cup {None}, pay : ClientIds \cup {None}]
NoOrder == [status |-> "Absent", table |-> None, items |-> [i \in Rows |-> 0],
            synced |-> {}, inv |-> None, pay |-> None]

TableStatus == {"Free", "Occupied", "Billing"}
TableDoc == [status : TableStatus, current : Orders \cup {None}]
FreeTable == [status |-> "Free", current |-> None]

\* docstatus: 0 no such document, 1 submitted, 2 cancelled
InvoiceDoc == [docstatus : 0..2, order : Orders \cup {None},
               lines : [Rows -> 0..MaxQty], paid : Nat]
NoInvoice == [docstatus |-> 0, order |-> None,
              lines |-> [i \in Rows |-> 0], paid |-> 0]
PaymentDoc == [docstatus : 0..2, inv : ClientIds \cup {None}]
NoPayment == [docstatus |-> 0, inv |-> None]

OrderOps == {"add_item", "update_item_qty", "set_note", "send_order",
             "void_order", "mark_billing"}
PCs == {"idle", "ready", "lock", "customer", "invoice", "relink", "entry",
        "save"}
Job == [op : OrderOps \cup {"none", "create_order", "set_table_status", "pay"},
        o : Orders \cup {None}, t : Tables \cup {None},
        c : ClientIds \cup {None}, cod : BOOLEAN]
NoJob == [op |-> "none", o |-> None, t |-> None, c |-> None, cod |-> FALSE]

View == [invoice : [ClientIds -> InvoiceDoc],
         payment : [ClientIds -> PaymentDoc], customers : SUBSET Customers]

ASSUME ViewAssumption == None \notin View

TypeOK ==
  /\ order \in [Orders -> OrderDoc]
  /\ table \in [Tables -> TableDoc]
  /\ ticket \in [Orders -> [Rows -> Nat]]
  /\ invoice \in [ClientIds -> InvoiceDoc]
  /\ payment \in [ClientIds -> PaymentDoc]
  /\ customers \in SUBSET Customers
  /\ lock \in [Orders -> Requests \cup {None}]
  /\ pc \in [Requests -> PCs]
  /\ job \in [Requests -> Job]
  /\ doc \in [Requests -> OrderDoc]
  /\ tdoc \in [Requests -> TableDoc]
  /\ view \in [Requests -> View \cup {None}]
  /\ bumped \in [Requests -> SUBSET Docs]
  /\ touched \in [Requests -> SUBSET Docs]

Init ==
  /\ order = [o \in Orders |-> NoOrder]
  /\ table = [t \in Tables |-> FreeTable]
  /\ ticket = [o \in Orders |-> [i \in Rows |-> 0]]
  /\ invoice = [c \in ClientIds |-> NoInvoice]
  /\ payment = [c \in ClientIds |-> NoPayment]
  /\ customers = KnownCustomers
  /\ lock = [o \in Orders |-> None]
  /\ pc = [r \in Requests |-> "idle"]
  /\ job = [r \in Requests |-> NoJob]
  /\ doc = [r \in Requests |-> NoOrder]
  /\ tdoc = [r \in Requests |-> FreeTable]
  /\ view = [r \in Requests |-> None]
  /\ bumped = [r \in Requests |-> {}]
  /\ touched = [r \in Requests |-> {}]

-----------------------------------------------------------------------------
(* Transactions.                                                           *)

Snapshot == [invoice |-> invoice, payment |-> payment, customers |-> customers]

Live(r) == pc[r] # "idle"

\* Request r can take, or already holds, the row lock of order o.
CanLock(r, o) == lock[o] \in {r, None}

Unlocked(r) == [o \in Orders |-> IF lock[o] = r THEN None ELSE lock[o]]

\* A locking access of r to row d is not refused with error 1020.
NoConflict(r, d) == d \notin touched[r]

\* Document.save() of d by r is accepted: same `modified`, no error 1020.
CanSave(r, d) == d \notin bumped[r] /\ NoConflict(r, d)

\* The documents a live request may still lock or save.
Uses(q) ==
  IF ~Live(q) THEN {}
  ELSE {job[q].o, job[q].t} \cup
       IF job[q].op = "pay" THEN KeysOf[job[q].o] ELSE {}

\* What the other requests meet after a transaction of r saved the documents
\* `saved`, or wrote the rows `written`.
Bump(r, saved) ==
  [q \in Requests |->
     IF q = r THEN bumped[q] ELSE bumped[q] \cup (saved \cap Uses(q))]
Touch(r, written) ==
  [q \in Requests |->
     IF q = r \/ ~SnapshotIsolation THEN {}
     ELSE touched[q] \cup (written \cap Uses(q))]

\* r commits in mid-request: locks are gone, the next read takes a snapshot.
CommitAndGoOn(r, written, next) ==
  /\ lock' = Unlocked(r)
  /\ pc' = [pc EXCEPT ![r] = next]
  /\ view' = [view EXCEPT ![r] = None]
  /\ touched' = Touch(r, written)
  /\ UNCHANGED <<job, tdoc, bumped>>

\* r commits (or, with nothing saved, rolls back) and its request is over.
CommitAndReturn(r, saved) ==
  /\ lock' = Unlocked(r)
  /\ pc' = [pc EXCEPT ![r] = "idle"]
  /\ job' = [job EXCEPT ![r] = NoJob]
  /\ doc' = [doc EXCEPT ![r] = NoOrder]
  /\ tdoc' = [tdoc EXCEPT ![r] = FreeTable]
  /\ view' = [view EXCEPT ![r] = None]
  /\ bumped' = [Bump(r, saved) EXCEPT ![r] = {}]
  /\ touched' = Touch(r, saved)

EndRequest(r) ==
  /\ Live(r)
  /\ CommitAndReturn(r, {})
  /\ UNCHANGED database

\* The first read after a commit or a rollback takes the new snapshot.
FirstRead(r) ==
  /\ Live(r)
  /\ view[r] = None
  /\ view' = [view EXCEPT ![r] = Snapshot]
  /\ touched' = [touched EXCEPT ![r] = {}]
  /\ UNCHANGED <<order, table, ticket, invoice, payment, customers, lock, pc,
                 job, doc, tdoc, bumped>>

\* A request arrives and loads the documents it works on.
Arrive(r, at, j) ==
  /\ pc[r] = "idle"
  /\ pc' = [pc EXCEPT ![r] = at]
  /\ job' = [job EXCEPT ![r] = j]
  /\ doc' = [doc EXCEPT ![r] = IF j.o = None THEN NoOrder ELSE order[j.o]]
  /\ tdoc' = [tdoc EXCEPT ![r] = IF j.t = None THEN FreeTable ELSE table[j.t]]
  /\ view' = [view EXCEPT ![r] = Snapshot]
  /\ UNCHANGED <<order, table, ticket, invoice, payment, customers, lock,
                 bumped, touched>>

-----------------------------------------------------------------------------
(* Orders and tables.                                                      *)

LoadCreate(r) ==
  \E o \in Orders : \E t \in TablesOf[o] :
    /\ order[o].status = "Absent"  \* else the earlier order is acknowledged
    /\ Arrive(r, "ready", [NoJob EXCEPT !.op = "create_order", !.o = o, !.t = t])

CreateOrder(r) ==
  LET o == job[r].o
      t == job[r].t
  IN /\ pc[r] = "ready"
     /\ job[r].op = "create_order"
     /\ order[o].status = "Absent"
     /\ t # None => CanSave(r, t)
     /\ \E items \in [Rows -> 0..MaxQty] :
          order' = [order EXCEPT ![o] =
                      [NoOrder EXCEPT !.status = "Open", !.table = t,
                                      !.items = items]]
     /\ table' = IF t = None THEN table
                 ELSE [table EXCEPT ![t] =
                         [status |-> "Occupied", current |-> o]]
     /\ CommitAndReturn(r, {o} \cup ({t} \ {None}))
     /\ UNCHANGED <<ticket, invoice, payment, customers>>

\* table_doc.save() and the commit of request r.  A table is only ever written
\* by a save, so error 1020 never refuses what `modified` would not.
SaveTable(r, d) ==
  /\ CanSave(r, job[r].t)
  /\ table' = [table EXCEPT ![job[r].t] = d]
  /\ CommitAndReturn(r, {job[r].t})
  /\ UNCHANGED <<order, ticket, invoice, payment, customers>>

\* Another request committed the same client_id first: insert_idempotent rolls
\* back and returns the winner's order, which is seated at THIS request's table
\* (a request without a table writes nothing: EndRequest).
LoseCreate(r) ==
  /\ pc[r] = "ready"
  /\ job[r].op = "create_order"
  /\ order[job[r].o].status # "Absent"
  /\ job[r].t # None
  /\ SaveTable(r, [status |-> "Occupied", current |-> job[r].o])

LoadOrder(r) ==
  \E op \in OrderOps, o \in Orders :
    /\ order[o].status # "Absent"
    /\ Arrive(r, "ready",
              [NoJob EXCEPT !.op = op, !.o = o, !.t = order[o].table])

Changeable(d) == d.status \notin {"Paid", "Void"}

\* doc.save() and the commit of request r, which has made d of its document.
SaveOrder(r, d) ==
  /\ CanLock(r, job[r].o)
  /\ CanSave(r, job[r].o)
  /\ order' = [order EXCEPT ![job[r].o] = d]
  /\ CommitAndReturn(r, {job[r].o})
  /\ UNCHANGED <<table, invoice, payment, customers>>

\* Faulty: the refusal of paid and void orders is forgotten.
AddItemUnguarded(r) ==
  /\ pc[r] = "ready"
  /\ job[r].op = "add_item"
  /\ \E i \in Rows, q \in 1..MaxQty :
       /\ doc[r].items[i] = 0
       /\ SaveOrder(r, [doc[r] EXCEPT !.items[i] = q])
  /\ UNCHANGED ticket

AddItem(r) ==
  /\ pc[r] = "ready"
  /\ job[r].op = "add_item"
  /\ Changeable(doc[r])
  /\ \E i \in Rows, q \in 1..MaxQty :
       /\ doc[r].items[i] = 0
       /\ SaveOrder(r, [doc[r] EXCEPT !.items[i] = q])
  /\ UNCHANGED ticket

UpdateItemQty(r) ==
  /\ pc[r] = "ready"
  /\ job[r].op = "update_item_qty"
  /\ Changeable(doc[r])
  /\ \E i \in Rows, q \in 1..MaxQty :
       /\ doc[r].items[i] > 0
       /\ SaveOrder(r, [doc[r] EXCEPT !.items[i] = q])
  /\ UNCHANGED ticket

\* The note itself is not modelled; the save is, on an order of any status.
SetNote(r) ==
  /\ pc[r] = "ready"
  /\ job[r].op = "set_note"
  /\ SaveOrder(r, doc[r])
  /\ UNCHANGED ticket

Ordered(d) == {i \in Rows : d.items[i] > 0}

\* Faulty: the rows are not flagged kds_synced.
SendOrderUnflagged(r) ==
  LET o == job[r].o
      due == Ordered(doc[r]) \ doc[r].synced
  IN /\ pc[r] = "ready"
     /\ job[r].op = "send_order"
     /\ Changeable(doc[r])
     /\ Ordered(doc[r]) # {}
     /\ ticket' = [ticket EXCEPT ![o] =
                     [i \in Rows |-> IF i \in due THEN ticket[o][i] + 1
                                     ELSE ticket[o][i]]]
     /\ SaveOrder(r, [doc[r] EXCEPT !.status = "Sent"])

\* One kitchen ticket for each row that has none yet.
SendOrder(r) ==
  LET o == job[r].o
      due == Ordered(doc[r]) \ doc[r].synced
  IN /\ pc[r] = "ready"
     /\ job[r].op = "send_order"
     /\ Changeable(doc[r])
     /\ Ordered(doc[r]) # {}
     /\ ticket' = [ticket EXCEPT ![o] =
                     [i \in Rows |-> IF i \in due THEN ticket[o][i] + 1
                                     ELSE ticket[o][i]]]
     /\ SaveOrder(r, [doc[r] EXCEPT !.status = "Sent",
                                    !.synced = doc[r].synced \cup due])

\* The save of a void order, which empties its table to `left` when it frees
\* it.
SaveVoid(r, frees, left) ==
  LET o == job[r].o
      t == job[r].t
  IN /\ CanLock(r, o)
     /\ CanSave(r, o)
     /\ frees => CanSave(r, t)
     /\ order' = [order EXCEPT ![o] = [doc[r] EXCEPT !.status = "Void"]]
     /\ table' = IF frees THEN [table EXCEPT ![t] = left] ELSE table
     /\ CommitAndReturn(r, IF frees THEN {o, t} ELSE {o})
     /\ UNCHANGED <<ticket, invoice, payment, customers>>

Voidable(r) ==
  /\ pc[r] = "ready"
  /\ job[r].op = "void_order"
  /\ Changeable(doc[r])

\* The invoice the document names is not posted.
NotPosted(r) ==
  doc[r].inv # None => view[r].invoice[doc[r].inv].docstatus # 1

\* The table, as loaded, still serves the order of the request.
ServesIt(r) == job[r].t # None /\ tdoc[r].current = job[r].o

\* Faulty: the posted invoice is not looked at.
VoidOrderUnchecked(r) ==
  /\ Voidable(r)
  /\ SaveVoid(r, ServesIt(r), FreeTable)

\* Faulty: current_order is left on the freed table.
VoidOrderKeepsLink(r) ==
  /\ Voidable(r)
  /\ NotPosted(r)
  /\ SaveVoid(r, ServesIt(r), [tdoc[r] EXCEPT !.status = "Free"])

\* Refused while the invoice is posted; frees the table only when it still
\* serves this order.
VoidOrder(r) ==
  /\ Voidable(r)
  /\ NotPosted(r)
  /\ SaveVoid(r, ServesIt(r), FreeTable)

\* Whatever order the table serves by now, and whatever became of this one.
MarkBilling(r) ==
  /\ pc[r] = "ready"
  /\ job[r].op = "mark_billing"
  /\ job[r].t # None
  /\ SaveTable(r, [tdoc[r] EXCEPT !.status = "Billing"])

LoadTable(r) ==
  \E t \in Tables :
    Arrive(r, "ready", [NoJob EXCEPT !.op = "set_table_status", !.t = t])

SetTableStatus(r) ==
  /\ pc[r] = "ready"
  /\ job[r].op = "set_table_status"
  /\ \E s \in TableStatus :
       SaveTable(r, IF s = "Free" THEN FreeTable
                    ELSE [tdoc[r] EXCEPT !.status = s])

-----------------------------------------------------------------------------
(* Checkout: pay().  Cash on delivery (job.cod) records no payment: the    *)
(* courier settles the invoice.                                            *)

LoadPay(r) ==
  \E o \in Orders, cod \in BOOLEAN : \E c \in KeysOf[o] :
    /\ order[o].status # "Absent"
    /\ cod => o \in DeliveryOrders
    /\ Arrive(r, "lock", [NoJob EXCEPT !.op = "pay", !.o = o, !.c = c,
                                       !.cod = cod])

\* Where checkout goes on once the invoice is known.
AfterInvoice(j) == IF j.cod THEN "save" ELSE "entry"

\* The locking read of sales_invoice, payment_entry and status; the rest of
\* the document, its items among it, stays as loaded.
LockOrder(r) ==
  LET o == job[r].o
  IN /\ pc[r] = "lock"
     /\ lock[o] = None
     /\ NoConflict(r, o)
     /\ ~(order[o].status = "Paid" /\ order[o].inv # None)
     /\ order[o].status # "Void"
     /\ Ordered(doc[r]) # {}
     /\ lock' = [lock EXCEPT ![o] = r]
     /\ doc' = [doc EXCEPT ![r].inv = order[o].inv, ![r].pay = order[o].pay,
                           ![r].status = order[o].status]
     /\ pc' = [pc EXCEPT ![r] = "customer"]
     /\ UNCHANGED <<order, table, ticket, invoice, payment, customers, job,
                    tdoc, view, bumped, touched>>

\* Faulty: also a customer found on file is saved with a commit.
ResolveCustomerCommits(r) ==
  LET x == CustomerOf[job[r].o]
      next == IF doc[r].inv = None THEN "invoice" ELSE AfterInvoice(job[r])
  IN /\ pc[r] = "customer"
     /\ customers' = customers \cup {x}
     /\ CommitAndGoOn(r, {}, next)
     /\ UNCHANGED <<order, table, ticket, invoice, payment, doc>>

\* Faulty: an order that is paid on delivery is closed right away.
ResolveCustomerCloses(r) ==
  LET x == CustomerOf[job[r].o]
  IN /\ pc[r] = "customer"
     /\ x \in view[r].customers
     /\ pc' = [pc EXCEPT ![r] = IF job[r].cod THEN "save"
                               ELSE IF doc[r].inv = None THEN "invoice"
                               ELSE "entry"]
     /\ UNCHANGED <<customers, lock, job, tdoc, view, bumped, touched>>
     /\ UNCHANGED <<order, table, ticket, invoice, payment, doc>>

\* A customer not on file yet is created by create_customer, which commits.
ResolveCustomer(r) ==
  LET x == CustomerOf[job[r].o]
      next == IF doc[r].inv = None THEN "invoice" ELSE AfterInvoice(job[r])
  IN /\ pc[r] = "customer"
     /\ \/ /\ x \in view[r].customers
           /\ pc' = [pc EXCEPT ![r] = next]
           /\ UNCHANGED <<customers, lock, job, tdoc, view, bumped, touched>>
        \/ /\ x \notin view[r].customers
           /\ customers' = customers \cup {x}
           /\ CommitAndGoOn(r, {}, next)
     /\ UNCHANGED <<order, table, ticket, invoice, payment, doc>>

\* Faulty: the link is left to the save at the end of pay().
PostInvoiceUnlinked(r) ==
  LET o == job[r].o
      c == job[r].c
  IN /\ pc[r] = "invoice"
     /\ view[r] # None
     /\ invoice[c].docstatus = 0
     /\ invoice' = [invoice EXCEPT ![c] =
                      [docstatus |-> 1, order |-> o, lines |-> doc[r].items,
                       paid |-> 0]]
     /\ doc' = [doc EXCEPT ![r].inv = c]
     /\ CommitAndGoOn(r, {c}, AfterInvoice(job[r]))
     /\ UNCHANGED <<order, table, ticket, payment, customers>>

\* Insert and submit the invoice and link it to the order, in one commit.
PostInvoice(r) ==
  LET o == job[r].o
      c == job[r].c
  IN /\ pc[r] = "invoice"
     /\ view[r] # None
     /\ invoice[c].docstatus = 0
     /\ CanLock(r, o)
     /\ NoConflict(r, o)
     /\ invoice' = [invoice EXCEPT ![c] =
                      [docstatus |-> 1, order |-> o, lines |-> doc[r].items,
                       paid |-> 0]]
     /\ order' = [order EXCEPT ![o].inv = c]
     /\ doc' = [doc EXCEPT ![r].inv = c]
     /\ CommitAndGoOn(r, {o, c}, AfterInvoice(job[r]))
     /\ UNCHANGED <<table, ticket, payment, customers>>

\* The insert meets an invoice of the same client_id and rolls back, which
\* also lets the order's lock go.
InvoiceExists(r) ==
  /\ pc[r] = "invoice"
  /\ view[r] # None
  /\ invoice[job[r].c].docstatus # 0
  /\ CommitAndGoOn(r, {}, "relink")
  /\ UNCHANGED <<order, table, ticket, invoice, payment, customers, doc>>

\* ... and the order is linked to the invoice found instead.
RelinkInvoice(r) ==
  LET o == job[r].o
      c == job[r].c
  IN /\ pc[r] = "relink"
     /\ view[r] # None
     /\ view[r].invoice[c].docstatus = 1
     /\ CanLock(r, o)
     /\ NoConflict(r, o)
     /\ order' = [order EXCEPT ![o].inv = c]
     /\ doc' = [doc EXCEPT ![r].inv = c]
     /\ CommitAndGoOn(r, {o}, AfterInvoice(job[r]))
     /\ UNCHANGED <<table, ticket, invoice, payment, customers>>

\* find_by_client_id knows the payment already, whatever its docstatus.
PaymentFound(r) ==
  LET c == job[r].c
  IN /\ pc[r] = "entry"
     /\ view[r] # None
     /\ view[r].payment[c].docstatus # 0
     /\ doc' = [doc EXCEPT ![r].pay = c]
     /\ pc' = [pc EXCEPT ![r] = "save"]
     /\ UNCHANGED <<order, table, ticket, invoice, payment, customers, lock,
                    job, tdoc, view, bumped, touched>>

\* Faulty: the entry is built for the grand total, not the outstanding amount.
OwesTotal(v, si) == v.invoice[si].docstatus = 1

\* get_payment_entry builds one for what the invoice still owes (in this
\* transaction's snapshot) and ERPNext refuses one of zero.
Owes(v, si) == v.invoice[si].docstatus = 1 /\ v.invoice[si].paid = 0

PostPayment(r) ==
  LET c == job[r].c
      si == doc[r].inv
  IN /\ pc[r] = "entry"
     /\ view[r] # None
     /\ view[r].payment[c].docstatus = 0
     /\ Owes(view[r], si)
     /\ payment[c].docstatus = 0
     /\ NoConflict(r, si)
     /\ payment' = [payment EXCEPT ![c] = [docstatus |-> 1, inv |-> si]]
     /\ invoice' = [invoice EXCEPT ![si].paid = @ + 1]
     /\ doc' = [doc EXCEPT ![r].pay = c]
     /\ CommitAndGoOn(r, {si}, "save")
     /\ UNCHANGED <<order, table, ticket, customers>>

\* A concurrent retry of the same client_id won: roll back, use its payment.
PaymentExists(r) ==
  LET c == job[r].c
  IN /\ pc[r] = "entry"
     /\ view[r] # None
     /\ view[r].payment[c].docstatus = 0
     /\ Owes(view[r], doc[r].inv)
     /\ payment[c].docstatus = 1
     /\ doc' = [doc EXCEPT ![r].pay = c]
     /\ CommitAndGoOn(r, {}, "save")
     /\ UNCHANGED <<order, table, ticket, invoice, payment, customers>>

SavePaid(r) ==
  /\ pc[r] = "save"
  /\ view[r] # None
  /\ SaveOrder(r, [doc[r] EXCEPT !.status = "Paid"])
  /\ UNCHANGED ticket

\* The accounting flow cancels an invoice; before_cancel cancels the payments
\* made for it.
CancelInvoice(c) ==
  /\ invoice[c].docstatus = 1
  /\ invoice' = [invoice EXCEPT ![c].docstatus = 2, ![c].paid = 0]
  /\ payment' = [k \in ClientIds |->
                   IF payment[k].inv = c /\ payment[k].docstatus = 1
                     THEN [payment[k] EXCEPT !.docstatus = 2] ELSE payment[k]]
  /\ touched' = [q \in Requests |->
                   IF SnapshotIsolation THEN touched[q] \cup ({c} \cap Uses(q))
                   ELSE {}]
  /\ UNCHANGED <<order, table, ticket, customers, lock, pc, job, doc, tdoc,
                 view, bumped>>

-----------------------------------------------------------------------------
Next ==
  \/ \E r \in Requests :
       \/ LoadCreate(r) \/ CreateOrder(r) \/ LoseCreate(r)
       \/ LoadOrder(r) \/ AddItem(r) \/ UpdateItemQty(r) \/ SetNote(r)
       \/ SendOrder(r) \/ VoidOrder(r) \/ MarkBilling(r)
       \/ LoadTable(r) \/ SetTableStatus(r)
       \/ LoadPay(r) \/ LockOrder(r) \/ ResolveCustomer(r)
       \/ PostInvoice(r) \/ InvoiceExists(r) \/ RelinkInvoice(r)
       \/ PaymentFound(r) \/ PostPayment(r) \/ PaymentExists(r) \/ SavePaid(r)
       \/ FirstRead(r) \/ EndRequest(r)
  \/ \E c \in ClientIds : CancelInvoice(c)

Spec == Init /\ [][Next]_vars

-----------------------------------------------------------------------------
(* Properties.                                                             *)

\* A posted invoice is the one its order remembers, so that a payment that
\* failed is retried on it and the order cannot be voided around it (the
\* db.set_value in the invoice's own commit in pay()).
InvoiceRemembered ==
  \A c \in ClientIds :
    invoice[c].docstatus = 1 => order[invoice[c].order].inv = c

\* However often, by whomever and under whichever client_id an order is paid,
\* it is invoiced once: its stock goes out once (the row lock in pay()).
OneInvoicePerOrder ==
  \A c, d \in ClientIds :
    invoice[c].order = invoice[d].order /\ invoice[c].order # None => c = d

\* No invoice is paid twice, not by two tills at once nor by a retry under
\* another client_id (get_payment_entry in pay()).
NoDoublePayment == \A c \in ClientIds : invoice[c].paid <= 1

\* A paid order has an invoice of its own, and the payment it names was made
\* for that invoice; only cash on delivery has none (the end of pay()).
PaidOrderIsInvoiced ==
  \A o \in Orders :
    LET d == order[o]
    IN d.status = "Paid" =>
         /\ d.inv # None
         /\ invoice[d.inv].order = o
         /\ IF d.pay = None THEN o \in DeliveryOrders
            ELSE payment[d.pay].inv = d.inv

\* A paid or void order keeps its status, its items and its payment for
\* good, whatever stale copies of it are still being edited (the status
\* guards of the edits, and save()'s check of `modified`).
ClosedOrderIsFinal ==
  [][\A o \in Orders :
       order[o].status \in {"Paid", "Void"} =>
         /\ order'[o].status = order[o].status
         /\ order'[o].items = order[o].items
         /\ order'[o].pay = order[o].pay]_vars

\* The kitchen gets one ticket for each row sent and none for the others,
\* however many tills send the order at once (kds_synced in send_order()).
OneTicketPerRow ==
  \A o \in Orders, i \in Rows :
    ticket[o][i] = IF i \in order[o].synced THEN 1 ELSE 0

\* Every request that carries the order's client_id names the same table.
SentForOneTable(o) == \A s, t \in TablesOf[o] : s = t

\* The order a table shows sits at that table and is not void, and a free
\* table shows none, however requests that create, edit and void orders and
\* set tables overlap.  It is the clients who have to resend an order with the
\* table it was first sent with: create_order() seats the order of a lost
\* insert at the table of the request that lost (the last lines of
\* create_order(), void_order() and set_table_status()).
TableServesItsOrder ==
  \A t \in Tables :
    /\ table[t].current # None /\ SentForOneTable(table[t].current) =>
         /\ order[table[t].current].table = t
         /\ order[table[t].current].status \notin {"Absent", "Void"}
    /\ table[t].status = "Free" => table[t].current = None

\* Voiding an order never frees a table that serves another order by now
\* (the current_order comparison in void_order()).
VoidKeepsOthersTable ==
  [][\A o \in Orders, t \in Tables :
       /\ order[o].status # "Void"
       /\ order'[o].status = "Void"
       /\ table[t].current # o
       => table'[t] = table[t]]_vars

\* With snapshot isolation an order is billed for the items it has when the
\* invoice is posted, although pay() loads them before it waits for the row
\* lock and the locking read refreshes only three columns.
InvoiceBillsTheItems ==
  [][\A c \in ClientIds :
       invoice[c].docstatus = 0 /\ invoice'[c].docstatus = 1
         => invoice'[c].lines = order[invoice'[c].order].items]_vars

\* An order that was handed over to be paid on delivery has not been paid
\* already (the comment in pay(): "don't record money that hasn't been
\* collected yet - the delivery boy settles it on handoff").
CodIsUnpaid ==
  \A o \in Orders :
    order[o].status = "Paid" /\ order[o].pay = None
      => invoice[order[o].inv].paid = 0
-----------------------------------------------------------------------------
(* The inductive invariant behind ClosedOrderIsFinal and OneTicketPerRow.  *)

\* The request still holds the document it loaded, to save it.
Holds(r, o) ==
  /\ job[r].o = o
  /\ pc[r] # "idle"
  /\ job[r].op \in OrderOps \cup {"pay"}

PayPCs == PCs \ {"idle", "ready"}

JobOK ==
  \A r \in Requests :
    /\ pc[r] = "ready" /\ job[r].op \in OrderOps => job[r].o \in Orders
    /\ pc[r] = "ready" /\ job[r].op = "create_order" => job[r].o \in Orders
    /\ pc[r] = "ready" /\ job[r].op = "set_table_status" => job[r].t \in Tables
    /\ pc[r] = "ready" => job[r].op # "pay"
    /\ pc[r] \in PayPCs =>
         job[r].op = "pay" /\ job[r].o \in Orders /\ job[r].c \in ClientIds
    /\ pc[r] \in {"entry", "save"} => doc[r].inv # None
    /\ pc[r] \in PayPCs \ {"lock"} => Changeable(doc[r])

\* A paid order names its invoice, and so does every copy of one.
PaidNamesInvoice ==
  /\ \A o \in Orders : order[o].status = "Paid" => order[o].inv # None
  /\ \A r \in Requests : doc[r].status = "Paid" => doc[r].inv # None

\* Optimistic locking: as long as `modified` has not moved, the loaded copy
\* agrees with the row in all columns that no db.set_value writes; a checkout
\* fills in the payment itself.
CopyIsCurrent ==
  \A r \in Requests, o \in Orders :
    Holds(r, o) /\ o \notin bumped[r] =>
      /\ doc[r].status = order[o].status
      /\ doc[r].items = order[o].items
      /\ doc[r].synced = order[o].synced
      /\ job[r].op # "pay" => doc[r].pay = order[o].pay

AbsentIsBlank ==
  \A o \in Orders : order[o].status = "Absent" => order[o].synced = {}

EditInv ==
  /\ TypeOK
  /\ JobOK
  /\ PaidNamesInvoice
  /\ CopyIsCurrent
  /\ AbsentIsBlank
  /\ OneTicketPerRow
=============================================================================
