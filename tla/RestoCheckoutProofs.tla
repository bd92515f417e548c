------------------------- MODULE RestoCheckoutProofs -------------------------
(***************************************************************************)
(* Proofs about RestoCheckout for every number of orders, tables, rows,    *)
(* client_ids and requests: types, tickets, closed orders and tables with  *)
(* and without snapshot isolation, the checkout (invoices and payments)    *)
(* under Regime.                                                           *)
(***************************************************************************)
EXTENDS RestoLife, TLAPS

USE ConstantsAssumption, NoneAssumption

RequestVars == <<lock, pc, job, doc, tdoc, view, bumped, touched>>

\* What the request's own variables look like, typed.
RequestsTyped ==
  /\ lock \in [Orders -> Requests \cup {None}]
  /\ pc \in [Requests -> PCs]
  /\ job \in [Requests -> Job]
  /\ doc \in [Requests -> OrderDoc]
  /\ tdoc \in [Requests -> TableDoc]
  /\ view \in [Requests -> View \cup {None}]
  /\ bumped \in [Requests -> SUBSET Docs]
  /\ touched \in [Requests -> SUBSET Docs]

LEMMA BlanksTyped ==
  /\ NoOrder \in OrderDoc
  /\ FreeTable \in TableDoc
  /\ NoJob \in Job
  /\ NoInvoice \in InvoiceDoc
  /\ NoPayment \in PaymentDoc
BY DEF NoOrder, OrderDoc, OrderStatus, FreeTable, TableDoc, TableStatus,
       NoJob, Job, OrderOps, NoInvoice, InvoiceDoc, NoPayment, PaymentDoc

LEMMA SnapshotTyped == TypeOK => Snapshot \in View
BY DEF TypeOK, Snapshot, View

LEMMA MarksTyped ==
  ASSUME TypeOK, NEW r \in Requests, NEW saved \in SUBSET Docs
  PROVE  /\ Bump(r, saved) \in [Requests -> SUBSET Docs]
         /\ Touch(r, saved) \in [Requests -> SUBSET Docs]
BY DEF TypeOK, Bump, Touch

LEMMA UnlockedTyped ==
  ASSUME TypeOK, NEW r \in Requests
  PROVE  Unlocked(r) \in [Orders -> Requests \cup {None}]
BY DEF TypeOK, Unlocked

LEMMA ReturnTyped ==
  ASSUME TypeOK, NEW r \in Requests, NEW saved \in SUBSET Docs,
         CommitAndReturn(r, saved)
  PROVE  RequestsTyped'
<1>1. lock' \in [Orders -> Requests \cup {None}]
  BY UnlockedTyped DEF CommitAndReturn
<1>2. /\ bumped' \in [Requests -> SUBSET Docs]
      /\ touched' \in [Requests -> SUBSET Docs]
  BY MarksTyped DEF CommitAndReturn
<1>3. /\ pc' \in [Requests -> PCs]
      /\ job' \in [Requests -> Job]
      /\ doc' \in [Requests -> OrderDoc]
      /\ tdoc' \in [Requests -> TableDoc]
      /\ view' \in [Requests -> View \cup {None}]
  BY BlanksTyped DEF CommitAndReturn, TypeOK, PCs
<1> QED BY <1>1, <1>2, <1>3 DEF RequestsTyped

LEMMA GoOnTyped ==
  ASSUME TypeOK, NEW r \in Requests, NEW written \in SUBSET Docs,
         NEW next \in PCs, CommitAndGoOn(r, written, next),
         doc' \in [Requests -> OrderDoc]
  PROVE  RequestsTyped'
<1>1. lock' \in [Orders -> Requests \cup {None}]
  BY UnlockedTyped DEF CommitAndGoOn
<1>2. touched' \in [Requests -> SUBSET Docs]
  BY MarksTyped DEF CommitAndGoOn
<1>3. /\ pc' \in [Requests -> PCs]
      /\ view' \in [Requests -> View \cup {None}]
      /\ UNCHANGED <<job, tdoc, bumped>>
  BY DEF CommitAndGoOn, TypeOK
<1> QED BY <1>1, <1>2, <1>3 DEF RequestsTyped, TypeOK

LEMMA ArriveTyped ==
  ASSUME TypeOK, NEW r \in Requests, NEW at \in PCs, NEW j \in Job,
         Arrive(r, at, j)
  PROVE  TypeOK'
<1>1. /\ pc' \in [Requests -> PCs]
      /\ job' \in [Requests -> Job]
  BY DEF Arrive, TypeOK
<1>2. /\ doc' \in [Requests -> OrderDoc]
      /\ tdoc' \in [Requests -> TableDoc]
  BY BlanksTyped DEF Arrive, TypeOK, Job
<1>3. view' \in [Requests -> View \cup {None}]
  BY SnapshotTyped DEF Arrive, TypeOK
<1> QED BY <1>1, <1>2, <1>3 DEF Arrive, TypeOK

-----------------------------------------------------------------------------
(* The database part of TypeOK.                                            *)
DatabaseTyped ==
  /\ order \in [Orders -> OrderDoc]
  /\ table \in [Tables -> TableDoc]
  /\ ticket \in [Orders -> [Rows -> Nat]]
  /\ invoice \in [ClientIds -> InvoiceDoc]
  /\ payment \in [ClientIds -> PaymentDoc]
  /\ customers \in SUBSET Customers

LEMMA TypeSplit == TypeOK <=> DatabaseTyped /\ RequestsTyped
BY DEF TypeOK, DatabaseTyped, RequestsTyped

LEMMA InitTyped == Init => TypeOK
BY BlanksTyped DEF Init, TypeOK, PCs

\* A request that saves d as its order.
LEMMA SaveOrderTyped ==
  ASSUME TypeOK, NEW r \in Requests, NEW d \in OrderDoc, job[r].o \in Orders,
         SaveOrder(r, d), ticket' \in [Orders -> [Rows -> Nat]]
  PROVE  TypeOK'
<1>1. RequestsTyped'
  BY ReturnTyped DEF SaveOrder, Docs
<1>2. DatabaseTyped'
  BY DEF SaveOrder, TypeOK, DatabaseTyped
<1> QED BY <1>1, <1>2, TypeSplit DEF TypeSplit, TypeOK, DatabaseTyped, RequestsTyped

LEMMA ItemTyped ==
  ASSUME NEW d \in OrderDoc, NEW i \in Rows, NEW q \in 0..MaxQty
  PROVE  LET e == [d EXCEPT !.items[i] = q]
         IN /\ e \in OrderDoc
            /\ e.status = d.status
            /\ e.inv = d.inv
            /\ e.synced = d.synced
<1>1. [d.items EXCEPT ![i] = q] \in [Rows -> 0..MaxQty]
  BY DEF OrderDoc
<1>2. LET e == [d EXCEPT !.items = [d.items EXCEPT ![i] = q]]
      IN /\ e \in OrderDoc
         /\ e.status = d.status
         /\ e.inv = d.inv
         /\ e.synced = d.synced
  BY <1>1 DEF OrderDoc
<1> QED BY <1>2

LEMMA EditTyped ==
  ASSUME TypeOK, JobOK, NEW r \in Requests,
         AddItem(r) \/ UpdateItemQty(r) \/ SetNote(r)
  PROVE  TypeOK'
<1> USE DEF TypeOK
<1>1. job[r].o \in Orders
  BY DEF AddItem, UpdateItemQty, SetNote, JobOK, OrderOps
<1>2. ticket' \in [Orders -> [Rows -> Nat]]
  BY DEF AddItem, UpdateItemQty, SetNote
<1>3. PICK d \in OrderDoc : SaveOrder(r, d)
  <2>1. \A i \in Rows, q \in 1..MaxQty :
          [doc[r] EXCEPT !.items[i] = q] \in OrderDoc
    BY ItemTyped
  <2> QED BY <2>1 DEF AddItem, UpdateItemQty, SetNote
<1> QED BY <1>1, <1>2, <1>3, SaveOrderTyped

LEMMA SendTyped ==
  ASSUME TypeOK, JobOK, NEW r \in Requests, SendOrder(r)
  PROVE  TypeOK'
<1> DEFINE due == Ordered(doc[r]) \ doc[r].synced
           d == [doc[r] EXCEPT !.status = "Sent",
                               !.synced = doc[r].synced \cup due]
<1>1. job[r].o \in Orders /\ doc[r] \in OrderDoc
  BY DEF SendOrder, JobOK, OrderOps, TypeOK
<1>2. d \in OrderDoc
  BY <1>1 DEF OrderDoc, OrderStatus, Ordered
<1>3. ticket' \in [Orders -> [Rows -> Nat]]
  BY <1>1 DEF SendOrder, TypeOK
<1>4. SaveOrder(r, d)
  BY DEF SendOrder
<1> QED BY <1>1, <1>2, <1>3, <1>4, SaveOrderTyped

LEMMA VoidTyped ==
  ASSUME TypeOK, JobOK, NEW r \in Requests, VoidOrder(r)
  PROVE  TypeOK'
<1>1. job[r].o \in Orders /\ doc[r] \in OrderDoc
  BY DEF VoidOrder, Voidable, JobOK, OrderOps, TypeOK
<1>2. ServesIt(r) => job[r].t \in Tables
  BY DEF ServesIt, TypeOK, Job
<1>3. RequestsTyped'
  BY <1>1, <1>2, ReturnTyped DEF VoidOrder, SaveVoid, Docs
<1>4. [doc[r] EXCEPT !.status = "Void"] \in OrderDoc
  BY <1>1 DEF OrderDoc, OrderStatus
<1>5. DatabaseTyped'
  BY <1>1, <1>2, <1>4, BlanksTyped
     DEF VoidOrder, SaveVoid, TypeOK, DatabaseTyped
<1> QED BY <1>3, <1>5 DEF TypeOK, DatabaseTyped, RequestsTyped

LEMMA CreateTyped ==
  ASSUME TypeOK, JobOK, NEW r \in Requests, CreateOrder(r)
  PROVE  TypeOK'
<1>1. job[r].o \in Orders /\ job[r].t \in Tables \cup {None}
  BY DEF CreateOrder, JobOK, TypeOK, Job
<1>2. RequestsTyped'
  BY <1>1, ReturnTyped DEF CreateOrder, Docs
<1>3. \A items \in [Rows -> 0..MaxQty] :
        [NoOrder EXCEPT !.status = "Open", !.table = job[r].t,
                        !.items = items] \in OrderDoc
  BY <1>1, BlanksTyped DEF OrderDoc, OrderStatus
<1>4. order' \in [Orders -> OrderDoc]
  <2>1. PICK items \in [Rows -> 0..MaxQty] :
          order' = [order EXCEPT ![job[r].o] =
                      [NoOrder EXCEPT !.status = "Open", !.table = job[r].t,
                                      !.items = items]]
    BY DEF CreateOrder
  <2> QED BY <1>1, <1>3, <2>1 DEF TypeOK
<1>5. table' \in [Tables -> TableDoc]
  BY <1>1 DEF CreateOrder, TypeOK, TableDoc, TableStatus
<1> QED BY <1>2, <1>4, <1>5
        DEF CreateOrder, TypeOK, RequestsTyped

LEMMA TableTyped ==
  ASSUME TypeOK, JobOK, NEW r \in Requests,
         MarkBilling(r) \/ SetTableStatus(r) \/ LoseCreate(r)
  PROVE  TypeOK'
<1>1. job[r].t \in Tables /\ tdoc[r] \in TableDoc
  BY DEF MarkBilling, SetTableStatus, LoseCreate, JobOK, TypeOK, Job
<1>2. PICK d \in TableDoc : SaveTable(r, d)
  <2>1. \A st \in TableStatus : [tdoc[r] EXCEPT !.status = st] \in TableDoc
    BY <1>1 DEF TableDoc
  <2>2. CASE MarkBilling(r) \/ SetTableStatus(r)
    BY <2>1, <2>2, BlanksTyped DEF MarkBilling, SetTableStatus, TableStatus
  <2>3. CASE LoseCreate(r)
    <3>1. job[r].o \in Orders
      BY <2>3 DEF LoseCreate, JobOK
    <3> QED BY <2>3, <3>1 DEF LoseCreate, TableDoc, TableStatus
  <2> QED BY <2>2, <2>3
<1>3. RequestsTyped'
  BY <1>1, <1>2, ReturnTyped DEF SaveTable, Docs
<1> QED BY <1>1, <1>2, <1>3 DEF SaveTable, TypeOK, RequestsTyped

LEMMA ReadTyped ==
  ASSUME TypeOK, NEW r \in Requests, EndRequest(r) \/ FirstRead(r)
  PROVE  TypeOK'
<1>1. CASE EndRequest(r)
  <2>1. RequestsTyped'
    BY <1>1, ReturnTyped DEF EndRequest
  <2> QED BY <1>1, <2>1 DEF EndRequest, database, TypeOK, RequestsTyped
<1>2. CASE FirstRead(r)
  BY <1>2, SnapshotTyped DEF FirstRead, TypeOK
<1> QED BY <1>1, <1>2

LEMMA LoadTyped ==
  ASSUME TypeOK, NEW r \in Requests,
         LoadCreate(r) \/ LoadOrder(r) \/ LoadTable(r) \/ LoadPay(r)
  PROVE  TypeOK'
<1>1. PICK at \in PCs, j \in Job : Arrive(r, at, j)
  <2>1. CASE LoadCreate(r)
    BY <2>1 DEF LoadCreate, PCs, Job, NoJob
  <2>2. CASE LoadOrder(r)
    BY <2>2 DEF LoadOrder, PCs, Job, NoJob, OrderOps, TypeOK, OrderDoc
  <2>3. CASE LoadTable(r)
    BY <2>3 DEF LoadTable, PCs, Job, NoJob
  <2>4. CASE LoadPay(r)
    BY <2>4 DEF LoadPay, PCs, Job, NoJob
  <2> QED BY <2>1, <2>2, <2>3, <2>4
<1> QED BY <1>1, ArriveTyped

LEMMA InvoiceTyped ==
  ASSUME NEW d \in InvoiceDoc
  PROVE  /\ [d EXCEPT !.paid = d.paid + 1] \in InvoiceDoc
         /\ [d EXCEPT !.docstatus = 2, !.paid = 0] \in InvoiceDoc
<1>1. /\ d.paid \in Nat
      /\ d.paid + 1 \in Nat
  BY DEF InvoiceDoc
<1>2. [d EXCEPT !.paid = d.paid + 1] \in InvoiceDoc
  BY <1>1 DEF InvoiceDoc
<1>3. [d EXCEPT !.docstatus = 2, !.paid = 0] \in InvoiceDoc
  BY 2 \in 0..2, 0 \in Nat DEF InvoiceDoc
<1> QED BY <1>2, <1>3

LEMMA CheckoutTyped ==
  ASSUME TypeOK, JobOK, NEW r \in Requests,
         \/ LockOrder(r) \/ ResolveCustomer(r) \/ PostInvoice(r)
         \/ InvoiceExists(r) \/ RelinkInvoice(r) \/ PaymentFound(r)
         \/ PostPayment(r) \/ PaymentExists(r)
  PROVE  TypeOK'
<1> DEFINE o == job[r].o
           c == job[r].c
<1>1. /\ pc[r] \in PayPCs
      /\ o \in Orders
      /\ c \in ClientIds
      /\ doc[r] \in OrderDoc
  BY DEF LockOrder, ResolveCustomer, PostInvoice, InvoiceExists,
         RelinkInvoice, PaymentFound, PostPayment, PaymentExists, PayPCs, PCs,
         JobOK, TypeOK
<1>2. AfterInvoice(job[r]) \in PCs
  BY DEF AfterInvoice, PCs
<1>3. \A k \in ClientIds : /\ [doc[r] EXCEPT !.inv = k] \in OrderDoc
                           /\ [doc[r] EXCEPT !.pay = k] \in OrderDoc
                           /\ [order[o] EXCEPT !.inv = k] \in OrderDoc
  BY <1>1 DEF TypeOK, OrderDoc
<1>4. CASE LockOrder(r)
  <2>1. [doc[r] EXCEPT !.inv = order[o].inv, !.pay = order[o].pay,
                       !.status = order[o].status] \in OrderDoc
    BY <1>1 DEF TypeOK, OrderDoc
  <2>2. doc' \in [Requests -> OrderDoc]
    BY <2>1, <1>4 DEF LockOrder, TypeOK
  <2> QED BY <1>1, <1>4, <2>2 DEF LockOrder, TypeOK, PCs
<1>5. CASE ResolveCustomer(r)
  <2> DEFINE next == IF doc[r].inv = None THEN "invoice"
                     ELSE AfterInvoice(job[r])
  <2>1. next \in PCs
    BY <1>2 DEF PCs
  <2>2. customers' \in SUBSET Customers
    BY <1>1, <1>5 DEF ResolveCustomer, TypeOK
  <2>3. RequestsTyped'
    <3>1. CASE CommitAndGoOn(r, {}, next)
      BY <1>5, <2>1, <3>1, GoOnTyped DEF ResolveCustomer, TypeOK
    <3>2. CASE /\ pc' = [pc EXCEPT ![r] = next]
               /\ UNCHANGED <<customers, lock, job, tdoc, view, bumped, touched>>
      BY <1>5, <2>1, <3>2 DEF ResolveCustomer, TypeOK, RequestsTyped
    <3> QED BY <1>5, <3>1, <3>2 DEF ResolveCustomer
  <2> QED BY <1>5, <2>2, <2>3 DEF ResolveCustomer, TypeOK, RequestsTyped
<1>6. CASE PostInvoice(r)
  <2>1. RequestsTyped'
    BY <1>1, <1>2, <1>3, <1>6, GoOnTyped DEF PostInvoice, Docs, TypeOK
  <2>2. invoice' \in [ClientIds -> InvoiceDoc]
    BY <1>1, <1>6 DEF PostInvoice, TypeOK, InvoiceDoc, OrderDoc
  <2> QED BY <1>1, <1>3, <1>6, <2>1, <2>2
          DEF PostInvoice, TypeOK, RequestsTyped
<1>7. CASE InvoiceExists(r)
  <2>1. RequestsTyped'
    BY <1>7, GoOnTyped DEF InvoiceExists, TypeOK, PCs
  <2> QED BY <1>7, <2>1 DEF InvoiceExists, TypeOK, RequestsTyped
<1>8. CASE RelinkInvoice(r)
  <2>1. RequestsTyped'
    BY <1>1, <1>2, <1>3, <1>8, GoOnTyped DEF RelinkInvoice, Docs, TypeOK
  <2> QED BY <1>1, <1>3, <1>8, <2>1 DEF RelinkInvoice, TypeOK, RequestsTyped
<1>9. CASE PaymentFound(r)
  BY <1>1, <1>3, <1>9 DEF PaymentFound, TypeOK, PCs
<1>10. CASE PostPayment(r)
  <2> DEFINE si == doc[r].inv
  <2>0. si \in ClientIds
    BY <1>1, <1>10 DEF PostPayment, JobOK, OrderDoc
  <2>1. RequestsTyped'
    BY <1>1, <1>3, <1>10, <2>0, GoOnTyped DEF PostPayment, Docs, TypeOK, PCs
  <2>2. invoice' \in [ClientIds -> InvoiceDoc]
    <3>0. invoice[si] \in InvoiceDoc
      BY <2>0 DEF TypeOK
    <3>1. [invoice[si] EXCEPT !.paid = invoice[si].paid + 1] \in InvoiceDoc
      BY <3>0, InvoiceTyped
    <3> QED BY <1>10, <2>0, <3>1 DEF PostPayment, TypeOK
  <2>3. payment' \in [ClientIds -> PaymentDoc]
    BY <1>1, <1>10, <2>0 DEF PostPayment, TypeOK, PaymentDoc
  <2> QED BY <1>10, <2>1, <2>2, <2>3 DEF PostPayment, TypeOK, RequestsTyped
<1>11. CASE PaymentExists(r)
  <2>1. RequestsTyped'
    BY <1>1, <1>3, <1>11, GoOnTyped DEF PaymentExists, TypeOK, PCs
  <2> QED BY <1>11, <2>1 DEF PaymentExists, TypeOK, RequestsTyped
<1> QED BY <1>4, <1>5, <1>6, <1>7, <1>8, <1>9, <1>10, <1>11

LEMMA SavePaidTyped ==
  ASSUME TypeOK, JobOK, NEW r \in Requests, SavePaid(r)
  PROVE  TypeOK'
<1>1. job[r].o \in Orders /\ doc[r] \in OrderDoc
  BY DEF SavePaid, JobOK, PayPCs, PCs, TypeOK
<1>2. [doc[r] EXCEPT !.status = "Paid"] \in OrderDoc
  BY <1>1 DEF OrderDoc, OrderStatus
<1>3. ticket' \in [Orders -> [Rows -> Nat]]
  BY DEF SavePaid, TypeOK
<1> QED BY <1>1, <1>2, <1>3, SaveOrderTyped DEF SavePaid

LEMMA CancelTyped ==
  ASSUME TypeOK, NEW c \in ClientIds, CancelInvoice(c)
  PROVE  TypeOK'
<1>1. invoice' \in [ClientIds -> InvoiceDoc]
  <2>0. invoice[c] \in InvoiceDoc
    BY DEF TypeOK
  <2>1. [invoice[c] EXCEPT !.docstatus = 2, !.paid = 0] \in InvoiceDoc
    BY <2>0, InvoiceTyped
  <2> QED BY <2>1 DEF CancelInvoice, TypeOK
<1>2. payment' \in [ClientIds -> PaymentDoc]
  BY DEF CancelInvoice, TypeOK, PaymentDoc
<1>3. touched' \in [Requests -> SUBSET Docs]
  BY DEF CancelInvoice, TypeOK, Docs
<1> QED BY <1>1, <1>2, <1>3 DEF CancelInvoice, TypeOK

-----------------------------------------------------------------------------
(* What the two ways of committing do to the requests.                     *)

LEMMA ReturnFrame ==
  ASSUME TypeOK, NEW r \in Requests, NEW saved, CommitAndReturn(r, saved)
  PROVE  /\ pc'[r] = "idle"
         /\ job'[r] = NoJob
         /\ doc'[r] = NoOrder
         /\ \A q \in Requests \ {r} :
              /\ pc'[q] = pc[q]
              /\ job'[q] = job[q]
              /\ doc'[q] = doc[q]
              /\ bumped'[q] = bumped[q] \cup (saved \cap Uses(q))
BY DEF CommitAndReturn, TypeOK, Bump

LEMMA GoOnFrame ==
  ASSUME TypeOK, NEW r \in Requests, NEW written, NEW next,
         CommitAndGoOn(r, written, next)
  PROVE  /\ pc'[r] = next
         /\ \A q \in Requests \ {r} : pc'[q] = pc[q]
         /\ job' = job
         /\ bumped' = bumped
BY DEF CommitAndGoOn, TypeOK

\* A request that ends and leaves the orders alone.
LEMMA ReturnKeepsInv ==
  ASSUME EditInv, TypeOK', NEW r \in Requests, NEW saved,
         CommitAndReturn(r, saved), UNCHANGED <<order, ticket>>
  PROVE  EditInv'
<1> USE DEF EditInv
<1>1. JobOK'
  BY ReturnFrame DEF JobOK, PayPCs, PCs, Changeable
<1>2. PaidNamesInvoice'
  BY ReturnFrame DEF PaidNamesInvoice, NoOrder
<1>3. CopyIsCurrent'
  BY ReturnFrame DEF CopyIsCurrent, Holds
<1>4. OneTicketPerRow'
  BY DEF OneTicketPerRow
<1>5. AbsentIsBlank'
  BY DEF AbsentIsBlank
<1> QED BY <1>1, <1>2, <1>3, <1>4, <1>5

\* A request that ends with its order saved as d: the other copies of that
\* order have a newer `modified` to run into.
LEMMA SaveKeepsInv ==
  ASSUME EditInv, TypeOK', NEW r \in Requests, NEW o \in Orders,
         NEW d \in OrderDoc, NEW saved, o \in saved,
         CommitAndReturn(r, saved), order' = [order EXCEPT ![o] = d],
         d.status = "Paid" => d.inv # None,
         d.status = "Absent" => d.synced = {}, OneTicketPerRow'
  PROVE  EditInv'
<1> USE DEF EditInv
<1>0. /\ order'[o] = d
      /\ \A p \in Orders \ {o} : order'[p] = order[p]
  BY DEF TypeOK
<1>1. JobOK'
  BY ReturnFrame DEF JobOK, PayPCs, PCs, Changeable
<1>2. PaidNamesInvoice'
  BY <1>0, ReturnFrame DEF PaidNamesInvoice, NoOrder
<1>3. CopyIsCurrent'
  <2> SUFFICES ASSUME NEW q \in Requests, NEW p \in Orders,
                      Holds(q, p)', p \notin bumped'[q]
               PROVE  /\ doc'[q].status = order'[p].status
                      /\ doc'[q].items = order'[p].items
                      /\ doc'[q].synced = order'[p].synced
                      /\ job'[q].op # "pay" => doc'[q].pay = order'[p].pay
    BY DEF CopyIsCurrent
  <2>1. q # r
    BY ReturnFrame DEF Holds
  <2>2. Holds(q, p)
    BY <2>1, ReturnFrame DEF Holds
  <2>3. p # o
    BY <2>1, <2>2, ReturnFrame DEF Holds, Uses, Live
  <2> QED BY <1>0, <2>1, <2>2, <2>3, ReturnFrame DEF CopyIsCurrent
<1>4. AbsentIsBlank'
  BY <1>0 DEF AbsentIsBlank
<1> QED BY <1>1, <1>2, <1>3, <1>4

\* A checkout that fills in its document and goes on, with at most the
\* invoice of an order written by db.set_value.
LEMMA CheckoutKeepsInv ==
  ASSUME EditInv, TypeOK', NEW r \in Requests, pc[r] \in PayPCs \ {"lock"},
         pc'[r] \in PayPCs \ {"lock"},
         \A q \in Requests \ {r} : pc'[q] = pc[q] /\ doc'[q] = doc[q],
         job' = job, bumped' = bumped, ticket' = ticket,
         doc'[r].status = doc[r].status,
         doc'[r].items = doc[r].items, doc'[r].synced = doc[r].synced,
         pc'[r] \in {"entry", "save"} => doc'[r].inv # None,
         \A o \in Orders :
           /\ order'[o].status = order[o].status
           /\ order'[o].items = order[o].items
           /\ order'[o].synced = order[o].synced
           /\ order'[o].pay = order[o].pay
           /\ order[o].inv # None => order'[o].inv # None
  PROVE  EditInv'
<1> USE DEF EditInv
<1>0. /\ job[r].op = "pay"
      /\ Changeable(doc[r])
  BY DEF JobOK
<1>1. JobOK'
  BY <1>0 DEF JobOK, PayPCs, PCs, Changeable
<1>2. PaidNamesInvoice'
  BY <1>0 DEF PaidNamesInvoice, Changeable
<1>3. CopyIsCurrent'
  BY <1>0 DEF CopyIsCurrent, Holds, PayPCs, PCs
<1>4. OneTicketPerRow'
  BY DEF OneTicketPerRow
<1>5. AbsentIsBlank'
  BY DEF AbsentIsBlank
<1> QED BY <1>1, <1>2, <1>3, <1>4, <1>5

LEMMA ArriveKeepsInv ==
  ASSUME EditInv, TypeOK', NEW r \in Requests, NEW at, NEW j \in Job,
         Arrive(r, at, j),
         \/ at = "lock" /\ j.op = "pay" /\ j.o \in Orders /\ j.c \in ClientIds
         \/ at = "ready" /\ j.op \in OrderOps \cup {"create_order"}
                         /\ j.o \in Orders
         \/ at = "ready" /\ j.op = "set_table_status" /\ j.t \in Tables
                         /\ j.o = None
  PROVE  EditInv'
<1> USE DEF EditInv
<1>0. /\ pc'[r] = at
      /\ job'[r] = j
      /\ doc'[r] = IF j.o = None THEN NoOrder ELSE order[j.o]
      /\ \A q \in Requests \ {r} :
           pc'[q] = pc[q] /\ job'[q] = job[q] /\ doc'[q] = doc[q]
      /\ UNCHANGED <<order, ticket, bumped>>
  BY DEF Arrive, TypeOK
<1>1. JobOK'
  BY <1>0 DEF JobOK, PayPCs, PCs, Changeable, OrderOps
<1>2. PaidNamesInvoice'
  BY <1>0 DEF PaidNamesInvoice, NoOrder
<1>3. CopyIsCurrent'
  BY <1>0 DEF CopyIsCurrent, Holds, OrderOps
<1>4. OneTicketPerRow'
  BY <1>0 DEF OneTicketPerRow
<1>5. AbsentIsBlank'
  BY <1>0 DEF AbsentIsBlank
<1> QED BY <1>1, <1>2, <1>3, <1>4, <1>5

-----------------------------------------------------------------------------
(* Every action preserves EditInv.                                         *)

LEMMA ItemsKeepInv ==
  ASSUME EditInv, NEW r \in Requests,
         AddItem(r) \/ UpdateItemQty(r) \/ SetNote(r)
  PROVE  EditInv'
<1> USE DEF EditInv
<1> DEFINE o == job[r].o
<1>1. TypeOK'
  BY EditTyped
<1>2. pc[r] = "ready" /\ job[r].op \in OrderOps /\ o \in Orders
  BY DEF AddItem, UpdateItemQty, SetNote, OrderOps, JobOK
<1>3. PICK d \in OrderDoc : /\ SaveOrder(r, d)
                            /\ d.status = doc[r].status
                            /\ d.inv = doc[r].inv
                            /\ d.synced = doc[r].synced
  <2>1. doc[r] \in OrderDoc
    BY DEF TypeOK
  <2>2. \A i \in Rows, q \in 1..MaxQty :
          LET d == [doc[r] EXCEPT !.items[i] = q]
          IN /\ d \in OrderDoc
             /\ d.status = doc[r].status
             /\ d.inv = doc[r].inv
             /\ d.synced = doc[r].synced
    BY <2>1, ItemTyped
  <2> QED BY <2>1, <2>2, ZenonT(60) DEF AddItem, UpdateItemQty, SetNote
<1>4. /\ order' = [order EXCEPT ![o] = d]
      /\ o \notin bumped[r]
      /\ CommitAndReturn(r, {o})
      /\ ticket' = ticket
  BY <1>3 DEF SaveOrder, CanSave, AddItem, UpdateItemQty, SetNote
<1>5. d.synced = order[o].synced /\ d.status = order[o].status
  BY <1>2, <1>3, <1>4 DEF CopyIsCurrent, Holds
<1>6. OneTicketPerRow'
  BY <1>4, <1>5 DEF OneTicketPerRow, TypeOK
<1>7. /\ d.status = "Paid" => d.inv # None
      /\ d.status = "Absent" => d.synced = {}
  BY <1>2, <1>3, <1>5 DEF PaidNamesInvoice, AbsentIsBlank
<1> QED BY <1>1, <1>2, <1>3, <1>4, <1>6, <1>7, SaveKeepsInv

LEMMA SendKeepsInv ==
  ASSUME EditInv, NEW r \in Requests, SendOrder(r)
  PROVE  EditInv'
<1> USE DEF EditInv
<1> DEFINE o == job[r].o
           due == Ordered(doc[r]) \ doc[r].synced
           d == [doc[r] EXCEPT !.status = "Sent",
                               !.synced = doc[r].synced \cup due]
<1>1. TypeOK'
  BY SendTyped
<1>2. pc[r] = "ready" /\ job[r].op \in OrderOps /\ o \in Orders
  BY DEF SendOrder, OrderOps, JobOK
<1>3. doc[r] \in OrderDoc /\ due \subseteq Rows
  BY DEF TypeOK, Ordered
<1>4. /\ d \in OrderDoc
      /\ d.status = "Sent"
      /\ d.synced = doc[r].synced \cup due
  BY <1>3 DEF OrderDoc, OrderStatus
<1>5. /\ order' = [order EXCEPT ![o] = d]
      /\ o \notin bumped[r]
      /\ CommitAndReturn(r, {o})
      /\ ticket' = [ticket EXCEPT ![o] =
                      [i \in Rows |-> IF i \in due THEN ticket[o][i] + 1
                                      ELSE ticket[o][i]]]
  BY DEF SendOrder, SaveOrder, CanSave
<1>6. doc[r].synced = order[o].synced
  BY <1>2, <1>5 DEF CopyIsCurrent, Holds
<1>7. OneTicketPerRow'
  <2> SUFFICES ASSUME NEW p \in Orders, NEW i \in Rows
               PROVE  ticket'[p][i] = IF i \in order'[p].synced THEN 1 ELSE 0
    BY DEF OneTicketPerRow
  <2>1. CASE p # o
    BY <1>5, <2>1 DEF OneTicketPerRow, TypeOK
  <2>2. CASE p = o
    <3>1. order'[o].synced = order[o].synced \cup due
      BY <1>2, <1>4, <1>5, <1>6 DEF TypeOK
    <3>2. ticket'[o][i] = IF i \in due THEN ticket[o][i] + 1 ELSE ticket[o][i]
      BY <1>2, <1>5 DEF TypeOK
    <3>3. i \in due => i \notin order[o].synced
      BY <1>6
    <3>4. ticket[o][i] = IF i \in order[o].synced THEN 1 ELSE 0
      BY <1>2 DEF OneTicketPerRow
    <3> HIDE DEF due
    <3> QED BY <2>2, <3>1, <3>2, <3>3, <3>4
  <2> QED BY <2>1, <2>2
<1> QED BY <1>1, <1>2, <1>4, <1>5, <1>7, SaveKeepsInv

LEMMA VoidKeepsInv ==
  ASSUME EditInv, NEW r \in Requests, VoidOrder(r)
  PROVE  EditInv'
<1> USE DEF EditInv
<1> DEFINE o == job[r].o
           d == [doc[r] EXCEPT !.status = "Void"]
<1>1. TypeOK'
  BY VoidTyped
<1>2. pc[r] = "ready" /\ job[r].op \in OrderOps /\ o \in Orders
  BY DEF VoidOrder, Voidable, OrderOps, JobOK
<1>3. /\ d \in OrderDoc
      /\ d.status = "Void"
      /\ d.synced = doc[r].synced
  <2>1. doc[r] \in OrderDoc
    BY DEF TypeOK
  <2> QED BY <2>1 DEF OrderDoc, OrderStatus
<1>4. PICK saved : /\ o \in saved
                   /\ CommitAndReturn(r, saved)
  BY DEF VoidOrder, SaveVoid
<1>5. /\ order' = [order EXCEPT ![o] = d]
      /\ o \notin bumped[r]
      /\ ticket' = ticket
  BY DEF VoidOrder, SaveVoid, CanSave
<1>6. d.synced = order[o].synced
  BY <1>2, <1>3, <1>5 DEF CopyIsCurrent, Holds
<1>7. OneTicketPerRow'
  BY <1>5, <1>6 DEF OneTicketPerRow, TypeOK
<1> QED BY <1>1, <1>2, <1>3, <1>4, <1>5, <1>7, SaveKeepsInv

LEMMA CreateKeepsInv ==
  ASSUME EditInv, NEW r \in Requests, CreateOrder(r)
  PROVE  EditInv'
<1> USE DEF EditInv
<1> DEFINE o == job[r].o
<1>1. TypeOK'
  BY CreateTyped
<1>2. o \in Orders
  BY DEF CreateOrder, JobOK
<1>3. PICK items \in [Rows -> 0..MaxQty] :
        order' = [order EXCEPT ![o] =
                    [NoOrder EXCEPT !.status = "Open", !.table = job[r].t,
                                    !.items = items]]
  BY DEF CreateOrder
<1> DEFINE d == [NoOrder EXCEPT !.status = "Open", !.table = job[r].t,
                                !.items = items]
<1>4. d.status = "Open" /\ d.synced = {}
  BY DEF NoOrder
<1>5. d \in OrderDoc
  BY <1>1, <1>2, <1>3 DEF TypeOK
<1>6. PICK saved : o \in saved /\ CommitAndReturn(r, saved)
  BY DEF CreateOrder
<1>7. OneTicketPerRow'
  <2>1. /\ order'[o].synced = order[o].synced
        /\ \A p \in Orders \ {o} : order'[p] = order[p]
    BY <1>2, <1>3, <1>4 DEF CreateOrder, AbsentIsBlank, TypeOK
  <2> QED BY <2>1 DEF CreateOrder, OneTicketPerRow
<1> HIDE DEF d
<1>8. order' = [order EXCEPT ![o] = d]
  BY <1>3 DEF d
<1> QED BY <1>1, <1>2, <1>4, <1>5, <1>6, <1>7, <1>8, SaveKeepsInv

LEMMA TablesKeepInv ==
  ASSUME EditInv, NEW r \in Requests,
         MarkBilling(r) \/ SetTableStatus(r) \/ LoseCreate(r) \/ EndRequest(r)
  PROVE  EditInv'
<1>1. TypeOK'
  BY TableTyped, ReadTyped DEF EditInv
<1>2. UNCHANGED <<order, ticket>>
  BY DEF MarkBilling, SetTableStatus, LoseCreate, SaveTable, EndRequest, database
<1>3. PICK saved : CommitAndReturn(r, saved)
  BY DEF MarkBilling, SetTableStatus, LoseCreate, SaveTable, EndRequest
<1> QED BY <1>1, <1>2, <1>3, ReturnKeepsInv

LEMMA LoadKeepsInv ==
  ASSUME EditInv, NEW r \in Requests,
         LoadCreate(r) \/ LoadOrder(r) \/ LoadTable(r) \/ LoadPay(r)
  PROVE  EditInv'
<1>1. TypeOK'
  BY LoadTyped DEF EditInv
<1>2. CASE LoadCreate(r)
  <2>1. PICK o \in Orders, t \in Tables \cup {None} :
          Arrive(r, "ready",
                 [NoJob EXCEPT !.op = "create_order", !.o = o, !.t = t])
    BY <1>2, ConstantsAssumption DEF LoadCreate
  <2>2. [NoJob EXCEPT !.op = "create_order", !.o = o, !.t = t] \in Job
    BY DEF Job, NoJob
  <2> QED BY <1>1, <2>1, <2>2, ArriveKeepsInv DEF NoJob
<1>3. CASE LoadOrder(r)
  <2>1. PICK op \in OrderOps, o \in Orders :
          Arrive(r, "ready",
                 [NoJob EXCEPT !.op = op, !.o = o, !.t = order[o].table])
    BY <1>3 DEF LoadOrder
  <2>2. [NoJob EXCEPT !.op = op, !.o = o, !.t = order[o].table] \in Job
    BY DEF Job, NoJob, EditInv, TypeOK, OrderDoc
  <2> QED BY <1>1, <2>1, <2>2, ArriveKeepsInv DEF NoJob
<1>4. CASE LoadTable(r)
  <2>1. PICK t \in Tables :
          Arrive(r, "ready", [NoJob EXCEPT !.op = "set_table_status", !.t = t])
    BY <1>4 DEF LoadTable
  <2>2. [NoJob EXCEPT !.op = "set_table_status", !.t = t] \in Job
    BY DEF Job, NoJob
  <2> QED BY <1>1, <2>1, <2>2, ArriveKeepsInv DEF NoJob
<1>5. CASE LoadPay(r)
  <2>1. PICK o \in Orders, cod \in BOOLEAN :
          \E c \in KeysOf[o] :
            Arrive(r, "lock", [NoJob EXCEPT !.op = "pay", !.o = o, !.c = c,
                                            !.cod = cod])
    BY <1>5 DEF LoadPay
  <2>2. PICK c \in KeysOf[o] :
          Arrive(r, "lock", [NoJob EXCEPT !.op = "pay", !.o = o, !.c = c,
                                          !.cod = cod])
    BY <2>1
  <2>3. c \in ClientIds
    BY ConstantsAssumption
  <2>4. [NoJob EXCEPT !.op = "pay", !.o = o, !.c = c, !.cod = cod] \in Job
    BY <2>3 DEF Job, NoJob
  <2> QED BY <1>1, <2>2, <2>3, <2>4, ArriveKeepsInv DEF NoJob
<1> QED BY <1>2, <1>3, <1>4, <1>5

LEMMA FirstReadKeepsInv ==
  ASSUME EditInv, NEW r \in Requests, FirstRead(r)
  PROVE  EditInv'
<1>1. TypeOK'
  BY ReadTyped DEF EditInv
<1> QED BY <1>1 DEF FirstRead, EditInv, JobOK, PaidNamesInvoice,
                    CopyIsCurrent, Holds, AbsentIsBlank, OneTicketPerRow

LEMMA CancelKeepsInv ==
  ASSUME EditInv, NEW c \in ClientIds, CancelInvoice(c)
  PROVE  EditInv'
<1>1. TypeOK'
  BY CancelTyped DEF EditInv
<1> QED BY <1>1 DEF CancelInvoice, EditInv, JobOK, PaidNamesInvoice,
                    CopyIsCurrent, Holds, AbsentIsBlank, OneTicketPerRow

LEMMA LockKeepsInv ==
  ASSUME EditInv, NEW r \in Requests, LockOrder(r)
  PROVE  EditInv'
<1> USE DEF EditInv
<1> DEFINE o == job[r].o
<1>1. TypeOK'
  BY CheckoutTyped
<1>2. /\ job[r].op = "pay" /\ o \in Orders /\ job[r].c \in ClientIds
      /\ pc[r] # "idle"
  BY DEF LockOrder, JobOK, PayPCs, PCs
<1>3. /\ pc'[r] = "customer"
      /\ doc'[r].status = order[o].status
      /\ doc'[r].inv = order[o].inv
      /\ doc'[r].items = doc[r].items
      /\ doc'[r].synced = doc[r].synced
      /\ \A q \in Requests \ {r} : pc'[q] = pc[q] /\ doc'[q] = doc[q]
      /\ UNCHANGED <<order, ticket, job, bumped>>
  <2>1. doc[r] \in OrderDoc
    BY DEF TypeOK
  <2> QED BY <2>1 DEF LockOrder, TypeOK, OrderDoc
<1>4. order[o].status \notin {"Paid", "Void"}
  BY <1>2 DEF LockOrder, PaidNamesInvoice
<1>5. JobOK'
  BY <1>2, <1>3, <1>4 DEF JobOK, PayPCs, PCs, Changeable
<1>6. PaidNamesInvoice'
  BY <1>3, <1>4 DEF PaidNamesInvoice
<1>7. CopyIsCurrent'
  BY <1>2, <1>3 DEF CopyIsCurrent, Holds
<1>8. AbsentIsBlank' /\ OneTicketPerRow'
  BY <1>3 DEF AbsentIsBlank, OneTicketPerRow
<1> QED BY <1>1, <1>5, <1>6, <1>7, <1>8

LEMMA CheckoutStepKeepsInv ==
  ASSUME EditInv, NEW r \in Requests,
         \/ ResolveCustomer(r) \/ PostInvoice(r) \/ InvoiceExists(r)
         \/ RelinkInvoice(r) \/ PaymentFound(r) \/ PostPayment(r)
         \/ PaymentExists(r)
  PROVE  EditInv'
<1> USE DEF EditInv
<1> DEFINE o == job[r].o
           c == job[r].c
<1>1. TypeOK'
  BY CheckoutTyped
<1>2. /\ pc[r] \in PayPCs \ {"lock"}
      /\ o \in Orders
      /\ c \in ClientIds
      /\ doc[r] \in OrderDoc
  <2>1. pc[r] \in PayPCs \ {"lock"}
    BY DEF ResolveCustomer, PostInvoice, InvoiceExists, RelinkInvoice,
           PaymentFound, PostPayment, PaymentExists, PayPCs, PCs
  <2> QED BY <2>1 DEF JobOK, TypeOK
<1>3. AfterInvoice(job[r]) \in {"entry", "save"}
  BY DEF AfterInvoice
<1>4. /\ job' = job
      /\ bumped' = bumped
      /\ ticket' = ticket
      /\ \A q \in Requests \ {r} : pc'[q] = pc[q]
  BY GoOnFrame DEF ResolveCustomer, PostInvoice, InvoiceExists,
         RelinkInvoice, PaymentFound, PostPayment, PaymentExists, TypeOK
<1>5. /\ \A q \in Requests \ {r} : doc'[q] = doc[q]
      /\ doc'[r].status = doc[r].status
      /\ doc'[r].items = doc[r].items
      /\ doc'[r].synced = doc[r].synced
  BY <1>2 DEF ResolveCustomer, PostInvoice, InvoiceExists,
         RelinkInvoice, PaymentFound, PostPayment, PaymentExists, TypeOK,
         OrderDoc
<1>6. /\ pc'[r] \in PayPCs \ {"lock"}
      /\ pc'[r] \in {"entry", "save"} => doc'[r].inv # None
  <2>1. CASE ResolveCustomer(r)
    BY <1>3, <2>1, GoOnFrame DEF ResolveCustomer, TypeOK, PayPCs, PCs
  <2>2. CASE PostInvoice(r) \/ RelinkInvoice(r)
    <3>1. pc'[r] = AfterInvoice(job[r])
      BY <2>2, GoOnFrame DEF PostInvoice, RelinkInvoice
    <3>2. doc'[r].inv = c
      BY <1>2, <2>2 DEF PostInvoice, RelinkInvoice, TypeOK, OrderDoc
    <3> QED BY <1>2, <1>3, <3>1, <3>2 DEF PayPCs, PCs
  <2>3. CASE InvoiceExists(r)
    BY <2>3, GoOnFrame DEF InvoiceExists, PayPCs, PCs
  <2>4. CASE PaymentFound(r) \/ PostPayment(r) \/ PaymentExists(r)
    <3>1. pc[r] = "entry" /\ pc'[r] = "save"
      BY <2>4, GoOnFrame
         DEF PaymentFound, PostPayment, PaymentExists, TypeOK
    <3>2. doc'[r].inv = doc[r].inv
      BY <1>2, <2>4
         DEF PaymentFound, PostPayment, PaymentExists, TypeOK, OrderDoc
    <3> QED BY <3>1, <3>2 DEF JobOK, PayPCs, PCs
  <2> QED BY <2>1, <2>2, <2>3, <2>4
<1>7. \A p \in Orders :
        /\ order'[p].status = order[p].status
        /\ order'[p].items = order[p].items
        /\ order'[p].synced = order[p].synced
        /\ order'[p].pay = order[p].pay
        /\ order[p].inv # None => order'[p].inv # None
  <2>1. CASE PostInvoice(r) \/ RelinkInvoice(r)
    <3>1. order' = [order EXCEPT ![o].inv = c]
      BY <2>1 DEF PostInvoice, RelinkInvoice
    <3> QED BY <1>2, <3>1 DEF TypeOK, OrderDoc
  <2>2. CASE UNCHANGED order
    BY <2>2
  <2> QED BY <2>1, <2>2 DEF ResolveCustomer, InvoiceExists, PaymentFound,
                            PostPayment, PaymentExists
<1> HIDE DEF EditInv
<1> QED BY <1>1, <1>2, <1>4, <1>5, <1>6, <1>7, CheckoutKeepsInv

LEMMA SavePaidKeepsInv ==
  ASSUME EditInv, NEW r \in Requests, SavePaid(r)
  PROVE  EditInv'
<1> USE DEF EditInv
<1> DEFINE o == job[r].o
           d == [doc[r] EXCEPT !.status = "Paid"]
<1>1. TypeOK'
  BY SavePaidTyped
<1>2. job[r].op = "pay" /\ o \in Orders /\ doc[r].inv # None
  BY DEF SavePaid, JobOK, PayPCs, PCs
<1>3. /\ d \in OrderDoc
      /\ d.status = "Paid"
      /\ d.inv = doc[r].inv
      /\ d.synced = doc[r].synced
  <2>1. doc[r] \in OrderDoc
    BY DEF TypeOK
  <2> QED BY <2>1 DEF OrderDoc, OrderStatus
<1>4. /\ order' = [order EXCEPT ![o] = d]
      /\ o \notin bumped[r]
      /\ CommitAndReturn(r, {o})
      /\ ticket' = ticket
  BY DEF SavePaid, SaveOrder, CanSave
<1>5. d.synced = order[o].synced
  BY <1>2, <1>3, <1>4 DEF CopyIsCurrent, Holds, SavePaid
<1>6. OneTicketPerRow'
  BY <1>4, <1>5 DEF OneTicketPerRow, TypeOK
<1> QED BY <1>1, <1>2, <1>3, <1>4, <1>6, SaveKeepsInv

-----------------------------------------------------------------------------
(* The theorems.                                                           *)

LEMMA InitInv == Init => EditInv
<1> SUFFICES ASSUME Init PROVE EditInv
  OBVIOUS
<1>1. TypeOK
  BY InitTyped
<1>2. JobOK
  BY DEF Init, JobOK, PayPCs, PCs
<1>3. PaidNamesInvoice /\ CopyIsCurrent
  BY DEF Init, PaidNamesInvoice, CopyIsCurrent, Holds, NoOrder
<1>4. AbsentIsBlank /\ OneTicketPerRow
  BY DEF Init, AbsentIsBlank, OneTicketPerRow, NoOrder
<1> QED BY <1>1, <1>2, <1>3, <1>4 DEF EditInv

LEMMA NextInv == EditInv /\ [Next]_vars => EditInv'
<1> SUFFICES ASSUME EditInv, [Next]_vars PROVE EditInv'
  OBVIOUS
<1>1. CASE UNCHANGED vars
  BY <1>1 DEF vars, EditInv, TypeOK, JobOK, PaidNamesInvoice, CopyIsCurrent,
              Holds, AbsentIsBlank, OneTicketPerRow
<1>2. CASE Next
  BY <1>2, LoadKeepsInv, CreateKeepsInv, ItemsKeepInv, SendKeepsInv,
     VoidKeepsInv, TablesKeepInv, LockKeepsInv, CheckoutStepKeepsInv,
     SavePaidKeepsInv, FirstReadKeepsInv, CancelKeepsInv DEF Next
<1> QED BY <1>1, <1>2

\* What a step may not do to an order that is paid or void.
Closed(o) == order[o].status \in {"Paid", "Void"}

KeepsClosed ==
  \A o \in Orders :
    Closed(o) => /\ order'[o].status = order[o].status
                 /\ order'[o].items = order[o].items
                 /\ order'[o].pay = order[o].pay

LEMMA SavedOrderIsFinal ==
  ASSUME NEW o \in Orders,
         \A p \in Orders \ {o} : order'[p] = order[p],
         \/ order[o].status \notin {"Paid", "Void"}
         \/ /\ order'[o].status = order[o].status
            /\ order'[o].items = order[o].items
            /\ order'[o].pay = order[o].pay
  PROVE  KeepsClosed
BY DEF KeepsClosed, Closed

\* The edits and the end of a checkout save only a copy that is current, of
\* an order that is not closed; a note is saved on any order, but with the
\* status, the items and the payment it has.
LEMMA SaveIsFinal ==
  ASSUME EditInv, NEW r \in Requests,
         \/ AddItem(r) \/ UpdateItemQty(r) \/ SetNote(r)
         \/ SendOrder(r) \/ VoidOrder(r) \/ SavePaid(r)
  PROVE  KeepsClosed
<1> DEFINE o == job[r].o
<1>1. /\ o \in Orders
      /\ Holds(r, o)
      /\ pc[r] = "save" => Changeable(doc[r])
  BY DEF EditInv, JobOK, AddItem, UpdateItemQty, SetNote, SendOrder,
         VoidOrder, Voidable, SavePaid, OrderOps, Holds, PayPCs, PCs
<1>2. PICK d : order' = [order EXCEPT ![o] = d] /\ o \notin bumped[r]
  BY DEF AddItem, UpdateItemQty, SetNote, SendOrder, VoidOrder, SaveVoid,
         SavePaid, SaveOrder, CanSave
<1>3. \A p \in Orders \ {o} : order'[p] = order[p]
  BY <1>1, <1>2 DEF EditInv, TypeOK
<1>4. /\ doc[r].status = order[o].status
      /\ doc[r].items = order[o].items
      /\ job[r].op # "pay" => doc[r].pay = order[o].pay
  BY <1>1, <1>2 DEF EditInv, CopyIsCurrent
<1>5. CASE Changeable(doc[r])
  <2>1. order[o].status \notin {"Paid", "Void"}
    BY <1>4, <1>5 DEF Changeable
  <2> QED BY <1>1, <1>3, <2>1, SavedOrderIsFinal
<1>6. CASE ~Changeable(doc[r])
  <2>1. SetNote(r)
    BY <1>1, <1>6 DEF AddItem, UpdateItemQty, SendOrder, VoidOrder, Voidable,
                      SavePaid
  <2>2. order'[o] = doc[r] /\ job[r].op # "pay"
    BY <1>1, <2>1 DEF SetNote, SaveOrder, EditInv, TypeOK
  <2> QED BY <1>1, <1>3, <1>4, <2>2, SavedOrderIsFinal
<1> QED BY <1>5, <1>6

LEMMA CreateIsFinal ==
  ASSUME EditInv, NEW r \in Requests, CreateOrder(r)
  PROVE  KeepsClosed
<1> DEFINE o == job[r].o
<1>1. o \in Orders /\ order[o].status \notin {"Paid", "Void"}
  BY DEF CreateOrder, EditInv, JobOK
<1>2. PICK d : order' = [order EXCEPT ![o] = d]
  BY DEF CreateOrder
<1>3. \A p \in Orders \ {o} : order'[p] = order[p]
  BY <1>1, <1>2 DEF EditInv, TypeOK
<1> QED BY <1>1, <1>3, SavedOrderIsFinal

LEMMA LinkIsFinal ==
  ASSUME EditInv, NEW r \in Requests, PostInvoice(r) \/ RelinkInvoice(r)
  PROVE  KeepsClosed
<1>1. order' = [order EXCEPT ![job[r].o].inv = job[r].c]
  BY DEF PostInvoice, RelinkInvoice
<1> QED BY <1>1 DEF KeepsClosed, Closed, EditInv, TypeOK, OrderDoc

LEMMA NextIsFinal == EditInv /\ [Next]_vars => KeepsClosed
<1> SUFFICES ASSUME EditInv, [Next]_vars PROVE KeepsClosed
  OBVIOUS
<1>1. CASE UNCHANGED order
  BY <1>1 DEF KeepsClosed
<1>2. ASSUME NEW r \in Requests,
             \/ LoadCreate(r) \/ LoadOrder(r) \/ LoadTable(r) \/ LoadPay(r)
             \/ MarkBilling(r) \/ SetTableStatus(r) \/ LoseCreate(r) \/ LockOrder(r)
             \/ ResolveCustomer(r) \/ InvoiceExists(r) \/ PaymentFound(r)
             \/ PostPayment(r) \/ PaymentExists(r) \/ FirstRead(r)
             \/ EndRequest(r)
      PROVE  UNCHANGED order
  BY <1>2 DEF LoadCreate, LoadOrder, LoadTable, LoadPay, Arrive, MarkBilling,
     SetTableStatus, LoseCreate, SaveTable, LockOrder, ResolveCustomer, InvoiceExists,
     PaymentFound, PostPayment, PaymentExists, FirstRead, EndRequest, database
<1>3. ASSUME NEW c \in ClientIds, CancelInvoice(c) PROVE UNCHANGED order
  BY <1>3 DEF CancelInvoice
<1>4. CASE Next
  BY <1>1, <1>2, <1>3, <1>4, SaveIsFinal, CreateIsFinal, LinkIsFinal DEF Next
<1>5. CASE UNCHANGED vars
  BY <1>1, <1>5 DEF vars
<1> QED BY <1>4, <1>5

\* The inductive invariant holds of every reachable state.
THEOREM EditInvariant == Spec => []EditInv
BY InitInv, NextInv, PTL DEF Spec

\* All variables stay in their types (the documents and requests of
\* resto_pos_service.py).
THEOREM TypeCorrect == Spec => []TypeOK
<1>1. EditInv => TypeOK
  BY DEF EditInv
<1> QED BY <1>1, EditInvariant, PTL

\* The kitchen gets exactly one ticket per row sent, however many requests
\* send, edit, pay and void the order at once: kds_synced is saved under the
\* same check of `modified` as the tickets are inserted with.
THEOREM TicketsAreUnique == Spec => []OneTicketPerRow
<1>1. EditInv => OneTicketPerRow
  BY DEF EditInv
<1> QED BY <1>1, EditInvariant, PTL

\* A paid or void order keeps its status, items and payment for good: every
\* save of an order is of a copy that is current (optimistic locking) and,
\* except for a note, that was checked not to be closed.
THEOREM ClosedIsFinal == Spec => ClosedOrderIsFinal
<1>1. EditInv /\ [Next]_vars => [KeepsClosed]_vars
  BY NextIsFinal
<1>2. [KeepsClosed]_vars
        <=> [\A o \in Orders :
               order[o].status \in {"Paid", "Void"} =>
                 /\ order'[o].status = order[o].status
                 /\ order'[o].items = order[o].items
                 /\ order'[o].pay = order[o].pay]_vars
  BY DEF KeepsClosed, Closed
<1> QED BY <1>1, <1>2, EditInvariant, PTL DEF Spec, ClosedOrderIsFinal

-----------------------------------------------------------------------------
(* Checkout.  With snapshot isolation, the customers on file and client_ids *)
(* that are never used for two orders, the invoice link of an order is      *)
(* written once.                                                            *)

Regime ==
  /\ SnapshotIsolation
  /\ KnownCustomers = Customers
  /\ \A o, p \in Orders : o # p => KeysOf[o] \cap KeysOf[p] = {}

\* The link in the document of r: the order's or none.  It is the order's while r
\* holds the lock in checkout, and while nobody wrote the order since r loaded it.
LinkOK(r) ==
  LET o == job[r].o
  IN pc[r] # "idle" /\ o \in Orders =>
       /\ doc[r].inv \in {None, order[o].inv}
       /\ pc[r] \in {"customer", "invoice"} => lock[o] = r /\ doc[r].inv = order[o].inv
       /\ pc[r] = "invoice" => doc[r].inv = None
       /\ pc[r] = "ready" /\ o \notin touched[r] => doc[r].inv = order[o].inv

\* What checkout relies on in each request.
CheckoutOK(r) ==
  /\ pc[r] \in PayPCs => /\ job[r].c \in KeysOf[job[r].o]
                         /\ order[job[r].o].status # "Absent"
  /\ pc[r] # "relink"
  /\ pc[r] \in {"ready", "lock", "customer", "invoice"} => view[r] # None
  /\ view[r] # None => view[r].customers = Customers

\* Invoices and orders name each other.
Linked ==
  /\ \A c \in ClientIds :
       IF invoice[c].docstatus = 0 THEN invoice[c].order = None
       ELSE LET o == invoice[c].order
            IN o \in Orders /\ c \in KeysOf[o] /\ order[o].inv = c
  /\ \A o \in Orders :
       order[o].inv # None =>
         invoice[order[o].inv].docstatus # 0 /\ invoice[order[o].inv].order = o
  /\ \A o \in Orders : order[o].status = "Absent" => order[o].inv = None

LinkInv ==
  /\ customers = Customers
  /\ Linked
  /\ \A r \in Requests : LinkOK(r) /\ CheckoutOK(r)

LEMMA InitLinks ==
  ASSUME Regime, Init
  PROVE  LinkInv
<1>1. Linked
  BY DEF Init, Linked, NoInvoice, NoOrder
<1>2. \A r \in Requests : LinkOK(r) /\ CheckoutOK(r)
  BY DEF Init, LinkOK, CheckoutOK, PayPCs, PCs
<1> QED BY <1>1, <1>2 DEF Init, LinkInv, Regime

\* Steps that write no link leave the invoices and orders named as they are.
LEMMA LinkedStays ==
  ASSUME TypeOK, Linked,
         \A c \in ClientIds :
           /\ invoice'[c].order = invoice[c].order
           /\ invoice'[c].docstatus = 0 <=> invoice[c].docstatus = 0,
         \A p \in Orders :
           /\ order'[p].inv = order[p].inv
           /\ order'[p].status = "Absent" => order[p].status = "Absent"
  PROVE  Linked'
<1>1. \A p \in Orders : order[p].inv \in ClientIds \cup {None}
  BY DEF TypeOK, OrderDoc
<1> QED BY <1>1 DEF Linked

\* The other requests, after a step of r that writes no link.
LEMMA OthersStayLinked ==
  ASSUME TypeOK, NEW r \in Requests, NEW q \in Requests \ {r},
         LinkOK(q), CheckoutOK(q),
         pc'[q] = pc[q], job'[q] = job[q], doc'[q] = doc[q], view'[q] = view[q],
         touched[q] \subseteq touched'[q],
         \A o \in Orders : lock[o] = q => lock'[o] = q,
         \A p \in Orders :
           /\ order'[p].inv = order[p].inv
           /\ order'[p].status = "Absent" => order[p].status = "Absent",
         pc[q] \in PayPCs => job[q].o \in Orders
  PROVE  LinkOK(q)' /\ CheckoutOK(q)'
BY DEF LinkOK, CheckoutOK

LEMMA TouchGrows ==
  ASSUME Regime, TypeOK, NEW r \in Requests, NEW written, NEW q \in Requests \ {r},
         touched' = Touch(r, written)
  PROVE  touched'[q] = touched[q] \cup (written \cap Uses(q))
BY DEF Touch, Regime

\* A request ends, having saved no new link.
LEMMA ReturnKeepsLinks ==
  ASSUME Regime, EditInv, LinkInv, NEW r \in Requests, NEW saved,
         CommitAndReturn(r, saved), UNCHANGED <<invoice, customers>>,
         \A p \in Orders :
           /\ order'[p].inv = order[p].inv
           /\ order'[p].status = "Absent" => order[p].status = "Absent"
  PROVE  LinkInv'
<1>0. TypeOK
  BY DEF EditInv
<1>1. Linked'
  BY <1>0, LinkedStays DEF LinkInv
<1>2. ASSUME NEW q \in Requests \ {r} PROVE LinkOK(q)' /\ CheckoutOK(q)'
  <2>1. /\ pc'[q] = pc[q] /\ job'[q] = job[q] /\ doc'[q] = doc[q] /\ view'[q] = view[q]
        /\ \A o \in Orders : lock[o] = q => lock'[o] = q
    BY <1>0 DEF CommitAndReturn, TypeOK, Unlocked
  <2>2. touched[q] \subseteq touched'[q]
    <3>1. touched' = Touch(r, saved)
      BY DEF CommitAndReturn
    <3>2. touched'[q] = touched[q] \cup (saved \cap Uses(q))
      BY <1>0, <3>1, TouchGrows
    <3> QED BY <3>2
  <2>3. pc[q] \in PayPCs => job[q].o \in Orders
    BY DEF EditInv, JobOK
  <2> QED BY <1>0, <2>1, <2>2, <2>3, OthersStayLinked DEF LinkInv
<1>3. LinkOK(r)' /\ CheckoutOK(r)'
  <2>1. pc'[r] = "idle" /\ view'[r] = None
    BY <1>0 DEF CommitAndReturn, TypeOK
  <2> QED BY <2>1 DEF LinkOK, CheckoutOK, PayPCs, PCs
<1>4. \A q \in Requests : LinkOK(q)' /\ CheckoutOK(q)'
  BY <1>2, <1>3
<1>5. customers' = Customers
  BY DEF LinkInv
<1> QED BY <1>1, <1>4, <1>5 DEF LinkInv

\* The saves of orders: the link in the document is the order's.
LEMMA SavesKeepLinks ==
  ASSUME Regime, EditInv, LinkInv, NEW r \in Requests,
         \/ AddItem(r) \/ UpdateItemQty(r) \/ SetNote(r) \/ SendOrder(r)
         \/ VoidOrder(r) \/ SavePaid(r)
  PROVE  /\ LinkInv'
         /\ \A p \in Orders : order'[p].inv = order[p].inv
<1> DEFINE o == job[r].o
<1>1. /\ o \in Orders /\ Holds(r, o)
      /\ \/ pc[r] = "ready"
         \/ pc[r] = "save" /\ doc[r].inv # None
  BY DEF EditInv, JobOK, AddItem, UpdateItemQty, SetNote, SendOrder,
         VoidOrder, Voidable, SavePaid, OrderOps, Holds, PayPCs, PCs
<1>2. doc[r] \in OrderDoc /\ TypeOK
  BY DEF EditInv, TypeOK
<1>3. PICK d, saved :
        /\ order' = [order EXCEPT ![o] = d] /\ d.inv = doc[r].inv
        /\ d.status = "Absent" => doc[r].status = "Absent"
        /\ o \notin touched[r] /\ o \notin bumped[r] /\ CommitAndReturn(r, saved)
        /\ UNCHANGED <<invoice, customers>>
  <2>1. CASE AddItem(r) \/ UpdateItemQty(r)
    <3>1. PICK i \in Rows, n \in 1..MaxQty :
            SaveOrder(r, [doc[r] EXCEPT !.items[i] = n])
      BY <2>1 DEF AddItem, UpdateItemQty
    <3> DEFINE d == [doc[r] EXCEPT !.items[i] = n]
    <3>2. d.inv = doc[r].inv /\ d.status = doc[r].status
      BY <1>2 DEF OrderDoc
    <3> HIDE DEF d
    <3>3. SaveOrder(r, d)
      BY <3>1 DEF d
    <3> QED BY <3>2, <3>3 DEF SaveOrder, CanSave, NoConflict
  <2>2. CASE SetNote(r)
    BY <2>2 DEF SetNote, SaveOrder, CanSave, NoConflict
  <2>3. CASE SendOrder(r)
    <3>1. PICK syn : SaveOrder(r, [doc[r] EXCEPT !.status = "Sent", !.synced = syn])
      BY <2>3 DEF SendOrder
    <3> DEFINE d == [doc[r] EXCEPT !.status = "Sent", !.synced = syn]
    <3>2. d.inv = doc[r].inv /\ d.status = "Sent"
      BY <1>2 DEF OrderDoc
    <3> HIDE DEF d
    <3>3. SaveOrder(r, d)
      BY <3>1 DEF d
    <3> QED BY <3>2, <3>3 DEF SaveOrder, CanSave, NoConflict
  <2>4. CASE VoidOrder(r)
    <3> DEFINE d == [doc[r] EXCEPT !.status = "Void"]
    <3>1. d.inv = doc[r].inv /\ d.status = "Void"
      BY <1>2 DEF OrderDoc
    <3>2. /\ order' = [order EXCEPT ![o] = d] /\ CanSave(r, o)
          /\ UNCHANGED <<invoice, customers>>
          /\ \E saved : CommitAndReturn(r, saved)
      BY <2>4 DEF VoidOrder, SaveVoid
    <3> HIDE DEF d
    <3> QED BY <3>1, <3>2 DEF CanSave, NoConflict
  <2>5. CASE SavePaid(r)
    <3> DEFINE d == [doc[r] EXCEPT !.status = "Paid"]
    <3>1. d.inv = doc[r].inv /\ d.status = "Paid"
      BY <1>2 DEF OrderDoc
    <3> HIDE DEF d
    <3>2. SaveOrder(r, d)
      BY <2>5 DEF SavePaid, d
    <3> QED BY <3>1, <3>2 DEF SaveOrder, CanSave, NoConflict
  <2> QED BY <2>1, <2>2, <2>3, <2>4, <2>5
<1>4. doc[r].inv = order[o].inv /\ doc[r].status = order[o].status
  <2>1. doc[r].inv = order[o].inv
    BY <1>1, <1>3 DEF LinkInv, LinkOK, Holds
  <2>2. doc[r].status = order[o].status
    BY <1>1, <1>3 DEF EditInv, CopyIsCurrent
  <2> QED BY <2>1, <2>2
<1>5. \A p \in Orders :
        /\ order'[p].inv = order[p].inv
        /\ order'[p].status = "Absent" => order[p].status = "Absent"
  BY <1>2, <1>3, <1>4 DEF TypeOK
<1> QED BY <1>2, <1>3, <1>5, ReturnKeepsLinks

LEMMA CreateKeepsLinks ==
  ASSUME Regime, EditInv, LinkInv, NEW r \in Requests, CreateOrder(r)
  PROVE  /\ LinkInv'
         /\ \A p \in Orders : order'[p].inv = order[p].inv
<1> DEFINE o == job[r].o
<1>1. o \in Orders /\ order[o].status = "Absent" /\ TypeOK
  BY DEF EditInv, JobOK, CreateOrder
<1>2. PICK d, saved :
        /\ order' = [order EXCEPT ![o] = d] /\ d.inv = None /\ d.status = "Open"
        /\ CommitAndReturn(r, saved) /\ UNCHANGED <<invoice, customers>>
  <2>1. PICK items \in [Rows -> 0..MaxQty] :
          order' = [order EXCEPT ![o] =
                      [NoOrder EXCEPT !.status = "Open", !.table = job[r].t,
                                      !.items = items]]
    BY DEF CreateOrder
  <2> DEFINE d == [NoOrder EXCEPT !.status = "Open", !.table = job[r].t,
                                  !.items = items]
  <2>2. d.inv = None /\ d.status = "Open"
    BY DEF NoOrder
  <2>3. order' = [order EXCEPT ![o] = d]
    BY <2>1
  <2> HIDE DEF d
  <2>4. \E saved : CommitAndReturn(r, saved)
    BY DEF CreateOrder
  <2>5. UNCHANGED <<invoice, customers>>
    BY DEF CreateOrder
  <2> QED BY <2>2, <2>3, <2>4, <2>5
<1>3. \A p \in Orders :
        /\ order'[p].inv = order[p].inv
        /\ order'[p].status = "Absent" => order[p].status = "Absent"
  BY <1>1, <1>2 DEF TypeOK, LinkInv, Linked
<1> QED BY <1>2, <1>3, ReturnKeepsLinks

LEMMA TablesKeepLinks ==
  ASSUME Regime, EditInv, LinkInv, NEW r \in Requests,
         MarkBilling(r) \/ SetTableStatus(r) \/ LoseCreate(r) \/ EndRequest(r)
  PROVE  LinkInv'
<1>1. UNCHANGED <<order, invoice, customers>>
  BY DEF MarkBilling, SetTableStatus, LoseCreate, SaveTable, EndRequest, database
<1>2. PICK saved : CommitAndReturn(r, saved)
  BY DEF MarkBilling, SetTableStatus, LoseCreate, SaveTable, EndRequest
<1> QED BY <1>1, <1>2, ReturnKeepsLinks

\* A request that goes on, or begins, and writes no link.
LEMMA StepKeepsLinks ==
  ASSUME Regime, EditInv, LinkInv, NEW r \in Requests,
         LinkOK(r)', CheckoutOK(r)',
         \A q \in Requests \ {r} :
           /\ pc'[q] = pc[q] /\ job'[q] = job[q]
           /\ doc'[q] = doc[q] /\ view'[q] = view[q]
           /\ touched[q] \subseteq touched'[q]
           /\ \A p \in Orders : lock[p] = q => lock'[p] = q,
         \A c \in ClientIds :
           /\ invoice'[c].order = invoice[c].order
           /\ invoice'[c].docstatus = 0 <=> invoice[c].docstatus = 0,
         UNCHANGED <<order, customers>>
  PROVE  LinkInv'
<1>0. TypeOK
  BY DEF EditInv
<1>1. Linked'
  BY <1>0, LinkedStays DEF LinkInv
<1>2. ASSUME NEW q \in Requests \ {r} PROVE LinkOK(q)' /\ CheckoutOK(q)'
  <2>1. pc[q] \in PayPCs => job[q].o \in Orders
    BY DEF EditInv, JobOK
  <2> QED BY <1>0, <2>1, OthersStayLinked DEF LinkInv
<1>3. \A q \in Requests : LinkOK(q)' /\ CheckoutOK(q)'
  BY <1>2
<1>4. customers' = Customers
  BY DEF LinkInv
<1> QED BY <1>1, <1>3, <1>4 DEF LinkInv

\* A request arrives at `at` with a fresh copy of its order.
LEMMA ArriveKeepsLinks ==
  ASSUME Regime, EditInv, LinkInv, NEW r \in Requests,
         NEW at \in {"ready", "lock"}, NEW j \in Job, Arrive(r, at, j),
         at = "lock" => /\ j.o \in Orders /\ j.c \in KeysOf[j.o]
                        /\ order[j.o].status # "Absent"
  PROVE  LinkInv'
<1>0. TypeOK
  BY DEF EditInv
<1>1. /\ pc'[r] = at /\ job'[r] = j
      /\ j.o \in Orders => doc'[r] = order[j.o]
      /\ view'[r] = Snapshot
      /\ UNCHANGED <<order, invoice, customers, lock, touched>>
  BY <1>0 DEF Arrive, TypeOK
<1>2. view'[r] # None /\ view'[r].customers = Customers
  BY <1>0, <1>1, SnapshotTyped, ViewAssumption DEF Snapshot, LinkInv
<1>3. LinkOK(r)'
  BY <1>1 DEF LinkOK
<1>4. CheckoutOK(r)'
  BY <1>1, <1>2 DEF CheckoutOK, PayPCs
<1>5. ASSUME NEW q \in Requests \ {r}
      PROVE  /\ pc'[q] = pc[q] /\ job'[q] = job[q]
             /\ doc'[q] = doc[q] /\ view'[q] = view[q]
  BY <1>0 DEF Arrive, TypeOK
<1> QED BY <1>1, <1>3, <1>4, <1>5, StepKeepsLinks

LEMMA LoadsKeepLinks ==
  ASSUME Regime, EditInv, LinkInv, NEW r \in Requests,
         LoadCreate(r) \/ LoadOrder(r) \/ LoadTable(r) \/ LoadPay(r)
  PROVE  LinkInv'
<1>1. CASE LoadCreate(r)
  <2>1. PICK o \in Orders, t \in Tables \cup {None} :
          Arrive(r, "ready",
                 [NoJob EXCEPT !.op = "create_order", !.o = o, !.t = t])
    BY <1>1, ConstantsAssumption DEF LoadCreate
  <2>2. [NoJob EXCEPT !.op = "create_order", !.o = o, !.t = t] \in Job
    BY DEF Job, NoJob
  <2> QED BY <2>1, <2>2, ArriveKeepsLinks
<1>2. CASE LoadOrder(r)
  <2>1. PICK op \in OrderOps, o \in Orders :
          Arrive(r, "ready",
                 [NoJob EXCEPT !.op = op, !.o = o, !.t = order[o].table])
    BY <1>2 DEF LoadOrder
  <2>2. [NoJob EXCEPT !.op = op, !.o = o, !.t = order[o].table] \in Job
    BY DEF Job, NoJob, EditInv, TypeOK, OrderDoc
  <2> QED BY <2>1, <2>2, ArriveKeepsLinks
<1>3. CASE LoadTable(r)
  <2>1. PICK t \in Tables :
          Arrive(r, "ready", [NoJob EXCEPT !.op = "set_table_status", !.t = t])
    BY <1>3 DEF LoadTable
  <2>2. [NoJob EXCEPT !.op = "set_table_status", !.t = t] \in Job
    BY DEF Job, NoJob
  <2> QED BY <2>1, <2>2, ArriveKeepsLinks
<1>4. CASE LoadPay(r)
  <2>1. PICK o \in Orders, cod \in BOOLEAN :
          \E c \in KeysOf[o] :
            /\ order[o].status # "Absent"
            /\ Arrive(r, "lock", [NoJob EXCEPT !.op = "pay", !.o = o, !.c = c,
                                               !.cod = cod])
    BY <1>4 DEF LoadPay
  <2>2. PICK c \in KeysOf[o] :
          /\ order[o].status # "Absent"
          /\ Arrive(r, "lock", [NoJob EXCEPT !.op = "pay", !.o = o, !.c = c,
                                             !.cod = cod])
    BY <2>1
  <2> DEFINE j == [NoJob EXCEPT !.op = "pay", !.o = o, !.c = c, !.cod = cod]
  <2>3. j \in Job /\ j.o = o /\ j.c = c
    BY DEF Job, NoJob
  <2>4. Arrive(r, "lock", j)
    BY <2>2
  <2> HIDE DEF j
  <2> QED BY <2>2, <2>3, <2>4, ArriveKeepsLinks
<1> QED BY <1>1, <1>2, <1>3, <1>4

LEMMA LockKeepsLinks ==
  ASSUME Regime, EditInv, LinkInv, NEW r \in Requests, LockOrder(r)
  PROVE  LinkInv'
<1> DEFINE o == job[r].o
<1>0. TypeOK /\ o \in Orders
  BY DEF EditInv, JobOK, LockOrder, PayPCs, PCs
<1>1. /\ pc'[r] = "customer" /\ job' = job /\ view' = view
      /\ doc'[r].inv = order[o].inv /\ lock'[o] = r
      /\ UNCHANGED <<order, invoice, customers, touched>>
  <2>1. doc[r] \in OrderDoc
    BY <1>0 DEF TypeOK
  <2> QED BY <1>0, <2>1 DEF LockOrder, TypeOK, OrderDoc
<1>2. LinkOK(r)'
  BY <1>0, <1>1 DEF LinkOK
<1>3. CheckoutOK(r)
  BY DEF LinkInv
<1>4. CheckoutOK(r)'
  BY <1>1, <1>3 DEF CheckoutOK, LockOrder, PayPCs, PCs
<1>5. ASSUME NEW q \in Requests \ {r}
      PROVE  /\ pc'[q] = pc[q] /\ doc'[q] = doc[q]
             /\ \A p \in Orders : lock[p] = q => lock'[p] = q
  BY <1>0 DEF LockOrder, TypeOK
<1> QED BY <1>1, <1>2, <1>4, <1>5, StepKeepsLinks

LEMMA FirstReadKeepsLinks ==
  ASSUME Regime, EditInv, LinkInv, NEW r \in Requests, FirstRead(r)
  PROVE  LinkInv'
<1>0. TypeOK
  BY DEF EditInv
<1>1. /\ view'[r] = Snapshot
      /\ UNCHANGED <<order, invoice, customers, lock, pc, job, doc>>
      /\ \A q \in Requests \ {r} :
           view'[q] = view[q] /\ touched[q] \subseteq touched'[q]
  BY <1>0 DEF FirstRead, TypeOK
<1>2. view'[r] # None /\ view'[r].customers = Customers
  BY <1>0, <1>1, SnapshotTyped, ViewAssumption DEF Snapshot, LinkInv
<1>3. pc[r] # "ready" /\ LinkOK(r) /\ CheckoutOK(r)
  BY DEF FirstRead, LinkInv, CheckoutOK
<1>4. LinkOK(r)' /\ CheckoutOK(r)'
  BY <1>1, <1>2, <1>3 DEF LinkOK, CheckoutOK
<1> QED BY <1>1, <1>4, StepKeepsLinks

LEMMA CancelKeepsLinks ==
  ASSUME Regime, EditInv, LinkInv, NEW c \in ClientIds, CancelInvoice(c)
  PROVE  LinkInv'
<1>0. TypeOK
  BY DEF EditInv
<1>1. \A d \in ClientIds :
        /\ invoice'[d].order = invoice[d].order
        /\ invoice'[d].docstatus = 0 <=> invoice[d].docstatus = 0
  <2>1. invoice' = [invoice EXCEPT ![c].docstatus = 2, ![c].paid = 0]
    BY DEF CancelInvoice
  <2>2. invoice[c].docstatus = 1
    BY DEF CancelInvoice
  <2>3. invoice[c] \in InvoiceDoc
    BY <1>0 DEF TypeOK
  <2> QED BY <1>0, <2>1, <2>2, <2>3 DEF TypeOK, InvoiceDoc
<1>2. /\ UNCHANGED <<order, customers, lock, pc, job, doc, view>>
      /\ \A q \in Requests : touched[q] \subseteq touched'[q]
  BY DEF CancelInvoice, Regime
<1>3. Linked'
  BY <1>0, <1>1, <1>2, LinkedStays DEF LinkInv
<1>4. ASSUME NEW q \in Requests PROVE LinkOK(q)' /\ CheckoutOK(q)'
  <2>1. LinkOK(q) /\ CheckoutOK(q)
    BY DEF LinkInv
  <2> QED BY <1>2, <2>1 DEF LinkOK, CheckoutOK
<1>5. customers' = Customers
  BY <1>2 DEF LinkInv
<1> QED BY <1>3, <1>4, <1>5 DEF LinkInv

\* What the other requests see of a request that commits and goes on.
LEMMA GoOnKeepsOthers ==
  ASSUME Regime, TypeOK, NEW r \in Requests, NEW written, NEW next,
         CommitAndGoOn(r, written, next), NEW q \in Requests \ {r}
  PROVE  /\ pc'[q] = pc[q] /\ job'[q] = job[q] /\ view'[q] = view[q]
         /\ touched'[q] = touched[q] \cup (written \cap Uses(q))
         /\ \A p \in Orders : lock[p] = q => lock'[p] = q
<1>1. touched' = Touch(r, written)
  BY DEF CommitAndGoOn
<1>2. touched'[q] = touched[q] \cup (written \cap Uses(q))
  BY <1>1, TouchGrows
<1>3. /\ pc'[q] = pc[q] /\ job'[q] = job[q] /\ view'[q] = view[q]
      /\ \A p \in Orders : lock[p] = q => lock'[p] = q
  BY DEF CommitAndGoOn, TypeOK, Unlocked
<1> QED BY <1>2, <1>3

\* Every customer is on file.
LEMMA ResolveKeepsLinks ==
  ASSUME Regime, EditInv, LinkInv, NEW r \in Requests, ResolveCustomer(r)
  PROVE  LinkInv'
<1> DEFINE o == job[r].o
<1>0. /\ TypeOK /\ o \in Orders /\ LinkOK(r) /\ CheckoutOK(r)
      /\ pc[r] = "customer"
  BY DEF EditInv, JobOK, ResolveCustomer, PayPCs, PCs, LinkInv
<1>1. CustomerOf[o] \in view[r].customers
  BY <1>0 DEF CheckoutOK
<1>2. /\ pc'[r] = IF doc[r].inv = None THEN "invoice" ELSE AfterInvoice(job[r])
      /\ \A q \in Requests \ {r} : pc'[q] = pc[q]
      /\ UNCHANGED <<order, invoice, customers, lock, job, doc, view, touched>>
  BY <1>0, <1>1 DEF ResolveCustomer, TypeOK
<1>3. AfterInvoice(job[r]) \in {"entry", "save"}
  BY DEF AfterInvoice
<1>4. LinkOK(r)'
  BY <1>0, <1>2, <1>3 DEF LinkOK
<1>5. CheckoutOK(r)'
  BY <1>0, <1>2, <1>3 DEF CheckoutOK, PayPCs, PCs
<1> QED BY <1>2, <1>4, <1>5, StepKeepsLinks

\* The invoice of a client_id is that of the order paid under it, so the
\* insert cannot meet it while the order remembers none.
LEMMA InvoiceIsNew ==
  ASSUME Regime, EditInv, LinkInv, NEW r \in Requests, pc[r] = "invoice"
  PROVE  /\ job[r].o \in Orders /\ job[r].c \in KeysOf[job[r].o]
         /\ order[job[r].o].inv = None /\ lock[job[r].o] = r
         /\ invoice[job[r].c].docstatus = 0
<1>1. /\ job[r].o \in Orders /\ job[r].c \in KeysOf[job[r].o]
      /\ order[job[r].o].inv = None /\ lock[job[r].o] = r
  BY DEF EditInv, JobOK, PayPCs, PCs, LinkInv, LinkOK, CheckoutOK
<1>2. job[r].c \in ClientIds
  BY DEF EditInv, JobOK, PayPCs, PCs
<1>3. invoice[job[r].c].docstatus # 0 =>
        LET p == invoice[job[r].c].order
        IN p \in Orders /\ job[r].c \in KeysOf[p] /\ order[p].inv = job[r].c
  BY <1>2 DEF LinkInv, Linked
<1> QED BY <1>1, <1>2, <1>3 DEF Regime

\* The one step that links: nobody else has a link to lose.
LEMMA PostKeepsLinks ==
  ASSUME Regime, EditInv, LinkInv, NEW r \in Requests, PostInvoice(r)
  PROVE  LinkInv'
<1> DEFINE o == job[r].o
           c == job[r].c
<1>0. /\ TypeOK /\ o \in Orders /\ LinkOK(r) /\ CheckoutOK(r)
      /\ pc[r] = "invoice" /\ c \in ClientIds
  BY DEF EditInv, JobOK, PostInvoice, PayPCs, PCs, LinkInv
<1>1. c \in KeysOf[o] /\ order[o].inv = None /\ lock[o] = r
  BY <1>0, InvoiceIsNew
<1>2. /\ invoice'[c].docstatus = 1 /\ invoice'[c].order = o
      /\ \A d \in ClientIds \ {c} : invoice'[d] = invoice[d]
      /\ order'[o].inv = c /\ order'[o].status = order[o].status
      /\ \A p \in Orders \ {o} : order'[p] = order[p]
      /\ customers' = customers
  <2>1. order[o] \in OrderDoc
    BY <1>0 DEF TypeOK
  <2> QED BY <1>0, <2>1 DEF PostInvoice, TypeOK, OrderDoc
<1>3. CommitAndGoOn(r, {o, c}, AfterInvoice(job[r]))
  BY DEF PostInvoice
<1>4. /\ pc'[r] = AfterInvoice(job[r]) /\ job' = job /\ view'[r] = None
      /\ doc'[r].inv = c
      /\ \A q \in Requests \ {r} : doc'[q] = doc[q]
  <2>1. doc[r] \in OrderDoc
    BY <1>0 DEF TypeOK
  <2>2. view'[r] = None
    BY <1>0, <1>3 DEF CommitAndGoOn, TypeOK
  <2> QED BY <1>0, <1>3, <2>1, <2>2, GoOnFrame DEF PostInvoice, TypeOK, OrderDoc
<1>5. AfterInvoice(job[r]) \in {"entry", "save"}
  BY DEF AfterInvoice
<1>6. Linked'
  <2>1. order[o].status # "Absent"
    BY <1>0 DEF CheckoutOK, PayPCs, PCs
  <2>2. c # None /\ invoice[c].docstatus = 0
    BY <1>0, InvoiceIsNew
  <2>3. \A p \in Orders : order[p].inv \in ClientIds \cup {None}
    BY <1>0 DEF TypeOK, OrderDoc
  <2>4. \A d \in ClientIds :
          IF invoice'[d].docstatus = 0 THEN invoice'[d].order = None
          ELSE /\ invoice'[d].order \in Orders
               /\ d \in KeysOf[invoice'[d].order]
               /\ order'[invoice'[d].order].inv = d
    BY <1>0, <1>1, <1>2 DEF LinkInv, Linked
  <2>5. \A p \in Orders :
          /\ order'[p].inv # None => /\ invoice'[order'[p].inv].docstatus # 0
                                     /\ invoice'[order'[p].inv].order = p
          /\ order'[p].status = "Absent" => order'[p].inv = None
    BY <1>0, <1>2, <2>1, <2>2, <2>3 DEF LinkInv, Linked
  <2> QED BY <2>4, <2>5 DEF Linked
<1>7. LinkOK(r)' /\ CheckoutOK(r)'
  BY <1>0, <1>1, <1>2, <1>4, <1>5 DEF LinkOK, CheckoutOK, PayPCs, PCs
<1>8. ASSUME NEW q \in Requests \ {r} PROVE LinkOK(q)' /\ CheckoutOK(q)'
  <2>1. /\ pc'[q] = pc[q] /\ view'[q] = view[q] /\ doc'[q] = doc[q]
        /\ touched'[q] = touched[q] \cup ({o, c} \cap Uses(q))
        /\ \A p \in Orders : lock[p] = q => lock'[p] = q
    BY <1>0, <1>3, <1>4, GoOnKeepsOthers
  <2>2. LinkOK(q) /\ CheckoutOK(q)
    BY DEF LinkInv
  <2>3. pc[q] \in PayPCs => job[q].o \in Orders
    BY DEF EditInv, JobOK
  <2>4. CheckoutOK(q)'
    BY <1>2, <1>4, <2>1, <2>2, <2>3 DEF CheckoutOK
  <2>5. CASE job[q].o # o
    BY <1>2, <1>4, <2>1, <2>2, <2>4, <2>5 DEF LinkOK
  <2>6. CASE job[q].o = o
    <3>1. pc[q] # "idle" => o \in touched'[q]
      BY <2>1, <2>6 DEF Uses, Live
    <3>2. pc[q] # "idle" => doc[q].inv = None
      BY <1>0, <1>1, <2>2, <2>6 DEF LinkOK
    <3>3. pc[q] \notin {"customer", "invoice"}
      BY <1>0, <1>1, <2>2, <2>6 DEF LinkOK
    <3>4. LinkOK(q)'
      BY <1>4, <2>1, <2>6, <3>1, <3>2, <3>3 DEF LinkOK
    <3> QED BY <3>4, <2>4
  <2> QED BY <2>4, <2>5, <2>6
<1>9. \A q \in Requests : LinkOK(q)' /\ CheckoutOK(q)'
  BY <1>7, <1>8
<1>10. customers' = Customers
  BY <1>2 DEF LinkInv
<1> QED BY <1>6, <1>9, <1>10 DEF LinkInv

\* ... and so neither of these is taken.
LEMMA NoRelink ==
  ASSUME Regime, EditInv, LinkInv, NEW r \in Requests
  PROVE  ~InvoiceExists(r) /\ ~RelinkInvoice(r)
<1>1. ~InvoiceExists(r)
  BY InvoiceIsNew DEF InvoiceExists
<1>2. ~RelinkInvoice(r)
  BY DEF RelinkInvoice, LinkInv, CheckoutOK
<1> QED BY <1>1, <1>2

LEMMA PaymentKeepsLinks ==
  ASSUME Regime, EditInv, LinkInv, NEW r \in Requests,
         PaymentFound(r) \/ PostPayment(r) \/ PaymentExists(r)
  PROVE  LinkInv'
<1>0. /\ TypeOK /\ LinkOK(r) /\ CheckoutOK(r)
      /\ pc[r] = "entry" /\ job[r].o \in Orders
  BY DEF EditInv, JobOK, PaymentFound, PostPayment, PaymentExists, PayPCs, PCs,
         LinkInv
<1>1. \A d \in ClientIds :
        /\ invoice'[d].order = invoice[d].order
        /\ invoice'[d].docstatus = 0 <=> invoice[d].docstatus = 0
  <2>1. CASE PostPayment(r)
    <3>1. invoice' = [invoice EXCEPT ![doc[r].inv].paid = @ + 1]
      BY <2>1 DEF PostPayment
    <3> QED BY <1>0, <3>1 DEF TypeOK, InvoiceDoc
  <2>2. CASE PaymentFound(r) \/ PaymentExists(r)
    BY <2>2 DEF PaymentFound, PaymentExists
  <2> QED BY <2>1, <2>2
<1>2. /\ pc'[r] = "save" /\ job' = job
      /\ view'[r] \in {view[r], None}
      /\ doc'[r].inv = doc[r].inv
      /\ UNCHANGED <<order, customers>>
  <2>1. doc[r] \in OrderDoc
    BY <1>0 DEF TypeOK
  <2>2. CASE PostPayment(r) \/ PaymentExists(r)
    BY <1>0, <2>1, <2>2
       DEF PostPayment, PaymentExists, CommitAndGoOn, TypeOK, OrderDoc
  <2>3. CASE PaymentFound(r)
    BY <1>0, <2>1, <2>3 DEF PaymentFound, TypeOK, OrderDoc
  <2> QED BY <2>2, <2>3
<1>3. LinkOK(r)' /\ CheckoutOK(r)'
  BY <1>0, <1>2 DEF LinkOK, CheckoutOK, PayPCs, PCs
<1>4. ASSUME NEW q \in Requests \ {r}
      PROVE  /\ pc'[q] = pc[q] /\ doc'[q] = doc[q] /\ view'[q] = view[q]
             /\ touched[q] \subseteq touched'[q]
             /\ \A p \in Orders : lock[p] = q => lock'[p] = q
  <2>1. doc'[q] = doc[q]
    BY <1>0 DEF PaymentFound, PostPayment, PaymentExists, TypeOK
  <2>2. CASE PaymentFound(r)
    BY <1>0, <2>1, <2>2 DEF PaymentFound, TypeOK
  <2>3. CASE PostPayment(r) \/ PaymentExists(r)
    <3>1. PICK written : CommitAndGoOn(r, written, "save")
      BY <2>3 DEF PostPayment, PaymentExists
    <3> QED BY <1>0, <2>1, <3>1, GoOnKeepsOthers
  <2> QED BY <2>2, <2>3
<1> QED BY <1>1, <1>2, <1>3, <1>4, StepKeepsLinks

LEMMA NextLinks == Regime /\ EditInv /\ LinkInv /\ [Next]_vars => LinkInv'
<1> SUFFICES ASSUME Regime, EditInv, LinkInv, [Next]_vars PROVE LinkInv'
  OBVIOUS
<1>1. CASE UNCHANGED vars
  BY <1>1 DEF vars, LinkInv, Linked, LinkOK, CheckoutOK
<1>2. CASE \E c \in ClientIds : CancelInvoice(c)
  BY <1>2, CancelKeepsLinks
<1>3. ASSUME NEW r \in Requests,
             \/ LoadCreate(r) \/ CreateOrder(r)
             \/ LoadOrder(r) \/ AddItem(r) \/ UpdateItemQty(r) \/ SetNote(r)
             \/ SendOrder(r) \/ VoidOrder(r) \/ MarkBilling(r)
             \/ LoadTable(r) \/ SetTableStatus(r) \/ LoseCreate(r)
             \/ LoadPay(r) \/ LockOrder(r) \/ ResolveCustomer(r)
             \/ PostInvoice(r) \/ InvoiceExists(r) \/ RelinkInvoice(r)
             \/ PaymentFound(r) \/ PostPayment(r) \/ PaymentExists(r)
             \/ SavePaid(r) \/ FirstRead(r) \/ EndRequest(r)
      PROVE  LinkInv'
  BY <1>3, CreateKeepsLinks, LoadsKeepLinks, SavesKeepLinks, TablesKeepLinks,
     LockKeepsLinks, ResolveKeepsLinks, PostKeepsLinks, NoRelink,
     PaymentKeepsLinks, FirstReadKeepsLinks
<1> QED BY <1>1, <1>2, <1>3 DEF Next

LEMMA CheckoutInvariant ==
  ASSUME Regime
  PROVE  Spec => [](EditInv /\ LinkInv)
<1>1. Init => EditInv /\ LinkInv
  BY InitInv, InitLinks
<1>2. EditInv /\ LinkInv /\ [Next]_vars => (EditInv /\ LinkInv)'
  BY NextInv, NextLinks
<1> QED BY <1>1, <1>2, PTL DEF Spec

\* A posted invoice is the one its order remembers, at any number of tills:
\* PostInvoice writes the link in the invoice's own commit, under the lock
\* that LockOrder took, and no save of the order can carry an older link.
THEOREM InvoicesAreRemembered ==
  ASSUME Regime
  PROVE  Spec => []InvoiceRemembered
<1>1. LinkInv => InvoiceRemembered
  BY DEF LinkInv, Linked, InvoiceRemembered
<1> QED BY <1>1, CheckoutInvariant, PTL

\* However often, by whomever and under whichever client_id an order is paid,
\* it is invoiced once: a second checkout finds the link under the row lock.
THEOREM OrdersAreInvoicedOnce ==
  ASSUME Regime
  PROVE  Spec => []OneInvoicePerOrder
<1>1. LinkInv => OneInvoicePerOrder
  BY DEF LinkInv, Linked, OneInvoicePerOrder
<1> QED BY <1>1, CheckoutInvariant, PTL

-----------------------------------------------------------------------------
(* The money.  What a checkout read of its invoice is still true when the   *)
(* database lets it post the payment.                                       *)

\* The payment that client_id c of order o stands for exists.
Known(o, c) == c \in KeysOf[o] /\ payment[c].docstatus # 0

\* What a checkout knows of the money.
MoneyOK(r) ==
  LET o == job[r].o
  IN pc[r] \in PayPCs =>
       /\ job[r].cod => o \in DeliveryOrders
       /\ doc[r].pay # None => Known(o, doc[r].pay)
       /\ pc[r] = "save" /\ doc[r].pay = None => job[r].cod
       /\ view[r] # None =>
            \A c \in KeysOf[o] :
              /\ c \notin touched[r] => view[r].invoice[c] = invoice[c]
              /\ view[r].payment[c].docstatus # 0 => payment[c].docstatus # 0

\* What an order knows of its payment.
PaidOK(o) ==
  /\ order[o].pay # None => Known(o, order[o].pay)
  /\ order[o].status = "Paid" /\ order[o].pay = None => o \in DeliveryOrders

\* The payments of an order are all for its one invoice.
PaymentsFit ==
  \A o \in Orders : \A c \in KeysOf[o] :
    payment[c].docstatus # 0 =>
      order[o].inv # None /\ payment[c].inv = order[o].inv

MoneyInv ==
  /\ NoDoublePayment
  /\ PaymentsFit
  /\ \A o \in Orders : PaidOK(o)
  /\ \A r \in Requests : MoneyOK(r)

LEMMA InitMoney ==
  ASSUME Init
  PROVE  MoneyInv
<1>1. NoDoublePayment /\ PaymentsFit /\ \A o \in Orders : PaidOK(o)
  BY DEF Init, NoDoublePayment, PaymentsFit, PaidOK, NoInvoice, NoPayment, NoOrder
<1>2. \A r \in Requests : MoneyOK(r)
  BY DEF Init, MoneyOK, PayPCs
<1> QED BY <1>1, <1>2 DEF MoneyInv

RequestStep(r) ==
  \/ LoadCreate(r) \/ CreateOrder(r)
  \/ LoadOrder(r) \/ AddItem(r) \/ UpdateItemQty(r) \/ SetNote(r)
  \/ SendOrder(r) \/ VoidOrder(r) \/ MarkBilling(r)
  \/ LoadTable(r) \/ SetTableStatus(r) \/ LoseCreate(r)
  \/ LoadPay(r) \/ LockOrder(r) \/ ResolveCustomer(r)
  \/ PostInvoice(r) \/ InvoiceExists(r) \/ RelinkInvoice(r)
  \/ PaymentFound(r) \/ PostPayment(r) \/ PaymentExists(r)
  \/ SavePaid(r) \/ FirstRead(r) \/ EndRequest(r)

\* A step of one request leaves the others as they are.
LEMMA OthersFrame ==
  ASSUME Regime, TypeOK, NEW r \in Requests, RequestStep(r),
         NEW q \in Requests \ {r}
  PROVE  /\ pc'[q] = pc[q] /\ job'[q] = job[q]
         /\ doc'[q] = doc[q] /\ view'[q] = view[q]
         /\ touched[q] \subseteq touched'[q]
<1>1. CASE \E saved : CommitAndReturn(r, saved)
  <2>1. PICK saved : CommitAndReturn(r, saved)
    BY <1>1
  <2>2. touched' = Touch(r, saved)
    BY <2>1 DEF CommitAndReturn
  <2>3. touched'[q] = touched[q] \cup (saved \cap Uses(q))
    BY <2>2, TouchGrows
  <2> QED BY <2>1, <2>3 DEF CommitAndReturn, TypeOK
<1>2. CASE \E at, j : Arrive(r, at, j)
  BY <1>2 DEF Arrive, TypeOK
<1>3. CASE \/ ResolveCustomer(r) \/ PostInvoice(r) \/ InvoiceExists(r)
           \/ RelinkInvoice(r) \/ PaymentFound(r) \/ PostPayment(r)
           \/ PaymentExists(r)
  <2>1. doc'[q] = doc[q]
    BY <1>3 DEF ResolveCustomer, PostInvoice, InvoiceExists, RelinkInvoice,
                PaymentFound, PostPayment, PaymentExists, TypeOK
  <2>2. CASE \E written, next : CommitAndGoOn(r, written, next)
    BY <2>1, <2>2, GoOnKeepsOthers
  <2>3. CASE pc' = [pc EXCEPT ![r] = pc'[r]] /\ UNCHANGED <<job, view, touched>>
    BY <2>1, <2>3 DEF TypeOK
  <2>4. \/ \E written, next : CommitAndGoOn(r, written, next)
        \/ pc' = [pc EXCEPT ![r] = pc'[r]] /\ UNCHANGED <<job, view, touched>>
    BY <1>3 DEF ResolveCustomer, PostInvoice, InvoiceExists, RelinkInvoice,
                PaymentFound, PostPayment, PaymentExists, TypeOK
  <2> QED BY <2>2, <2>3, <2>4
<1>4. CASE LockOrder(r) \/ FirstRead(r)
  BY <1>4 DEF LockOrder, FirstRead, TypeOK
<1>5. CASE LoadCreate(r) \/ LoadOrder(r) \/ LoadTable(r) \/ LoadPay(r)
  BY <1>2, <1>5 DEF LoadCreate, LoadOrder, LoadTable, LoadPay
<1>6. CASE \/ CreateOrder(r) \/ AddItem(r) \/ UpdateItemQty(r) \/ SetNote(r)
           \/ SendOrder(r) \/ SavePaid(r) \/ MarkBilling(r)
           \/ SetTableStatus(r) \/ LoseCreate(r) \/ EndRequest(r) \/ VoidOrder(r)
  BY <1>1, <1>6 DEF CreateOrder, AddItem, UpdateItemQty, SetNote, SendOrder,
                    SavePaid, SaveOrder, MarkBilling, SetTableStatus, LoseCreate, SaveTable,
                    EndRequest, VoidOrder, SaveVoid
<1> QED BY <1>3, <1>4, <1>5, <1>6 DEF RequestStep

\* A step that touches no invoice and no payment.
LEMMA MoneyStays ==
  ASSUME Regime, EditInv, MoneyInv, NEW r \in Requests, RequestStep(r),
         UNCHANGED <<invoice, payment>>,
         \A p \in Orders : order'[p].inv = order[p].inv,
         \A p \in Orders : PaidOK(p)',
         MoneyOK(r)'
  PROVE  MoneyInv'
<1>1. TypeOK
  BY DEF EditInv
<1>2. NoDoublePayment' /\ PaymentsFit'
  BY DEF MoneyInv, NoDoublePayment, PaymentsFit
<1>3. ASSUME NEW q \in Requests \ {r} PROVE MoneyOK(q)'
  <2>1. /\ pc'[q] = pc[q] /\ job'[q] = job[q]
        /\ doc'[q] = doc[q] /\ view'[q] = view[q]
        /\ touched[q] \subseteq touched'[q]
    BY <1>1, OthersFrame
  <2>2. MoneyOK(q)
    BY DEF MoneyInv
  <2> QED BY <2>1, <2>2 DEF MoneyOK, Known
<1>4. \A q \in Requests : MoneyOK(q)'
  BY <1>3
<1> QED BY <1>2, <1>4 DEF MoneyInv

\* ... and no order either.
LEMMA MoneyRests ==
  ASSUME Regime, EditInv, MoneyInv, NEW r \in Requests, RequestStep(r),
         UNCHANGED <<order, invoice, payment>>,
         MoneyOK(r)'
  PROVE  MoneyInv'
<1>1. \A p \in Orders : PaidOK(p)'
  BY DEF MoneyInv, PaidOK, Known
<1> QED BY <1>1, MoneyStays

LEMMA QuietStepsKeepMoney ==
  ASSUME Regime, EditInv, LinkInv, MoneyInv, NEW r \in Requests,
         MarkBilling(r) \/ SetTableStatus(r) \/ LoseCreate(r) \/ EndRequest(r)
  PROVE  MoneyInv'
<1>0. TypeOK /\ RequestStep(r)
  BY DEF EditInv, RequestStep
<1>1. UNCHANGED <<order, invoice, payment>>
  BY DEF MarkBilling, SetTableStatus, LoseCreate, SaveTable, EndRequest, database
<1>2. PICK saved : CommitAndReturn(r, saved)
  BY DEF MarkBilling, SetTableStatus, LoseCreate, SaveTable, EndRequest
<1>3. pc'[r] = "idle"
  BY <1>0, <1>2 DEF CommitAndReturn, TypeOK
<1>4. MoneyOK(r)'
  BY <1>3 DEF MoneyOK, PayPCs
<1> QED BY <1>0, <1>1, <1>4, MoneyRests

\* A save writes the payment the order has, or the one the checkout knows.
LEMMA SavesKeepMoney ==
  ASSUME Regime, EditInv, LinkInv, MoneyInv, NEW r \in Requests,
         \/ CreateOrder(r) \/ AddItem(r) \/ UpdateItemQty(r) \/ SetNote(r)
         \/ SendOrder(r) \/ VoidOrder(r) \/ SavePaid(r)
  PROVE  MoneyInv'
<1> DEFINE o == job[r].o
<1>0. TypeOK /\ RequestStep(r) /\ doc[r] \in OrderDoc
  BY DEF EditInv, RequestStep, TypeOK
<1>1. /\ UNCHANGED <<invoice, payment>>
      /\ \A p \in Orders : order'[p].inv = order[p].inv
  BY CreateKeepsLinks, SavesKeepLinks
     DEF CreateOrder, AddItem, UpdateItemQty, SetNote, SendOrder, VoidOrder,
         SaveVoid, SavePaid, SaveOrder
<1>2. MoneyOK(r)'
  <2>1. PICK saved : CommitAndReturn(r, saved)
    BY DEF CreateOrder, AddItem, UpdateItemQty, SetNote, SendOrder, VoidOrder,
           SaveVoid, SavePaid, SaveOrder
  <2>2. pc'[r] = "idle"
    BY <1>0, <2>1 DEF CommitAndReturn, TypeOK
  <2> QED BY <2>2 DEF MoneyOK, PayPCs
<1>3. o \in Orders
  BY DEF EditInv, JobOK, CreateOrder, AddItem, UpdateItemQty, SetNote,
         SendOrder, VoidOrder, Voidable, SavePaid, OrderOps, PayPCs, PCs
<1>4. \A p \in Orders \ {o} : order'[p] = order[p]
  BY <1>0 DEF CreateOrder, AddItem, UpdateItemQty, SetNote, SendOrder, VoidOrder,
         SaveVoid, SavePaid, SaveOrder, TypeOK
<1>5. /\ order'[o].pay # None => Known(o, order'[o].pay)
      /\ order'[o].status = "Paid" /\ order'[o].pay = None => o \in DeliveryOrders
  <2>1. CASE CreateOrder(r)
    <3>1. PICK items \in [Rows -> 0..MaxQty] :
            order' = [order EXCEPT ![o] =
                        [NoOrder EXCEPT !.status = "Open", !.table = job[r].t,
                                        !.items = items]]
      BY <2>1 DEF CreateOrder
    <3>2. order'[o].status = "Open" /\ order'[o].pay = None
      BY <1>0, <1>3, <3>1 DEF NoOrder, TypeOK
    <3> QED BY <3>2
  <2>2. CASE \/ AddItem(r) \/ UpdateItemQty(r) \/ SetNote(r) \/ SendOrder(r)
             \/ VoidOrder(r)
    <3>1. /\ pc[r] = "ready" /\ job[r].op # "pay" /\ job[r].op \in OrderOps
          /\ o \notin bumped[r]
      BY <2>2 DEF AddItem, UpdateItemQty, SetNote, SendOrder, VoidOrder, SaveVoid,
                  Voidable, SaveOrder, CanSave, OrderOps
    <3>2. doc[r].pay = order[o].pay /\ doc[r].status = order[o].status
      BY <1>3, <3>1 DEF EditInv, CopyIsCurrent, Holds
    <3>3. order'[o].pay = doc[r].pay /\ order'[o].status \in {doc[r].status, "Sent", "Void"}
      <4>1. CASE AddItem(r) \/ UpdateItemQty(r)
        <5>1. PICK i \in Rows, n \in 1..MaxQty :
                order' = [order EXCEPT ![o] = [doc[r] EXCEPT !.items[i] = n]]
          BY <4>1 DEF AddItem, UpdateItemQty, SaveOrder
        <5> QED BY <1>0, <1>3, <5>1 DEF TypeOK, OrderDoc
      <4>2. CASE SetNote(r)
        BY <1>0, <1>3, <4>2 DEF SetNote, SaveOrder, TypeOK
      <4>3. CASE SendOrder(r)
        <5>1. PICK syn : order' = [order EXCEPT ![o] =
                           [doc[r] EXCEPT !.status = "Sent", !.synced = syn]]
          BY <4>3 DEF SendOrder, SaveOrder
        <5> QED BY <1>0, <1>3, <5>1 DEF TypeOK, OrderDoc
      <4>4. CASE VoidOrder(r)
        <5>1. order' = [order EXCEPT ![o] = [doc[r] EXCEPT !.status = "Void"]]
          BY <4>4 DEF VoidOrder, SaveVoid
        <5> QED BY <1>0, <1>3, <5>1 DEF TypeOK, OrderDoc
      <4> QED BY <2>2, <4>1, <4>2, <4>3, <4>4
    <3> QED BY <1>3, <3>2, <3>3 DEF MoneyInv, PaidOK
  <2>3. CASE SavePaid(r)
    <3>1. order' = [order EXCEPT ![o] = [doc[r] EXCEPT !.status = "Paid"]]
      BY <2>3 DEF SavePaid, SaveOrder
    <3>2. order'[o].pay = doc[r].pay
      BY <1>0, <1>3, <3>1 DEF TypeOK, OrderDoc
    <3>3. pc[r] = "save" /\ MoneyOK(r)
      BY <2>3 DEF SavePaid, MoneyInv
    <3> QED BY <3>2, <3>3 DEF MoneyOK, PayPCs, PCs
  <2> QED BY <2>1, <2>2, <2>3
<1>6. \A p \in Orders : PaidOK(p)'
  <2>1. ASSUME NEW p \in Orders, p # o PROVE PaidOK(p)'
    BY <1>1, <1>4, <2>1 DEF MoneyInv, PaidOK, Known
  <2>2. ASSUME NEW p \in Orders, p = o PROVE PaidOK(p)'
    BY <1>1, <1>5, <2>2 DEF PaidOK, Known
  <2> QED BY <2>1, <2>2
<1> QED BY <1>0, <1>1, <1>2, <1>6, MoneyStays

LEMMA ArriveKeepsMoney ==
  ASSUME Regime, EditInv, MoneyInv, NEW r \in Requests, RequestStep(r),
         NEW at \in {"ready", "lock"}, NEW j \in Job, Arrive(r, at, j),
         at = "lock" => j.o \in Orders /\ (j.cod => j.o \in DeliveryOrders)
  PROVE  MoneyInv'
<1>0. TypeOK
  BY DEF EditInv
<1>1. /\ pc'[r] = at /\ job'[r] = j
      /\ j.o \in Orders => doc'[r] = order[j.o]
      /\ view'[r] = Snapshot
      /\ UNCHANGED <<order, invoice, payment>>
  BY <1>0, NoneAssumption DEF Arrive, TypeOK
<1>2. \A c \in ClientIds : view'[r].invoice[c] = invoice[c]
                           /\ view'[r].payment[c] = payment[c]
  BY <1>1 DEF Snapshot
<1>3. \A p \in Orders : KeysOf[p] \subseteq ClientIds
  BY ConstantsAssumption
<1>4. MoneyOK(r)'
  <2>1. CASE at = "ready"
    BY <1>1, <2>1 DEF MoneyOK, PayPCs
  <2>2. CASE at = "lock"
    <3>1. order[j.o].pay # None => Known(j.o, order[j.o].pay)
      BY <2>2 DEF MoneyInv, PaidOK
    <3> QED BY <1>1, <1>2, <1>3, <2>2, <3>1 DEF MoneyOK, Known
  <2> QED BY <2>1, <2>2
<1> QED BY <1>1, <1>4, MoneyRests

LEMMA LoadsKeepMoney ==
  ASSUME Regime, EditInv, MoneyInv, NEW r \in Requests,
         LoadCreate(r) \/ LoadOrder(r) \/ LoadTable(r) \/ LoadPay(r)
  PROVE  MoneyInv'
<1>0. RequestStep(r)
  BY DEF RequestStep
<1>1. CASE LoadCreate(r)
  <2>1. PICK o \in Orders, t \in Tables \cup {None} :
          Arrive(r, "ready",
                 [NoJob EXCEPT !.op = "create_order", !.o = o, !.t = t])
    BY <1>1, ConstantsAssumption DEF LoadCreate
  <2>2. [NoJob EXCEPT !.op = "create_order", !.o = o, !.t = t] \in Job
    BY DEF Job, NoJob
  <2> QED BY <1>0, <2>1, <2>2, ArriveKeepsMoney
<1>2. CASE LoadOrder(r)
  <2>1. PICK op \in OrderOps, o \in Orders :
          Arrive(r, "ready",
                 [NoJob EXCEPT !.op = op, !.o = o, !.t = order[o].table])
    BY <1>2 DEF LoadOrder
  <2>2. [NoJob EXCEPT !.op = op, !.o = o, !.t = order[o].table] \in Job
    BY DEF Job, NoJob, EditInv, TypeOK, OrderDoc
  <2> QED BY <1>0, <2>1, <2>2, ArriveKeepsMoney
<1>3. CASE LoadTable(r)
  <2>1. PICK t \in Tables :
          Arrive(r, "ready", [NoJob EXCEPT !.op = "set_table_status", !.t = t])
    BY <1>3 DEF LoadTable
  <2>2. [NoJob EXCEPT !.op = "set_table_status", !.t = t] \in Job
    BY DEF Job, NoJob
  <2> QED BY <1>0, <2>1, <2>2, ArriveKeepsMoney
<1>4. CASE LoadPay(r)
  <2>1. PICK o \in Orders, cod \in BOOLEAN :
          /\ cod => o \in DeliveryOrders
          /\ \E c \in KeysOf[o] :
               Arrive(r, "lock", [NoJob EXCEPT !.op = "pay", !.o = o, !.c = c,
                                               !.cod = cod])
    BY <1>4 DEF LoadPay
  <2>2. PICK c \in KeysOf[o] :
          Arrive(r, "lock", [NoJob EXCEPT !.op = "pay", !.o = o, !.c = c,
                                          !.cod = cod])
    BY <2>1
  <2>3. c \in ClientIds
    BY ConstantsAssumption
  <2> DEFINE j == [NoJob EXCEPT !.op = "pay", !.o = o, !.c = c, !.cod = cod]
  <2>4. j \in Job /\ j.o = o /\ j.cod = cod
    BY <2>3 DEF Job, NoJob
  <2>5. Arrive(r, "lock", j)
    BY <2>2
  <2> HIDE DEF j
  <2> QED BY <1>0, <2>1, <2>4, <2>5, ArriveKeepsMoney
<1> QED BY <1>1, <1>2, <1>3, <1>4

LEMMA ReadsKeepMoney ==
  ASSUME Regime, EditInv, LinkInv, MoneyInv, NEW r \in Requests,
         FirstRead(r) \/ LockOrder(r) \/ ResolveCustomer(r)
  PROVE  MoneyInv'
<1> DEFINE o == job[r].o
<1>0. TypeOK /\ RequestStep(r) /\ MoneyOK(r)
  BY DEF EditInv, RequestStep, MoneyInv
<1>1. UNCHANGED <<order, invoice, payment, job>>
  BY GoOnFrame, <1>0 DEF FirstRead, LockOrder, ResolveCustomer
<1>2. \A p \in Orders : KeysOf[p] \subseteq ClientIds
  BY ConstantsAssumption
<1>3. pc[r] \in PayPCs => o \in Orders
  BY DEF EditInv, JobOK
<1>4. CASE FirstRead(r)
  <2>1. /\ view'[r] = Snapshot /\ pc' = pc /\ doc' = doc
    BY <1>0, <1>4 DEF FirstRead, TypeOK
  <2>2. \A c \in ClientIds : view'[r].invoice[c] = invoice[c]
                             /\ view'[r].payment[c] = payment[c]
    BY <2>1 DEF Snapshot
  <2>3. MoneyOK(r)'
    BY <1>0, <1>1, <1>2, <1>3, <2>1, <2>2 DEF MoneyOK, Known
  <2> QED BY <1>0, <1>1, <2>3, MoneyRests
<1>5. CASE LockOrder(r)
  <2>1. pc[r] \in PayPCs
    BY <1>5 DEF LockOrder, PayPCs, PCs
  <2>2. /\ pc'[r] = "customer" /\ view' = view /\ touched' = touched
        /\ doc'[r].pay = order[o].pay
    <3>1. doc[r] \in OrderDoc
      BY <1>0 DEF TypeOK
    <3> QED BY <1>0, <1>5, <3>1 DEF LockOrder, TypeOK, OrderDoc
  <2>3. order[o].pay # None => Known(o, order[o].pay)
    BY <1>3, <2>1 DEF MoneyInv, PaidOK
  <2>4. MoneyOK(r)'
    BY <1>0, <1>1, <2>1, <2>2, <2>3 DEF MoneyOK, Known
  <2> QED BY <1>0, <1>1, <2>4, MoneyRests
<1>6. CASE ResolveCustomer(r)
  <2>1. CheckoutOK(r) /\ pc[r] = "customer" /\ o \in Orders
    BY <1>3, <1>6 DEF ResolveCustomer, PayPCs, PCs, LinkInv
  <2>2. CustomerOf[o] \in view[r].customers
    BY <2>1, ConstantsAssumption DEF CheckoutOK
  <2>3. /\ pc'[r] = IF doc[r].inv = None THEN "invoice" ELSE AfterInvoice(job[r])
        /\ UNCHANGED <<doc, view, touched>>
    BY <1>0, <1>6, <2>2 DEF ResolveCustomer, TypeOK
  <2>4. pc'[r] = "save" => job[r].cod
    BY <2>3 DEF AfterInvoice
  <2>5. MoneyOK(r)'
    BY <1>0, <1>1, <2>1, <2>3, <2>4 DEF MoneyOK, Known, PayPCs, PCs
  <2> QED BY <1>0, <1>1, <2>5, MoneyRests
<1> QED BY <1>4, <1>5, <1>6

\* A step that changes invoice c tells every checkout that may look at it.
LEMMA OthersKeepMoney ==
  ASSUME Regime, EditInv, NEW q \in Requests, NEW c \in ClientIds, MoneyOK(q),
         pc'[q] = pc[q], job'[q] = job[q], doc'[q] = doc[q], view'[q] = view[q],
         touched[q] \subseteq touched'[q],
         {c} \cap Uses(q) \subseteq touched'[q],
         \A d \in ClientIds \ {c} : invoice'[d] = invoice[d],
         \A d \in ClientIds : payment[d].docstatus # 0 => payment'[d].docstatus # 0
  PROVE  MoneyOK(q)'
<1> DEFINE o == job[q].o
<1>1. CASE pc[q] \notin PayPCs
  BY <1>1 DEF MoneyOK
<1>2. CASE pc[q] \in PayPCs
  <2>1. o \in Orders /\ job[q].op = "pay" /\ pc[q] # "idle"
    BY <1>2 DEF EditInv, JobOK, PayPCs
  <2>2. KeysOf[o] \subseteq ClientIds
    BY <2>1, ConstantsAssumption
  <2>3. c \in KeysOf[o] => c \in touched'[q]
    BY <2>1 DEF Uses, Live
  <2>4. \A d \in KeysOf[o] : d \notin touched'[q] => invoice'[d] = invoice[d]
    BY <2>2, <2>3
  <2> QED BY <1>2, <2>2, <2>4 DEF MoneyOK, Known
<1> QED BY <1>1, <1>2

LEMMA PostKeepsMoney ==
  ASSUME Regime, EditInv, LinkInv, MoneyInv, NEW r \in Requests, PostInvoice(r)
  PROVE  MoneyInv'
<1> DEFINE o == job[r].o
           c == job[r].c
<1>0. /\ TypeOK /\ o \in Orders /\ pc[r] = "invoice" /\ c \in ClientIds
      /\ MoneyOK(r) /\ RequestStep(r)
  BY DEF EditInv, JobOK, PostInvoice, PayPCs, PCs, MoneyInv, RequestStep
<1>1. c \in KeysOf[o] /\ order[o].inv = None
  BY <1>0, InvoiceIsNew
<1>2. /\ invoice'[c].paid = 0
      /\ \A d \in ClientIds \ {c} : invoice'[d] = invoice[d]
      /\ order'[o].status = order[o].status /\ order'[o].pay = order[o].pay
      /\ \A p \in Orders \ {o} : order'[p] = order[p]
      /\ payment' = payment
  <2>1. order[o] \in OrderDoc
    BY <1>0 DEF TypeOK
  <2> QED BY <1>0, <2>1 DEF PostInvoice, TypeOK, OrderDoc
<1>3. CommitAndGoOn(r, {o, c}, AfterInvoice(job[r]))
  BY DEF PostInvoice
<1>4. /\ pc'[r] = AfterInvoice(job[r]) /\ job' = job /\ view'[r] = None
      /\ doc'[r].pay = doc[r].pay
  <2>1. doc[r] \in OrderDoc
    BY <1>0 DEF TypeOK
  <2>2. view'[r] = None
    BY <1>0, <1>3 DEF CommitAndGoOn, TypeOK
  <2> QED BY <1>0, <1>3, <2>1, <2>2, GoOnFrame DEF PostInvoice, TypeOK, OrderDoc
<1>5. NoDoublePayment'
  BY <1>2 DEF MoneyInv, NoDoublePayment
<1>6. PaymentsFit'
  BY <1>1, <1>2 DEF MoneyInv, PaymentsFit
<1>7. \A p \in Orders : PaidOK(p)'
  BY <1>2 DEF MoneyInv, PaidOK, Known
<1>8. MoneyOK(r)'
  BY <1>0, <1>2, <1>4 DEF MoneyOK, Known, PayPCs, PCs, AfterInvoice
<1>9. ASSUME NEW q \in Requests \ {r} PROVE MoneyOK(q)'
  <2>1. touched'[q] = touched[q] \cup ({o, c} \cap Uses(q))
    BY <1>0, <1>3, GoOnKeepsOthers
  <2>2. /\ pc'[q] = pc[q] /\ job'[q] = job[q]
        /\ doc'[q] = doc[q] /\ view'[q] = view[q]
        /\ touched[q] \subseteq touched'[q]
    BY <1>0, OthersFrame
  <2>3. {c} \cap Uses(q) \subseteq touched'[q]
    BY <2>1
  <2>4. MoneyOK(q)
    BY DEF MoneyInv
  <2> QED BY <1>0, <1>2, <2>2, <2>3, <2>4, OthersKeepMoney
<1>10. \A q \in Requests : MoneyOK(q)'
  BY <1>8, <1>9
<1> QED BY <1>5, <1>6, <1>7, <1>10 DEF MoneyInv

\* The payment of another request for the same client_id is taken over.
LEMMA FoundKeepsMoney ==
  ASSUME Regime, EditInv, LinkInv, MoneyInv, NEW r \in Requests,
         PaymentFound(r) \/ PaymentExists(r)
  PROVE  MoneyInv'
<1> DEFINE o == job[r].o
           c == job[r].c
<1>0. /\ TypeOK /\ pc[r] = "entry" /\ MoneyOK(r) /\ RequestStep(r)
      /\ o \in Orders /\ c \in KeysOf[o] /\ c # None
  <2>1. c \in ClientIds
    BY DEF EditInv, JobOK, PaymentFound, PaymentExists, PayPCs, PCs
  <2> QED BY <2>1 DEF EditInv, JobOK, PaymentFound, PaymentExists, PayPCs, PCs,
                      MoneyInv, RequestStep, LinkInv, CheckoutOK
<1>1. payment[c].docstatus # 0
  BY <1>0 DEF PaymentFound, PaymentExists, MoneyOK, PayPCs, PCs
<1>2. /\ pc'[r] = "save" /\ job' = job /\ doc'[r].pay = c
      /\ \/ view'[r] = None
         \/ view'[r] = view[r] /\ touched' = touched
      /\ UNCHANGED <<order, invoice, payment>>
  <2>1. doc[r] \in OrderDoc
    BY <1>0 DEF TypeOK
  <2>2. CASE PaymentExists(r)
    BY <1>0, <2>1, <2>2 DEF PaymentExists, CommitAndGoOn, TypeOK, OrderDoc
  <2>3. CASE PaymentFound(r)
    BY <1>0, <2>1, <2>3 DEF PaymentFound, TypeOK, OrderDoc
  <2> QED BY <2>2, <2>3
<1>3. MoneyOK(r)'
  BY <1>0, <1>1, <1>2 DEF MoneyOK, Known, PayPCs, PCs
<1> QED BY <1>0, <1>2, <1>3, MoneyRests

\* The invoice the checkout pays is unpaid: the database would refuse to lock
\* it had anybody else written it since the checkout read it.
LEMMA PayKeepsMoney ==
  ASSUME Regime, EditInv, LinkInv, MoneyInv, NEW r \in Requests, PostPayment(r)
  PROVE  MoneyInv'
<1> DEFINE o == job[r].o
           c == job[r].c
           si == doc[r].inv
<1>0. /\ TypeOK /\ pc[r] = "entry" /\ MoneyOK(r) /\ RequestStep(r)
      /\ o \in Orders /\ c \in KeysOf[o] /\ c \in ClientIds
      /\ si # None /\ si \in {None, order[o].inv}
  BY DEF EditInv, JobOK, PostPayment, PayPCs, PCs,
         MoneyInv, RequestStep, LinkInv, CheckoutOK, LinkOK
<1>1. si = order[o].inv /\ si \in ClientIds /\ si \in KeysOf[o]
  <2>1. si \in ClientIds
    BY <1>0 DEF TypeOK, OrderDoc
  <2>2. invoice[si].docstatus # 0 /\ invoice[si].order = o
    BY <1>0 DEF LinkInv, Linked
  <2> QED BY <1>0, <2>1, <2>2 DEF LinkInv, Linked
<1>2. invoice[si].paid = 0
  <2>1. si \notin touched[r] /\ view[r] # None /\ view[r].invoice[si].paid = 0
    BY DEF PostPayment, NoConflict, Owes
  <2> QED BY <1>0, <1>1, <2>1 DEF MoneyOK, PayPCs, PCs
<1>3. /\ invoice'[si].paid = 1
      /\ \A d \in ClientIds \ {si} : invoice'[d] = invoice[d]
      /\ payment'[c].docstatus = 1 /\ payment'[c].inv = si
      /\ \A d \in ClientIds \ {c} : payment'[d] = payment[d]
      /\ order' = order
  <2>1. invoice' = [invoice EXCEPT ![si].paid = @ + 1]
    BY DEF PostPayment
  <2>2. invoice'[si].paid = 1 /\ \A d \in ClientIds \ {si} : invoice'[d] = invoice[d]
    BY <1>0, <1>1, <1>2, <2>1 DEF TypeOK, InvoiceDoc
  <2>3. payment' = [payment EXCEPT ![c] = [docstatus |-> 1, inv |-> si]]
    BY DEF PostPayment
  <2>4. /\ payment'[c].docstatus = 1 /\ payment'[c].inv = si
        /\ \A d \in ClientIds \ {c} : payment'[d] = payment[d]
    BY <1>0, <2>3 DEF TypeOK
  <2> QED BY <2>2, <2>4 DEF PostPayment
<1>4. CommitAndGoOn(r, {si}, "save")
  BY DEF PostPayment
<1>5. /\ pc'[r] = "save" /\ job' = job /\ view'[r] = None /\ doc'[r].pay = c
  <2>1. doc[r] \in OrderDoc
    BY <1>0 DEF TypeOK
  <2>2. view'[r] = None
    BY <1>0, <1>4 DEF CommitAndGoOn, TypeOK
  <2> QED BY <1>0, <1>4, <2>1, <2>2, GoOnFrame DEF PostPayment, TypeOK, OrderDoc
<1>6. NoDoublePayment'
  BY <1>3 DEF MoneyInv, NoDoublePayment
<1>7. PaymentsFit'
  <2>1. \A p \in Orders : c \in KeysOf[p] => p = o
    BY <1>0 DEF Regime
  <2>2. \A p \in Orders : KeysOf[p] \subseteq ClientIds
    BY ConstantsAssumption
  <2> QED BY <1>0, <1>1, <1>3, <2>1, <2>2 DEF MoneyInv, PaymentsFit
<1>8. \A d \in ClientIds : payment[d].docstatus # 0 => payment'[d].docstatus # 0
  BY <1>3
<1>9. \A p \in Orders : PaidOK(p)'
  <2>1. \A p \in Orders : KeysOf[p] \subseteq ClientIds
    BY ConstantsAssumption
  <2> QED BY <1>3, <1>8, <2>1 DEF MoneyInv, PaidOK, Known
<1>10. MoneyOK(r)'
  BY <1>0, <1>3, <1>5 DEF MoneyOK, Known, PayPCs, PCs
<1>11. ASSUME NEW q \in Requests \ {r} PROVE MoneyOK(q)'
  <2>1. touched'[q] = touched[q] \cup ({si} \cap Uses(q))
    BY <1>0, <1>4, GoOnKeepsOthers
  <2>2. /\ pc'[q] = pc[q] /\ job'[q] = job[q]
        /\ doc'[q] = doc[q] /\ view'[q] = view[q]
        /\ touched[q] \subseteq touched'[q]
    BY <1>0, OthersFrame
  <2>3. {si} \cap Uses(q) \subseteq touched'[q]
    BY <2>1
  <2>4. MoneyOK(q)
    BY DEF MoneyInv
  <2> QED BY <1>1, <1>3, <1>8, <2>2, <2>3, <2>4, OthersKeepMoney
<1>12. \A q \in Requests : MoneyOK(q)'
  BY <1>10, <1>11
<1> QED BY <1>6, <1>7, <1>9, <1>12 DEF MoneyInv

LEMMA CancelKeepsMoney ==
  ASSUME Regime, EditInv, LinkInv, MoneyInv, NEW c \in ClientIds, CancelInvoice(c)
  PROVE  MoneyInv'
<1>0. TypeOK
  BY DEF EditInv
<1>1. /\ invoice'[c].paid = 0
      /\ \A d \in ClientIds \ {c} : invoice'[d] = invoice[d]
  <2>1. invoice' = [invoice EXCEPT ![c].docstatus = 2, ![c].paid = 0]
    BY DEF CancelInvoice
  <2> QED BY <1>0, <2>1 DEF TypeOK, InvoiceDoc
<1>2. \A d \in ClientIds :
        /\ payment'[d].inv = payment[d].inv
        /\ payment'[d].docstatus = 0 <=> payment[d].docstatus = 0
  <2>1. payment' = [k \in ClientIds |->
                      IF payment[k].inv = c /\ payment[k].docstatus = 1
                        THEN [payment[k] EXCEPT !.docstatus = 2] ELSE payment[k]]
    BY DEF CancelInvoice
  <2> QED BY <1>0, <2>1 DEF TypeOK, PaymentDoc
<1>3. /\ UNCHANGED <<order, pc, job, doc, view>>
      /\ \A q \in Requests : touched'[q] = touched[q] \cup ({c} \cap Uses(q))
  BY DEF CancelInvoice, Regime
<1>4. \A p \in Orders : KeysOf[p] \subseteq ClientIds
  BY ConstantsAssumption
<1>5. NoDoublePayment'
  BY <1>1 DEF MoneyInv, NoDoublePayment
<1>6. PaymentsFit' /\ \A p \in Orders : PaidOK(p)'
  <2>1. PaymentsFit'
    BY <1>2, <1>3, <1>4 DEF MoneyInv, PaymentsFit
  <2>2. ASSUME NEW p \in Orders PROVE PaidOK(p)'
    BY <1>2, <1>3, <1>4 DEF MoneyInv, PaidOK, Known
  <2> QED BY <2>1, <2>2
<1>7. ASSUME NEW q \in Requests PROVE MoneyOK(q)'
  <2>1. MoneyOK(q)
    BY DEF MoneyInv
  <2>2. touched[q] \subseteq touched'[q] /\ {c} \cap Uses(q) \subseteq touched'[q]
    BY <1>3
  <2> QED BY <1>1, <1>2, <1>3, <2>1, <2>2, OthersKeepMoney
<1> QED BY <1>5, <1>6, <1>7 DEF MoneyInv

LEMMA NextMoney == Regime /\ EditInv /\ LinkInv /\ MoneyInv /\ [Next]_vars => MoneyInv'
<1> SUFFICES ASSUME Regime, EditInv, LinkInv, MoneyInv, [Next]_vars PROVE MoneyInv'
  OBVIOUS
<1>1. CASE UNCHANGED vars
  BY <1>1 DEF vars, MoneyInv, NoDoublePayment, PaymentsFit, PaidOK, MoneyOK, Known
<1>2. CASE \E c \in ClientIds : CancelInvoice(c)
  BY <1>2, CancelKeepsMoney
<1>3. ASSUME NEW r \in Requests, RequestStep(r)
      PROVE  MoneyInv'
  BY <1>3, QuietStepsKeepMoney, SavesKeepMoney, LoadsKeepMoney, ReadsKeepMoney,
     PostKeepsMoney, FoundKeepsMoney, PayKeepsMoney, NoRelink DEF RequestStep
<1> QED BY <1>1, <1>2, <1>3 DEF Next, RequestStep

LEMMA MoneyInvariant ==
  ASSUME Regime
  PROVE  Spec => [](EditInv /\ LinkInv /\ MoneyInv)
<1>1. Init => EditInv /\ LinkInv /\ MoneyInv
  BY InitInv, InitLinks, InitMoney
<1>2. EditInv /\ LinkInv /\ MoneyInv /\ [Next]_vars
        => (EditInv /\ LinkInv /\ MoneyInv)'
  BY NextInv, NextLinks, NextMoney
<1> QED BY <1>1, <1>2, PTL DEF Spec

\* No invoice is paid twice, not by any number of tills at once nor by a retry
\* under another client_id: what get_payment_entry read of the invoice is still
\* true when its row is locked.
THEOREM NothingIsPaidTwice ==
  ASSUME Regime
  PROVE  Spec => []NoDoublePayment
<1>1. MoneyInv => NoDoublePayment
  BY DEF MoneyInv
<1> QED BY <1>1, MoneyInvariant, PTL

\* A paid order has an invoice of its own and names a payment for that invoice;
\* only cash on delivery has none.
THEOREM PaidOrdersAreInvoiced ==
  ASSUME Regime
  PROVE  Spec => []PaidOrderIsInvoiced
<1>1. ASSUME EditInv, LinkInv, MoneyInv PROVE PaidOrderIsInvoiced
  <2>1. ASSUME NEW o \in Orders, order[o].status = "Paid"
        PROVE  /\ order[o].inv # None
               /\ invoice[order[o].inv].order = o
               /\ IF order[o].pay = None THEN o \in DeliveryOrders
                  ELSE payment[order[o].pay].inv = order[o].inv
    <3>1. order[o].inv # None
      BY <1>1, <2>1 DEF EditInv, PaidNamesInvoice
    <3>2. invoice[order[o].inv].order = o
      BY <1>1, <3>1 DEF LinkInv, Linked
    <3>3. PaidOK(o)
      BY <1>1 DEF MoneyInv
    <3>4. CASE order[o].pay = None
      BY <2>1, <3>1, <3>2, <3>3, <3>4 DEF PaidOK
    <3>5. CASE order[o].pay # None
      BY <1>1, <3>1, <3>2, <3>3, <3>5 DEF PaidOK, Known, MoneyInv, PaymentsFit
    <3> QED BY <3>4, <3>5
  <2> QED BY <2>1 DEF PaidOrderIsInvoiced
<1> QED BY <1>1, MoneyInvariant, PTL

-----------------------------------------------------------------------------
(* The floor.  The table of an order never changes, and a table document is *)
(* saved only by a request whose copy of it is current; a request whose      *)
(* insert lost to one for the same table has seen that table being saved.    *)

\* What a request relies on of its table and its order.
SeatOK(r) ==
  LET o == job[r].o
      t == job[r].t
  IN /\ pc[r] = "ready" /\ job[r].op = "create_order" =>
          /\ t \in TablesOf[o]
          /\ order[o].status # "Absent" /\ SentForOneTable(o) /\ t # None
               => t \in bumped[r]
     /\ pc[r] # "idle" /\ job[r].op \in OrderOps \cup {"pay"} =>
          o \in Orders /\ order[o].status # "Absent"
          /\ doc[r].table = order[o].table
     /\ pc[r] = "ready" /\ t \in Tables /\ t \notin bumped[r] => tdoc[r] = table[t]
     /\ pc[r] = "ready" /\ job[r].op \in OrderOps =>
          /\ t = order[o].table
          /\ t # None /\ tdoc[r].current # o /\ SentForOneTable(o)
               => table[t].current # o

SeatInv ==
  /\ TableServesItsOrder
  /\ \A o \in Orders : order[o].status # "Absent" => order[o].table \in TablesOf[o]
  /\ \A r \in Requests : SeatOK(r)

LEMMA InitSeats ==
  ASSUME Init
  PROVE  SeatInv
<1>1. TableServesItsOrder
  BY DEF Init, TableServesItsOrder, FreeTable
<1>2. \A r \in Requests : SeatOK(r)
  BY DEF Init, SeatOK
<1>3. \A o \in Orders : order[o].status = "Absent"
  BY DEF Init, NoOrder
<1> QED BY <1>1, <1>2, <1>3 DEF SeatInv

\* A step that changes no table and, of the orders, no table and no status to
\* or from void and absent.
LEMMA SeatsStay ==
  ASSUME TypeOK, TableServesItsOrder, table' = table,
         \A p \in Orders :
           /\ order'[p].table = order[p].table
           /\ order'[p].status \in {"Absent", "Void"} => order'[p].status = order[p].status
  PROVE  TableServesItsOrder'
<1>1. \A t \in Tables : table[t].current \in Orders \cup {None}
  BY DEF TypeOK, TableDoc
<1> QED BY <1>1 DEF TableServesItsOrder

\* Another request, after a step that changes the documents named in `saved`.
LEMMA OthersStaySeated ==
  ASSUME TypeOK, JobOK, NEW q \in Requests, NEW saved, SeatOK(q),
         pc'[q] = pc[q], job'[q] = job[q], doc'[q] = doc[q], tdoc'[q] = tdoc[q],
         pc[q] # "idle" => bumped[q] \cup (saved \cap Uses(q)) \subseteq bumped'[q],
         \A t \in Tables \ saved : table'[t] = table[t],
         \A p \in Orders : order[p].status # "Absent" =>
           order'[p].status # "Absent" /\ order'[p].table = order[p].table,
         \A p \in Orders : order[p].status = "Absent" /\ order'[p].status # "Absent" =>
           /\ order'[p].table \in TablesOf[p]
           /\ order'[p].table # None => order'[p].table \in saved,
         \A t \in Tables : \A p \in Orders :
           /\ order[p].status # "Absent" /\ SentForOneTable(p)
           /\ table'[t].current = p
           => table[t].current = p
  PROVE  SeatOK(q)'
<1> DEFINE o == job[q].o
           t == job[q].t
<1>1. pc[q] # "idle" /\ t \in saved => t \in bumped'[q]
  BY DEF Uses, Live
<1>2. \A p \in Orders : order[p].table \in Tables \cup {None}
  BY DEF TypeOK, OrderDoc
<1>3. ASSUME pc[q] = "ready", job[q].op = "create_order"
      PROVE  /\ t \in TablesOf[o]
             /\ order'[o].status # "Absent" /\ SentForOneTable(o) /\ t # None
                  => t \in bumped'[q]
  <2>1. t \in TablesOf[o] /\ o \in Orders
    BY <1>3 DEF SeatOK, JobOK
  <2>2. ASSUME order'[o].status # "Absent", SentForOneTable(o), t # None
        PROVE  t \in bumped'[q]
    <3>1. CASE order[o].status = "Absent"
      <4>1. order'[o].table = t
        BY <2>1, <2>2, <3>1 DEF SentForOneTable
      <4> QED BY <1>1, <1>3, <2>1, <2>2, <3>1, <4>1
    <3>2. CASE order[o].status # "Absent"
      BY <1>3, <2>2, <3>2 DEF SeatOK
    <3> QED BY <3>1, <3>2
  <2> QED BY <2>1, <2>2
<1>4. SeatOK(q)' <=>
        /\ pc[q] = "ready" /\ job[q].op = "create_order" =>
             /\ t \in TablesOf[o]
             /\ order'[o].status # "Absent" /\ SentForOneTable(o) /\ t # None
                  => t \in bumped'[q]
        /\ pc[q] # "idle" /\ job[q].op \in OrderOps \cup {"pay"} =>
             o \in Orders /\ order'[o].status # "Absent"
             /\ doc[q].table = order'[o].table
        /\ pc[q] = "ready" /\ t \in Tables /\ t \notin bumped'[q]
             => tdoc[q] = table'[t]
        /\ pc[q] = "ready" /\ job[q].op \in OrderOps =>
             /\ t = order'[o].table
             /\ t # None /\ tdoc[q].current # o /\ SentForOneTable(o)
                  => table'[t].current # o
  BY DEF SeatOK, SentForOneTable
<1> QED BY <1>1, <1>2, <1>3, <1>4 DEF SeatOK

\* A request that saved the documents `saved` and is over.
LEMMA ReturnKeepsSeats ==
  ASSUME TypeOK, JobOK, SeatInv, NEW r \in Requests, NEW saved,
         CommitAndReturn(r, saved),
         \A t \in Tables \ saved : table'[t] = table[t],
         \A p \in Orders : order[p].status # "Absent" =>
           order'[p].status # "Absent" /\ order'[p].table = order[p].table,
         \A p \in Orders : order[p].status = "Absent" /\ order'[p].status # "Absent" =>
           /\ order'[p].table \in TablesOf[p]
           /\ order'[p].table # None => order'[p].table \in saved,
         \A t \in Tables : \A p \in Orders :
           /\ order[p].status # "Absent" /\ SentForOneTable(p)
           /\ table'[t].current = p
           => table[t].current = p,
         TableServesItsOrder'
  PROVE  SeatInv'
<1>1. ASSUME NEW q \in Requests \ {r} PROVE SeatOK(q)'
  <2>1. /\ pc'[q] = pc[q] /\ job'[q] = job[q] /\ doc'[q] = doc[q]
        /\ tdoc'[q] = tdoc[q]
        /\ bumped'[q] = bumped[q] \cup (saved \cap Uses(q))
    BY DEF CommitAndReturn, TypeOK, Bump
  <2>2. SeatOK(q)
    BY DEF SeatInv
  <2> QED BY <2>1, <2>2, OthersStaySeated
<1>2. SeatOK(r)'
  <2>1. pc'[r] = "idle"
    BY DEF CommitAndReturn, TypeOK
  <2> QED BY <2>1 DEF SeatOK
<1>3. \A q \in Requests : SeatOK(q)'
  BY <1>1, <1>2
<1>4. \A o \in Orders : order'[o].status # "Absent" => order'[o].table \in TablesOf[o]
  BY DEF SeatInv
<1> QED BY <1>3, <1>4 DEF SeatInv

\* A request that goes on or begins, and saves no document.
LEMMA StepKeepsSeats ==
  ASSUME TypeOK, JobOK, SeatInv, NEW r \in Requests, SeatOK(r)',
         \A q \in Requests \ {r} :
           /\ pc'[q] = pc[q] /\ job'[q] = job[q]
           /\ doc'[q] = doc[q] /\ tdoc'[q] = tdoc[q],
         UNCHANGED <<table, bumped>>,
         \A p \in Orders :
           order'[p].table = order[p].table /\ order'[p].status = order[p].status
  PROVE  SeatInv'
<1>1. TableServesItsOrder'
  BY SeatsStay DEF SeatInv
<1>2. ASSUME NEW q \in Requests \ {r} PROVE SeatOK(q)'
  <2>1. SeatOK(q)
    BY DEF SeatInv
  <2>2. bumped[q] \cup ({} \cap Uses(q)) \subseteq bumped'[q]
    OBVIOUS
  <2> QED BY <2>1, <2>2, OthersStaySeated
<1>3. \A q \in Requests : SeatOK(q)'
  BY <1>2
<1>4. \A o \in Orders : order'[o].status # "Absent" => order'[o].table \in TablesOf[o]
  BY DEF SeatInv
<1> QED BY <1>1, <1>3, <1>4 DEF SeatInv

LEMMA SavesKeepSeats ==
  ASSUME EditInv, SeatInv, NEW r \in Requests,
         \/ AddItem(r) \/ UpdateItemQty(r) \/ SetNote(r) \/ SendOrder(r)
         \/ SavePaid(r)
  PROVE  SeatInv'
<1> DEFINE o == job[r].o
<1>0. TypeOK /\ JobOK /\ doc[r] \in OrderDoc
  BY DEF EditInv, TypeOK
<1>1. o \in Orders /\ Holds(r, o) /\ SeatOK(r)
  BY DEF EditInv, JobOK, AddItem, UpdateItemQty, SetNote, SendOrder, SavePaid,
         OrderOps, Holds, PayPCs, PCs, SeatInv
<1>2. PICK d :
        /\ SaveOrder(r, d) /\ d.table = doc[r].table
        /\ d.status \in {doc[r].status, "Sent", "Paid"}
  <2>1. CASE AddItem(r) \/ UpdateItemQty(r)
    <3>1. PICK i \in Rows, n \in 1..MaxQty :
            SaveOrder(r, [doc[r] EXCEPT !.items[i] = n])
      BY <2>1 DEF AddItem, UpdateItemQty
    <3> DEFINE d == [doc[r] EXCEPT !.items[i] = n]
    <3>2. d.table = doc[r].table /\ d.status = doc[r].status
      BY <1>0 DEF OrderDoc
    <3>3. SaveOrder(r, d)
      BY <3>1
    <3> HIDE DEF d
    <3> QED BY <3>2, <3>3
  <2>2. CASE SetNote(r)
    BY <2>2 DEF SetNote
  <2>3. CASE SendOrder(r)
    <3>1. PICK syn : SaveOrder(r, [doc[r] EXCEPT !.status = "Sent", !.synced = syn])
      BY <2>3 DEF SendOrder
    <3> DEFINE d == [doc[r] EXCEPT !.status = "Sent", !.synced = syn]
    <3>2. d.table = doc[r].table /\ d.status = "Sent"
      BY <1>0 DEF OrderDoc
    <3>3. SaveOrder(r, d)
      BY <3>1
    <3> HIDE DEF d
    <3> QED BY <3>2, <3>3
  <2>4. CASE SavePaid(r)
    <3> DEFINE d == [doc[r] EXCEPT !.status = "Paid"]
    <3>1. d.table = doc[r].table /\ d.status = "Paid"
      BY <1>0 DEF OrderDoc
    <3>2. SaveOrder(r, d)
      BY <2>4 DEF SavePaid
    <3> HIDE DEF d
    <3> QED BY <3>1, <3>2
  <2> QED BY <2>1, <2>2, <2>3, <2>4
<1>3. /\ order' = [order EXCEPT ![o] = d] /\ o \notin bumped[r]
      /\ CommitAndReturn(r, {o}) /\ table' = table
  BY <1>2 DEF SaveOrder, CanSave
<1>4. doc[r].status = order[o].status /\ order[o].status # "Absent"
      /\ doc[r].table = order[o].table
  BY <1>1, <1>3 DEF EditInv, CopyIsCurrent, SeatOK, Holds
<1>5. \A p \in Orders :
        /\ order'[p].table = order[p].table
        /\ order'[p].status \in {"Absent", "Void"} => order'[p].status = order[p].status
  BY <1>0, <1>2, <1>3, <1>4 DEF TypeOK
<1>6. TableServesItsOrder'
  BY <1>0, <1>3, <1>5, SeatsStay DEF SeatInv
<1>7. \A p \in Orders : order[p].status = "Absent" => order'[p] = order[p]
  BY <1>0, <1>3, <1>4 DEF TypeOK
<1> QED BY <1>0, <1>3, <1>5, <1>6, <1>7, ReturnKeepsSeats

\* A void order leaves its table, unless the table left it before.
LEMMA VoidKeepsSeats ==
  ASSUME EditInv, SeatInv, NEW r \in Requests, VoidOrder(r)
  PROVE  /\ SeatInv'
         /\ \A t \in Tables : table[t].current # job[r].o => table'[t] = table[t]
<1> DEFINE o == job[r].o
           t == job[r].t
           saved == IF ServesIt(r) THEN {o, t} ELSE {o}
<1>0. TypeOK /\ JobOK /\ doc[r] \in OrderDoc
  BY DEF EditInv, TypeOK
<1>1. /\ o \in Orders /\ Holds(r, o) /\ SeatOK(r) /\ pc[r] = "ready"
      /\ job[r].op \in OrderOps
  BY DEF EditInv, JobOK, VoidOrder, Voidable, OrderOps, Holds, SeatInv
<1>2. /\ order' = [order EXCEPT ![o] = [doc[r] EXCEPT !.status = "Void"]]
      /\ table' = IF ServesIt(r) THEN [table EXCEPT ![t] = FreeTable] ELSE table
      /\ CommitAndReturn(r, saved)
      /\ o \notin bumped[r] /\ (ServesIt(r) => t \notin bumped[r])
  BY DEF VoidOrder, SaveVoid, CanSave
<1>3. /\ order'[o].table = order[o].table /\ order'[o].status = "Void"
      /\ \A p \in Orders \ {o} : order'[p] = order[p]
      /\ order[o].status # "Absent"
  BY <1>0, <1>1, <1>2 DEF TypeOK, OrderDoc, SeatOK
<1>4. t \in Tables \cup {None} /\ t = order[o].table
  BY <1>0, <1>1 DEF SeatOK, TypeOK, OrderDoc
<1>5. ServesIt(r) => /\ t \in Tables /\ table[t].current = o
                     /\ table'[t].current = None /\ table'[t].status = "Free"
                     /\ \A u \in Tables \ {t} : table'[u] = table[u]
  BY <1>0, <1>1, <1>2, <1>4 DEF ServesIt, SeatOK, TypeOK, FreeTable
<1>6. ~ServesIt(r) => table' = table
  BY <1>2 DEF ServesIt
<1>7. SentForOneTable(o) => \A u \in Tables : table'[u].current # o
  <2>1. SentForOneTable(o) => \A u \in Tables : table[u].current = o => u = t
    BY <1>1, <1>4, NoneAssumption DEF SeatInv, TableServesItsOrder
  <2>2. SentForOneTable(o) /\ ~ServesIt(r) /\ t # None => table[t].current # o
    BY <1>1, <1>2 DEF ServesIt, SeatOK
  <2> QED BY <1>1, <1>4, <1>5, <1>6, <2>1, <2>2, NoneAssumption
<1>8. \A u \in Tables : table[u].current \in Orders \cup {None}
  BY <1>0 DEF TypeOK, TableDoc
<1>9. TableServesItsOrder'
  BY <1>3, <1>5, <1>6, <1>7, <1>8 DEF SeatInv, TableServesItsOrder
<1>10. \A u \in Tables : table[u].current # o => table'[u] = table[u]
  BY <1>5, <1>6
<1>11. \A u \in Tables \ saved : table'[u] = table[u]
  BY <1>5, <1>6
<1>12. \A u \in Tables : \A p \in Orders :
         order[p].status # "Absent" /\ table'[u].current = p => table[u].current = p
  BY <1>5, <1>6, NoneAssumption
<1>13. SeatInv'
  <2> HIDE DEF saved
  <2> QED BY <1>0, <1>2, <1>3, <1>9, <1>11, <1>12, ReturnKeepsSeats
<1> QED BY <1>10, <1>13

LEMMA CreateKeepsSeats ==
  ASSUME EditInv, SeatInv, NEW r \in Requests, CreateOrder(r)
  PROVE  SeatInv'
<1> DEFINE o == job[r].o
           t == job[r].t
           saved == {o} \cup ({t} \ {None})
<1>0. /\ TypeOK /\ JobOK /\ o \in Orders /\ t \in Tables \cup {None}
      /\ order[o].status = "Absent" /\ t \in TablesOf[o]
  BY DEF EditInv, JobOK, CreateOrder, TypeOK, Job, SeatInv, SeatOK
<1>1. PICK items \in [Rows -> 0..MaxQty] :
        order' = [order EXCEPT ![o] =
                    [NoOrder EXCEPT !.status = "Open", !.table = t,
                                    !.items = items]]
  BY DEF CreateOrder
<1>2. /\ order'[o].status = "Open" /\ order'[o].table = t
      /\ \A p \in Orders \ {o} : order'[p] = order[p]
  BY <1>0, <1>1 DEF NoOrder, TypeOK
<1>3. /\ CommitAndReturn(r, saved)
      /\ table' = IF t = None THEN table
                  ELSE [table EXCEPT ![t] =
                          [status |-> "Occupied", current |-> o]]
  BY DEF CreateOrder
<1>4. /\ t \in Tables =>
           /\ table'[t].current = o /\ table'[t].status = "Occupied"
           /\ \A u \in Tables \ {t} : table'[u] = table[u]
      /\ t = None => table' = table
  BY <1>0, <1>3 DEF TypeOK
<1>5. \A u \in Tables : /\ table[u].current \in Orders \cup {None}
                        /\ SentForOneTable(o) => table[u].current # o
  BY <1>0, NoneAssumption DEF TypeOK, TableDoc, SeatInv, TableServesItsOrder
<1>6. TableServesItsOrder'
  BY <1>0, <1>2, <1>4, <1>5 DEF SeatInv, TableServesItsOrder
<1>7. \A u \in Tables \ saved : table'[u] = table[u]
  BY <1>0, <1>4
<1>8. \A u \in Tables : \A p \in Orders :
        order[p].status # "Absent" /\ table'[u].current = p => table[u].current = p
  BY <1>0, <1>4
<1>9. \A p \in Orders : order[p].status # "Absent" =>
        order'[p].status # "Absent" /\ order'[p].table = order[p].table
  BY <1>0, <1>2
<1>10. \A p \in Orders : order[p].status = "Absent" /\ order'[p].status # "Absent" =>
         /\ order'[p].table \in TablesOf[p]
         /\ order'[p].table # None => order'[p].table \in saved
  BY <1>0, <1>2
<1> HIDE DEF saved
<1> QED BY <1>0, <1>3, <1>6, <1>7, <1>8, <1>9, <1>10, ReturnKeepsSeats

\* The order of a lost insert sits at the loser's table only when it was sent for
\* several tables: the winner's save of the same table refuses the loser's.
LEMMA LoserKeepsSeats ==
  ASSUME EditInv, SeatInv, NEW r \in Requests, LoseCreate(r)
  PROVE  SeatInv'
<1> DEFINE o == job[r].o
           t == job[r].t
<1>0. /\ TypeOK /\ JobOK /\ o \in Orders /\ t \in Tables /\ SeatOK(r)
      /\ pc[r] = "ready" /\ job[r].op = "create_order"
      /\ order[o].status # "Absent"
  BY DEF EditInv, JobOK, LoseCreate, TypeOK, Job, SeatInv
<1>1. /\ table' = [table EXCEPT ![t] = [status |-> "Occupied", current |-> o]]
      /\ t \notin bumped[r] /\ CommitAndReturn(r, {t}) /\ order' = order
  BY DEF LoseCreate, SaveTable, CanSave
<1>2. ~SentForOneTable(o)
  BY <1>0, <1>1, NoneAssumption DEF SeatOK
<1>3. /\ table'[t].current = o /\ table'[t].status = "Occupied"
      /\ \A u \in Tables \ {t} : table'[u] = table[u]
  BY <1>0, <1>1 DEF TypeOK
<1>4. TableServesItsOrder'
  BY <1>1, <1>2, <1>3 DEF SeatInv, TableServesItsOrder, SentForOneTable
<1>5. \A u \in Tables : \A p \in Orders :
        /\ order[p].status # "Absent" /\ SentForOneTable(p)
        /\ table'[u].current = p
        => table[u].current = p
  BY <1>2, <1>3
<1> QED BY <1>0, <1>1, <1>3, <1>4, <1>5, ReturnKeepsSeats

\* mark_billing, set_table_status: the copy of the table is current.
LEMMA TablesKeepSeats ==
  ASSUME EditInv, SeatInv, NEW r \in Requests,
         MarkBilling(r) \/ SetTableStatus(r)
  PROVE  SeatInv'
<1> DEFINE t == job[r].t
<1>0. /\ TypeOK /\ JobOK /\ t \in Tables /\ pc[r] = "ready" /\ SeatOK(r)
      /\ tdoc[r] \in TableDoc
  BY DEF EditInv, JobOK, MarkBilling, SetTableStatus, TypeOK, Job, SeatInv
<1>1. PICK d :
        /\ table' = [table EXCEPT ![t] = d] /\ t \notin bumped[r]
        /\ CommitAndReturn(r, {t}) /\ order' = order
        /\ \/ d = FreeTable
           \/ d.status # "Free" /\ d.current = tdoc[r].current
  <2>1. CASE MarkBilling(r)
    <3> DEFINE d == [tdoc[r] EXCEPT !.status = "Billing"]
    <3>1. d.status # "Free" /\ d.current = tdoc[r].current
      BY <1>0 DEF TableDoc
    <3>2. SaveTable(r, d)
      BY <2>1 DEF MarkBilling
    <3> HIDE DEF d
    <3> QED BY <3>1, <3>2 DEF SaveTable, CanSave
  <2>2. CASE SetTableStatus(r)
    <3>1. PICK s \in TableStatus :
            SaveTable(r, IF s = "Free" THEN FreeTable
                         ELSE [tdoc[r] EXCEPT !.status = s])
      BY <2>2 DEF SetTableStatus
    <3> DEFINE d == IF s = "Free" THEN FreeTable ELSE [tdoc[r] EXCEPT !.status = s]
    <3>2. \/ d = FreeTable
          \/ d.status # "Free" /\ d.current = tdoc[r].current
      BY <1>0 DEF TableDoc
    <3>3. SaveTable(r, d)
      BY <3>1
    <3> HIDE DEF d
    <3> QED BY <3>2, <3>3 DEF SaveTable, CanSave
  <2> QED BY <2>1, <2>2
<1>2. tdoc[r] = table[t]
  BY <1>0, <1>1 DEF SeatOK
<1>3. /\ table'[t] = d /\ \A u \in Tables \ {t} : table'[u] = table[u]
      /\ d.current \in {None, table[t].current}
      /\ d.status = "Free" => d.current = None
  BY <1>0, <1>1, <1>2 DEF TypeOK, FreeTable
<1>4. \A u \in Tables : table[u].current \in Orders \cup {None}
  BY <1>0 DEF TypeOK, TableDoc
<1>5. TableServesItsOrder'
  BY <1>0, <1>1, <1>3, <1>4, NoneAssumption DEF SeatInv, TableServesItsOrder
<1>6. \A u \in Tables \ {t} : table'[u] = table[u]
  BY <1>3
<1>7. \A u \in Tables : \A p \in Orders :
        order[p].status # "Absent" /\ table'[u].current = p => table[u].current = p
  BY <1>0, <1>3
<1> QED BY <1>0, <1>1, <1>5, <1>6, <1>7, ReturnKeepsSeats

LEMMA EndKeepsSeats ==
  ASSUME EditInv, SeatInv, NEW r \in Requests, EndRequest(r)
  PROVE  SeatInv'
<1>0. TypeOK /\ JobOK
  BY DEF EditInv
<1>1. CommitAndReturn(r, {}) /\ order' = order /\ table' = table
  BY DEF EndRequest, database
<1>2. TableServesItsOrder'
  BY <1>0, <1>1, SeatsStay DEF SeatInv
<1> QED BY <1>0, <1>1, <1>2, ReturnKeepsSeats

LEMMA ArriveKeepsSeats ==
  ASSUME EditInv, SeatInv, NEW r \in Requests, NEW at, NEW j \in Job,
         Arrive(r, at, j),
         j.op \in OrderOps \cup {"pay"} => j.o \in Orders /\ order[j.o].status # "Absent",
         j.op \in OrderOps => j.t = order[j.o].table,
         j.op = "create_order" => j.t \in TablesOf[j.o] /\ order[j.o].status = "Absent"
  PROVE  SeatInv'
<1>0. TypeOK /\ JobOK
  BY DEF EditInv
<1>1. /\ pc'[r] = at /\ job'[r] = j
      /\ j.o \in Orders => doc'[r] = order[j.o]
      /\ j.t \in Tables => tdoc'[r] = table[j.t]
      /\ UNCHANGED <<order, table, bumped>>
  BY <1>0 DEF Arrive, TypeOK
<1>2. j.t \in Tables \cup {None}
  BY DEF Job
<1>3. SeatOK(r)'
  BY <1>1, <1>2 DEF SeatOK
<1>4. ASSUME NEW q \in Requests \ {r}
      PROVE  /\ pc'[q] = pc[q] /\ job'[q] = job[q]
             /\ doc'[q] = doc[q] /\ tdoc'[q] = tdoc[q]
  BY <1>0 DEF Arrive, TypeOK
<1> QED BY <1>0, <1>1, <1>3, <1>4, StepKeepsSeats

LEMMA LoadsKeepSeats ==
  ASSUME EditInv, SeatInv, NEW r \in Requests,
         LoadCreate(r) \/ LoadOrder(r) \/ LoadTable(r) \/ LoadPay(r)
  PROVE  SeatInv'
<1>1. CASE LoadCreate(r)
  <2>1. PICK o \in Orders, t \in Tables \cup {None} :
          /\ t \in TablesOf[o] /\ order[o].status = "Absent"
          /\ Arrive(r, "ready",
                    [NoJob EXCEPT !.op = "create_order", !.o = o, !.t = t])
    BY <1>1, ConstantsAssumption DEF LoadCreate
  <2> DEFINE j == [NoJob EXCEPT !.op = "create_order", !.o = o, !.t = t]
  <2>2. j \in Job /\ j.op = "create_order" /\ j.t \in TablesOf[j.o]
        /\ order[j.o].status = "Absent"
    BY <2>1 DEF Job, NoJob
  <2>3. Arrive(r, "ready", j)
    BY <2>1
  <2> HIDE DEF j
  <2> QED BY <2>2, <2>3, ArriveKeepsSeats DEF OrderOps
<1>2. CASE LoadOrder(r)
  <2>1. PICK op \in OrderOps, o \in Orders :
          /\ order[o].status # "Absent"
          /\ Arrive(r, "ready",
                    [NoJob EXCEPT !.op = op, !.o = o, !.t = order[o].table])
    BY <1>2 DEF LoadOrder
  <2> DEFINE j == [NoJob EXCEPT !.op = op, !.o = o, !.t = order[o].table]
  <2>2. j \in Job /\ j.o = o /\ j.t = order[o].table /\ j.op # "create_order"
    BY DEF Job, NoJob, EditInv, TypeOK, OrderDoc, OrderOps
  <2>3. Arrive(r, "ready", j)
    BY <2>1
  <2> HIDE DEF j
  <2> QED BY <2>1, <2>2, <2>3, ArriveKeepsSeats
<1>3. CASE LoadTable(r)
  <2>1. PICK t \in Tables :
          Arrive(r, "ready", [NoJob EXCEPT !.op = "set_table_status", !.t = t])
    BY <1>3 DEF LoadTable
  <2> DEFINE j == [NoJob EXCEPT !.op = "set_table_status", !.t = t]
  <2>2. j \in Job /\ j.op = "set_table_status"
    BY DEF Job, NoJob
  <2>3. Arrive(r, "ready", j)
    BY <2>1
  <2> HIDE DEF j
  <2> QED BY <2>2, <2>3, ArriveKeepsSeats DEF OrderOps
<1>4. CASE LoadPay(r)
  <2>1. PICK o \in Orders, cod \in BOOLEAN :
          \E c \in KeysOf[o] :
            /\ order[o].status # "Absent"
            /\ Arrive(r, "lock", [NoJob EXCEPT !.op = "pay", !.o = o, !.c = c,
                                               !.cod = cod])
    BY <1>4 DEF LoadPay
  <2>2. PICK c \in KeysOf[o] :
          /\ order[o].status # "Absent"
          /\ Arrive(r, "lock", [NoJob EXCEPT !.op = "pay", !.o = o, !.c = c,
                                             !.cod = cod])
    BY <2>1
  <2>3. c \in ClientIds
    BY ConstantsAssumption
  <2> DEFINE j == [NoJob EXCEPT !.op = "pay", !.o = o, !.c = c, !.cod = cod]
  <2>4. j \in Job /\ j.o = o /\ j.op = "pay"
    BY <2>3 DEF Job, NoJob
  <2>5. Arrive(r, "lock", j)
    BY <2>2
  <2> HIDE DEF j
  <2> QED BY <2>2, <2>4, <2>5, ArriveKeepsSeats DEF OrderOps
<1> QED BY <1>1, <1>2, <1>3, <1>4

\* Checkout touches neither tables nor the table of an order.
LEMMA CheckoutKeepsSeats ==
  ASSUME EditInv, SeatInv, NEW r \in Requests,
         \/ LockOrder(r) \/ ResolveCustomer(r) \/ PostInvoice(r)
         \/ InvoiceExists(r) \/ RelinkInvoice(r) \/ PaymentFound(r)
         \/ PostPayment(r) \/ PaymentExists(r)
  PROVE  SeatInv'
<1> DEFINE o == job[r].o
<1>0. /\ TypeOK /\ JobOK /\ SeatOK(r) /\ doc[r] \in OrderDoc
      /\ pc[r] \in PayPCs /\ pc[r] # "idle"
  BY DEF EditInv, TypeOK, SeatInv, LockOrder, ResolveCustomer, PostInvoice,
         InvoiceExists, RelinkInvoice, PaymentFound, PostPayment, PaymentExists,
         PayPCs, PCs
<1>1. o \in Orders /\ job[r].op = "pay" /\ order[o] \in OrderDoc
  BY <1>0 DEF EditInv, JobOK, TypeOK
<1>2. /\ pc'[r] # "ready" /\ job' = job /\ table' = table /\ bumped' = bumped
      /\ tdoc' = tdoc
      /\ \A q \in Requests \ {r} : pc'[q] = pc[q]
  <2>1. CASE LockOrder(r)
    BY <1>0, <2>1 DEF LockOrder, TypeOK
  <2>2. CASE ResolveCustomer(r)
    BY <1>0, <2>2 DEF ResolveCustomer, CommitAndGoOn, AfterInvoice, TypeOK
  <2>3. CASE PostInvoice(r) \/ InvoiceExists(r) \/ RelinkInvoice(r)
    BY <1>0, <2>3 DEF PostInvoice, InvoiceExists, RelinkInvoice, CommitAndGoOn,
                      AfterInvoice, TypeOK
  <2>4. CASE PaymentFound(r) \/ PostPayment(r) \/ PaymentExists(r)
    BY <1>0, <2>4 DEF PaymentFound, PostPayment, PaymentExists, CommitAndGoOn,
                      TypeOK
  <2> QED BY <2>1, <2>2, <2>3, <2>4
<1>3. /\ doc'[r].table = doc[r].table
      /\ \A q \in Requests \ {r} : doc'[q] = doc[q]
  <2>1. CASE LockOrder(r)
    BY <1>0, <2>1 DEF LockOrder, TypeOK, OrderDoc
  <2>2. CASE ResolveCustomer(r)
    BY <1>0, <2>2 DEF ResolveCustomer, TypeOK, OrderDoc
  <2>3. CASE PostInvoice(r) \/ InvoiceExists(r) \/ RelinkInvoice(r)
    BY <1>0, <2>3 DEF PostInvoice, InvoiceExists, RelinkInvoice, TypeOK, OrderDoc
  <2>4. CASE PaymentFound(r) \/ PostPayment(r) \/ PaymentExists(r)
    BY <1>0, <2>4 DEF PaymentFound, PostPayment, PaymentExists, TypeOK, OrderDoc
  <2> QED BY <2>1, <2>2, <2>3, <2>4
<1>4. \A p \in Orders :
        order'[p].table = order[p].table /\ order'[p].status = order[p].status
  <2>1. CASE PostInvoice(r) \/ RelinkInvoice(r)
    <3>1. order' = [order EXCEPT ![o].inv = job[r].c]
      BY <2>1 DEF PostInvoice, RelinkInvoice
    <3> QED BY <1>0, <1>1, <3>1 DEF TypeOK, OrderDoc
  <2>2. CASE order' = order
    BY <2>2
  <2> QED BY <2>1, <2>2 DEF LockOrder, ResolveCustomer, InvoiceExists,
                            PaymentFound, PostPayment, PaymentExists
<1>5. SeatOK(r)'
  BY <1>0, <1>1, <1>2, <1>3, <1>4 DEF SeatOK
<1> QED BY <1>0, <1>2, <1>3, <1>4, <1>5, StepKeepsSeats

LEMMA NextSeats == EditInv /\ SeatInv /\ [Next]_vars => SeatInv'
<1> SUFFICES ASSUME EditInv, SeatInv, [Next]_vars PROVE SeatInv'
  OBVIOUS
<1>1. CASE UNCHANGED vars
  BY <1>1 DEF vars, SeatInv, TableServesItsOrder, SeatOK
<1>2. CASE \E c \in ClientIds : CancelInvoice(c)
  <2>1. UNCHANGED <<order, table, pc, job, doc, tdoc, bumped>>
    BY <1>2 DEF CancelInvoice
  <2> QED BY <2>1 DEF SeatInv, TableServesItsOrder, SeatOK
<1>3. ASSUME NEW r \in Requests, RequestStep(r)
      PROVE  SeatInv'
  <2>1. CASE FirstRead(r)
    <3>1. UNCHANGED <<order, table, pc, job, doc, tdoc, bumped>>
      BY <2>1 DEF FirstRead
    <3> QED BY <3>1 DEF SeatInv, TableServesItsOrder, SeatOK
  <2>2. CASE ~FirstRead(r)
    BY <1>3, <2>2, CreateKeepsSeats, LoadsKeepSeats, SavesKeepSeats,
       VoidKeepsSeats, LoserKeepsSeats, TablesKeepSeats, CheckoutKeepsSeats,
       EndKeepsSeats
       DEF RequestStep
  <2> QED BY <2>1, <2>2
<1> QED BY <1>1, <1>2, <1>3 DEF Next, RequestStep

LEMMA SeatInvariant == Spec => [](EditInv /\ SeatInv)
<1>1. Init => EditInv /\ SeatInv
  BY InitInv, InitSeats
<1>2. EditInv /\ SeatInv /\ [Next]_vars => (EditInv /\ SeatInv)'
  BY NextInv, NextSeats
<1> QED BY <1>1, <1>2, PTL DEF Spec

\* The order a table shows, when its client_id was only ever sent for one table,
\* sits at that table and is not void, and a free table shows none: a table is
\* saved only from a current copy, an order leaves its table in the commit that
\* makes it void, and of two requests that create the order for one table the
\* loser's save is refused.  This needs no snapshot isolation.
THEOREM TablesServeTheirOrders == Spec => []TableServesItsOrder
<1>1. SeatInv => TableServesItsOrder
  BY DEF SeatInv
<1> QED BY <1>1, SeatInvariant, PTL

\* Only void_order makes an order void.
LEMMA OnlyVoidVoids ==
  ASSUME EditInv, SeatInv, [Next]_vars, NEW o \in Orders,
         order[o].status # "Void", order'[o].status = "Void"
  PROVE  \E r \in Requests : VoidOrder(r) /\ job[r].o = o
<1>0. TypeOK
  BY DEF EditInv
<1>1. CASE UNCHANGED vars
  BY <1>1 DEF vars
<1>2. CASE \E c \in ClientIds : CancelInvoice(c)
  BY <1>2 DEF CancelInvoice
<1>3. ASSUME NEW r \in Requests, RequestStep(r)
      PROVE  VoidOrder(r) /\ job[r].o = o
  <2>1. CASE \/ LoadCreate(r) \/ LoadOrder(r) \/ LoadTable(r) \/ LoadPay(r)
             \/ LockOrder(r) \/ ResolveCustomer(r) \/ InvoiceExists(r)
             \/ PaymentFound(r) \/ PostPayment(r) \/ PaymentExists(r)
             \/ FirstRead(r) \/ EndRequest(r) \/ MarkBilling(r) \/ SetTableStatus(r) \/ LoseCreate(r)
    BY <2>1 DEF LoadCreate, LoadOrder, LoadTable, LoadPay, Arrive, LockOrder,
                ResolveCustomer, InvoiceExists, PaymentFound, PostPayment,
                PaymentExists, FirstRead, EndRequest, database, MarkBilling,
                SetTableStatus, LoseCreate, SaveTable
  <2>2. CASE PostInvoice(r) \/ RelinkInvoice(r)
    <3>1. order' = [order EXCEPT ![job[r].o].inv = job[r].c]
      BY <2>2 DEF PostInvoice, RelinkInvoice
    <3> QED BY <1>0, <3>1 DEF TypeOK, OrderDoc
  <2>3. CASE CreateOrder(r)
    <3>1. PICK items \in [Rows -> 0..MaxQty] :
            order' = [order EXCEPT ![job[r].o] =
                        [NoOrder EXCEPT !.status = "Open", !.table = job[r].t,
                                        !.items = items]]
      BY <2>3 DEF CreateOrder
    <3> QED BY <1>0, <3>1 DEF NoOrder, TypeOK
  <2>4. CASE \/ AddItem(r) \/ UpdateItemQty(r) \/ SetNote(r) \/ SendOrder(r)
             \/ SavePaid(r)
    <3>1. doc[r] \in OrderDoc
      BY <1>0 DEF TypeOK
    <3>2. PICK d :
            /\ order' = [order EXCEPT ![job[r].o] = d] /\ job[r].o \notin bumped[r]
            /\ d.status \in {doc[r].status, "Sent", "Paid"}
      <4>1. CASE AddItem(r) \/ UpdateItemQty(r)
        <5>1. PICK i \in Rows, n \in 1..MaxQty :
                SaveOrder(r, [doc[r] EXCEPT !.items[i] = n])
          BY <4>1 DEF AddItem, UpdateItemQty
        <5>2. [doc[r] EXCEPT !.items[i] = n].status = doc[r].status
          BY <3>1 DEF OrderDoc
        <5> QED BY <5>1, <5>2 DEF SaveOrder, CanSave
      <4>2. CASE SetNote(r)
        BY <4>2 DEF SetNote, SaveOrder, CanSave
      <4>3. CASE SendOrder(r)
        <5>1. PICK syn :
                SaveOrder(r, [doc[r] EXCEPT !.status = "Sent", !.synced = syn])
          BY <4>3 DEF SendOrder
        <5>2. [doc[r] EXCEPT !.status = "Sent", !.synced = syn].status = "Sent"
          BY <3>1 DEF OrderDoc
        <5> QED BY <5>1, <5>2 DEF SaveOrder, CanSave
      <4>4. CASE SavePaid(r)
        <5>1. [doc[r] EXCEPT !.status = "Paid"].status = "Paid"
          BY <3>1 DEF OrderDoc
        <5> QED BY <4>4, <5>1 DEF SavePaid, SaveOrder, CanSave
      <4> QED BY <2>4, <4>1, <4>2, <4>3, <4>4
    <3>3. job[r].o \in Orders /\ Holds(r, job[r].o)
      BY <2>4 DEF EditInv, JobOK, AddItem, UpdateItemQty, SetNote, SendOrder,
                  SavePaid, OrderOps, Holds, PayPCs, PCs
    <3>4. doc[r].status = order[job[r].o].status
      BY <3>2, <3>3 DEF EditInv, CopyIsCurrent
    <3> QED BY <1>0, <3>2, <3>3, <3>4 DEF TypeOK
  <2>5. CASE VoidOrder(r)
    BY <1>0, <2>5 DEF VoidOrder, SaveVoid, TypeOK
  <2> QED BY <1>3, <2>1, <2>2, <2>3, <2>4, <2>5 DEF RequestStep
<1> QED BY <1>1, <1>2, <1>3 DEF Next, RequestStep

VoidsSpareOthers ==
  \A o \in Orders, t \in Tables :
    /\ order[o].status # "Void"
    /\ order'[o].status = "Void"
    /\ table[t].current # o
    => table'[t] = table[t]

LEMMA NextSparesOthers == EditInv /\ SeatInv /\ [Next]_vars => VoidsSpareOthers
<1> SUFFICES ASSUME EditInv, SeatInv, [Next]_vars,
                    NEW o \in Orders, NEW t \in Tables,
                    order[o].status # "Void", order'[o].status = "Void",
                    table[t].current # o
             PROVE  table'[t] = table[t]
  BY DEF VoidsSpareOthers
<1>1. PICK r \in Requests : VoidOrder(r) /\ job[r].o = o
  BY OnlyVoidVoids
<1> QED BY <1>1, VoidKeepsSeats

\* Voiding an order never frees a table that serves another order by now:
\* void_order frees a table only from a copy that shows this order, and the
\* save is refused when the copy is out of date.
THEOREM VoidsKeepOthersTables == Spec => VoidKeepsOthersTable
<1>1. EditInv /\ SeatInv /\ [Next]_vars => [VoidsSpareOthers]_vars
  BY NextSparesOthers
<1>2. [VoidsSpareOthers]_vars
        <=> [\A o \in Orders, t \in Tables :
               /\ order[o].status # "Void"
               /\ order'[o].status = "Void"
               /\ table[t].current # o
               => table'[t] = table[t]]_vars
  BY DEF VoidsSpareOthers
<1> QED BY <1>1, <1>2, SeatInvariant, PTL DEF Spec, VoidKeepsOthersTable

-----------------------------------------------------------------------------
(* What an invoice bills.  Until the invoice is posted, checkout stays in   *)
(* the transaction it loaded the order in, so that whoever saves the order  *)
(* meanwhile also makes its row one this transaction cannot lock.           *)

BeforeInvoice == {"lock", "customer", "invoice"}

FreshOK(r) ==
  /\ pc[r] = "idle" => bumped[r] = {}
  /\ pc[r] \in BeforeInvoice /\ job[r].o \in bumped[r] => job[r].o \in touched[r]

FreshInv == \A r \in Requests : FreshOK(r)

LEMMA InitFresh ==
  ASSUME Init
  PROVE  FreshInv
BY DEF Init, FreshInv, FreshOK, BeforeInvoice

\* What happens to the marks of the others.
LEMMA OthersStayFresh ==
  ASSUME Regime, TypeOK, NEW r \in Requests, RequestStep(r),
         NEW q \in Requests \ {r}, FreshOK(q)
  PROVE  FreshOK(q)'
<1>1. /\ pc'[q] = pc[q] /\ job'[q] = job[q]
      /\ touched[q] \subseteq touched'[q]
  BY OthersFrame
<1>2. \/ bumped'[q] = bumped[q]
      \/ \E saved : /\ bumped'[q] = bumped[q] \cup (saved \cap Uses(q))
                    /\ touched'[q] = touched[q] \cup (saved \cap Uses(q))
  <2>1. CASE \E saved : CommitAndReturn(r, saved)
    <3>1. PICK saved : CommitAndReturn(r, saved)
      BY <2>1
    <3>2. bumped'[q] = bumped[q] \cup (saved \cap Uses(q))
      BY <3>1 DEF CommitAndReturn, Bump, TypeOK
    <3>3. touched' = Touch(r, saved)
      BY <3>1 DEF CommitAndReturn
    <3>4. touched'[q] = touched[q] \cup (saved \cap Uses(q))
      BY <3>3, TouchGrows
    <3> QED BY <3>2, <3>4
  <2>2. CASE bumped' = bumped
    BY <2>2
  <2>3. CASE \/ CreateOrder(r) \/ AddItem(r) \/ UpdateItemQty(r) \/ SetNote(r)
             \/ SendOrder(r) \/ SavePaid(r) \/ MarkBilling(r)
             \/ SetTableStatus(r) \/ LoseCreate(r) \/ EndRequest(r) \/ VoidOrder(r)
    BY <2>1, <2>3 DEF CreateOrder, AddItem, UpdateItemQty, SetNote, SendOrder,
                      SavePaid, SaveOrder, MarkBilling, SetTableStatus, LoseCreate, SaveTable,
                      EndRequest, VoidOrder, SaveVoid
  <2>4. CASE \/ LoadCreate(r) \/ LoadOrder(r) \/ LoadTable(r) \/ LoadPay(r)
             \/ LockOrder(r) \/ ResolveCustomer(r) \/ PostInvoice(r)
             \/ InvoiceExists(r) \/ RelinkInvoice(r) \/ PaymentFound(r)
             \/ PostPayment(r) \/ PaymentExists(r) \/ FirstRead(r)
    BY <2>2, <2>4 DEF LoadCreate, LoadOrder, LoadTable, LoadPay, Arrive, LockOrder,
                      ResolveCustomer, PostInvoice, InvoiceExists, RelinkInvoice,
                      PaymentFound, PostPayment, PaymentExists, FirstRead,
                      CommitAndGoOn
  <2> QED BY <2>3, <2>4 DEF RequestStep
<1>3. \A saved : pc[q] = "idle" => saved \cap Uses(q) = {}
  BY DEF Uses, Live
<1> QED BY <1>1, <1>2, <1>3 DEF FreshOK

LEMMA RequestStaysFresh ==
  ASSUME Regime, EditInv, LinkInv, NEW r \in Requests, RequestStep(r), FreshOK(r)
  PROVE  FreshOK(r)'
<1>0. TypeOK /\ CheckoutOK(r)
  BY DEF EditInv, LinkInv
<1>1. CASE \E saved : CommitAndReturn(r, saved)
  <2>1. PICK saved : CommitAndReturn(r, saved)
    BY <1>1
  <2>2. pc'[r] = "idle"
    BY <1>0, <2>1 DEF CommitAndReturn, TypeOK
  <2>3. bumped'[r] = {}
    BY <2>1 DEF CommitAndReturn, Bump
  <2> QED BY <2>2, <2>3 DEF FreshOK, BeforeInvoice
<1>2. CASE \/ CreateOrder(r) \/ AddItem(r) \/ UpdateItemQty(r) \/ SetNote(r)
           \/ SendOrder(r) \/ SavePaid(r) \/ MarkBilling(r)
           \/ SetTableStatus(r) \/ LoseCreate(r) \/ EndRequest(r) \/ VoidOrder(r)
  BY <1>1, <1>2 DEF CreateOrder, AddItem, UpdateItemQty, SetNote, SendOrder,
                    SavePaid, SaveOrder, MarkBilling, SetTableStatus, LoseCreate, SaveTable,
                    EndRequest, VoidOrder, SaveVoid
<1>3. CASE LoadCreate(r) \/ LoadOrder(r) \/ LoadTable(r) \/ LoadPay(r)
  <2>1. /\ pc[r] = "idle" /\ bumped' = bumped
        /\ pc'[r] \in {"ready", "lock"}
    BY <1>0, <1>3 DEF LoadCreate, LoadOrder, LoadTable, LoadPay, Arrive, TypeOK
  <2> QED BY <2>1 DEF FreshOK
<1>4. CASE LockOrder(r)
  BY <1>0, <1>4 DEF LockOrder, TypeOK, FreshOK, BeforeInvoice
<1>5. CASE ResolveCustomer(r)
  <2>1. job[r].o \in Orders /\ pc[r] = "customer"
    BY <1>5 DEF EditInv, JobOK, ResolveCustomer, PayPCs, PCs
  <2>2. CustomerOf[job[r].o] \in view[r].customers
    BY <1>0, <2>1, ConstantsAssumption DEF CheckoutOK
  <2>3. UNCHANGED <<job, bumped, touched>> /\ pc'[r] # "idle"
    BY <1>0, <1>5, <2>2 DEF ResolveCustomer, AfterInvoice, TypeOK
  <2> QED BY <2>1, <2>3 DEF FreshOK, BeforeInvoice
<1>6. CASE PostInvoice(r) \/ PaymentFound(r) \/ PostPayment(r) \/ PaymentExists(r)
  <2>1. pc'[r] \in {"entry", "save"}
    BY <1>0, <1>6 DEF PostInvoice, PaymentFound, PostPayment, PaymentExists,
                      CommitAndGoOn, AfterInvoice, TypeOK
  <2> QED BY <2>1 DEF FreshOK, BeforeInvoice
<1>7. CASE FirstRead(r)
  BY <1>0, <1>7 DEF FirstRead, Live, CheckoutOK, FreshOK, BeforeInvoice
<1> QED BY <1>2, <1>3, <1>4, <1>5, <1>6, <1>7, NoRelink DEF RequestStep

LEMMA NextFresh == Regime /\ EditInv /\ LinkInv /\ FreshInv /\ [Next]_vars => FreshInv'
<1> SUFFICES ASSUME Regime, EditInv, LinkInv, FreshInv, [Next]_vars,
                    NEW q \in Requests
             PROVE  FreshOK(q)'
  BY DEF FreshInv
<1>0. TypeOK /\ FreshOK(q)
  BY DEF EditInv, FreshInv
<1>1. CASE UNCHANGED vars
  BY <1>0, <1>1 DEF vars, FreshOK
<1>2. CASE \E c \in ClientIds : CancelInvoice(c)
  <2>1. UNCHANGED <<pc, job, bumped>> /\ touched[q] \subseteq touched'[q]
    BY <1>2 DEF CancelInvoice, Regime
  <2> QED BY <1>0, <2>1 DEF FreshOK
<1>3. ASSUME NEW r \in Requests, RequestStep(r)
      PROVE  FreshOK(q)'
  <2>1. CASE q = r
    BY <1>0, <1>3, <2>1, RequestStaysFresh
  <2>2. CASE q # r
    BY <1>0, <1>3, <2>2, OthersStayFresh
  <2> QED BY <2>1, <2>2
<1> QED BY <1>1, <1>2, <1>3 DEF Next, RequestStep

BillsTheItems ==
  \A c \in ClientIds :
    invoice[c].docstatus = 0 /\ invoice'[c].docstatus = 1
      => invoice'[c].lines = order[invoice'[c].order].items

LEMMA PostBillsTheItems ==
  ASSUME Regime, EditInv, LinkInv, FreshInv, NEW r \in Requests, PostInvoice(r)
  PROVE  BillsTheItems
<1> DEFINE o == job[r].o
           c == job[r].c
<1>0. /\ TypeOK /\ o \in Orders /\ c \in ClientIds /\ pc[r] = "invoice"
      /\ job[r].op = "pay" /\ FreshOK(r)
  BY DEF EditInv, JobOK, PostInvoice, PayPCs, PCs, FreshInv
<1>1. o \notin bumped[r]
  BY <1>0 DEF PostInvoice, NoConflict, FreshOK, BeforeInvoice
<1>2. doc[r].items = order[o].items
  BY <1>0, <1>1 DEF EditInv, CopyIsCurrent, Holds
<1>3. /\ invoice'[c].lines = doc[r].items /\ invoice'[c].order = o
      /\ \A d \in ClientIds \ {c} : invoice'[d] = invoice[d]
  BY <1>0 DEF PostInvoice, TypeOK
<1> QED BY <1>2, <1>3 DEF BillsTheItems

LEMMA NextBillsTheItems ==
  Regime /\ EditInv /\ LinkInv /\ FreshInv /\ [Next]_vars => BillsTheItems
<1> SUFFICES ASSUME Regime, EditInv, LinkInv, FreshInv, [Next]_vars
             PROVE  BillsTheItems
  OBVIOUS
<1>0. TypeOK
  BY DEF EditInv
<1>1. CASE invoice' = invoice
  BY <1>1 DEF BillsTheItems
<1>2. CASE \E c \in ClientIds : CancelInvoice(c)
  <2>1. PICK c \in ClientIds :
          /\ invoice[c].docstatus = 1
          /\ invoice' = [invoice EXCEPT ![c].docstatus = 2, ![c].paid = 0]
    BY <1>2 DEF CancelInvoice
  <2> QED BY <1>0, <2>1 DEF BillsTheItems, TypeOK, InvoiceDoc
<1>3. ASSUME NEW r \in Requests, RequestStep(r)
      PROVE  BillsTheItems
  <2>1. CASE PostInvoice(r)
    BY <2>1, PostBillsTheItems
  <2>2. CASE PostPayment(r)
    <3>1. invoice' = [invoice EXCEPT ![doc[r].inv].paid = @ + 1]
      BY <2>2 DEF PostPayment
    <3> QED BY <1>0, <3>1 DEF BillsTheItems, TypeOK, InvoiceDoc
  <2>3. CASE ~PostInvoice(r) /\ ~PostPayment(r)
    <3>1. invoice' = invoice
      BY <1>3, <2>3
         DEF RequestStep, LoadCreate, LoadOrder, LoadTable, LoadPay, Arrive,
             CreateOrder, AddItem, UpdateItemQty, SetNote, SendOrder, SavePaid,
             SaveOrder, VoidOrder, SaveVoid, MarkBilling, SetTableStatus, LoseCreate, SaveTable,
             LockOrder, ResolveCustomer, InvoiceExists, RelinkInvoice,
             PaymentFound, PaymentExists, FirstRead, EndRequest, database
    <3> QED BY <1>1, <3>1
  <2> QED BY <2>1, <2>2, <2>3
<1> QED BY <1>1, <1>2, <1>3 DEF Next, RequestStep, vars

\* An order is billed for the items it has when the invoice is posted, although
\* pay() loads them before it waits for the row lock and the locking read
\* refreshes only three columns: with snapshot isolation the lock is refused
\* when the order was saved since.
THEOREM InvoicesBillTheItems ==
  ASSUME Regime
  PROVE  Spec => InvoiceBillsTheItems
<1>1. Init => EditInv /\ LinkInv /\ FreshInv
  BY InitInv, InitLinks, InitFresh
<1>2. EditInv /\ LinkInv /\ FreshInv /\ [Next]_vars => (EditInv /\ LinkInv /\ FreshInv)'
  BY NextInv, NextLinks, NextFresh
<1>3. EditInv /\ LinkInv /\ FreshInv /\ [Next]_vars => [BillsTheItems]_vars
  BY NextBillsTheItems
<1>4. [BillsTheItems]_vars
        <=> [\A c \in ClientIds :
               invoice[c].docstatus = 0 /\ invoice'[c].docstatus = 1
                 => invoice'[c].lines = order[invoice'[c].order].items]_vars
  BY DEF BillsTheItems
<1> QED BY <1>1, <1>2, <1>3, <1>4, PTL DEF Spec, InvoiceBillsTheItems

-----------------------------------------------------------------------------
(* RestoCheckout implements OrderLife: under Regime an order has at most one *)
(* invoice, the one it remembers, and what OrderLife sees of the order is    *)
(* its status and that invoice.                                              *)

BillSeen(o) ==
  IF order[o].inv = None THEN "none"
  ELSE IF invoice[order[o].inv].docstatus = 1 THEN "posted" ELSE "cancelled"

PaidSeen(o) == order[o].inv # None /\ invoice[order[o].inv].paid > 0

PaidInLife == {o \in Orders : \E c \in InvoicesOf(o) : invoice[c].paid > 0}

LEMMA SeenIs ==
  ASSUME TypeOK, LinkInv, NEW o \in Orders
  PROVE  BillOf(o) = BillSeen(o) /\ (o \in PaidInLife <=> PaidSeen(o))
<1>1. order[o].inv \in ClientIds \cup {None}
  BY DEF TypeOK, OrderDoc
<1>2. \A c \in ClientIds : c \in InvoicesOf(o) <=> order[o].inv = c
  BY <1>1 DEF LinkInv, Linked, InvoicesOf
<1>3. BillOf(o) = BillSeen(o)
  BY <1>1, <1>2 DEF BillOf, BillSeen, InvoicesOf
<1>4. o \in PaidInLife <=> PaidSeen(o)
  BY <1>1, <1>2 DEF PaidInLife, PaidSeen, InvoicesOf
<1> QED BY <1>3, <1>4

LEMMA SeenIsNext ==
  ASSUME TypeOK', LinkInv', NEW o \in Orders
  PROVE  BillOf(o)' = BillSeen(o)' /\ (o \in PaidInLife' <=> PaidSeen(o)')
<1>1. order'[o].inv \in ClientIds \cup {None}
  BY DEF TypeOK, OrderDoc
<1>2. \A c \in ClientIds : c \in InvoicesOf(o)' <=> order'[o].inv = c
  BY <1>1 DEF LinkInv, Linked, InvoicesOf
<1>3. BillOf(o)' = BillSeen(o)'
  BY <1>1, <1>2 DEF BillOf, BillSeen, InvoicesOf
<1>4. o \in PaidInLife' <=> PaidSeen(o)'
  BY <1>1, <1>2 DEF PaidInLife, PaidSeen, InvoicesOf
<1> QED BY <1>3, <1>4

\* What an order may go through in one step.
Rests(o) ==
  /\ order'[o].status = order[o].status
  /\ BillSeen(o)' = BillSeen(o) /\ (PaidSeen(o)' <=> PaidSeen(o))

Lives(o) ==
  LET s == order[o].status
      t == order'[o].status
      sameBill == BillSeen(o)' = BillSeen(o) /\ (PaidSeen(o)' <=> PaidSeen(o))
      busy == s \in {"Open", "Sent"}
  IN \/ s = "Absent" /\ t = "Open" /\ sameBill
     \/ busy /\ t = "Sent" /\ sameBill
     \/ busy /\ t = "Paid" /\ BillSeen(o) # "none" /\ sameBill
     \/ busy /\ t = "Void" /\ BillSeen(o) # "posted" /\ sameBill
     \/ /\ busy /\ t = s /\ BillSeen(o) = "none" /\ BillSeen(o)' = "posted"
        /\ PaidSeen(o)' <=> PaidSeen(o)
     \/ /\ t = s /\ BillSeen(o) = "posted" /\ BillSeen(o)' = "posted"
        /\ ~PaidSeen(o) /\ PaidSeen(o)'
     \/ /\ t = s /\ BillSeen(o) = "posted" /\ BillSeen(o)' = "cancelled"
        /\ ~PaidSeen(o)'

LEMMA LifeRests ==
  ASSUME TypeOK, LinkInv, TypeOK', LinkInv', \A p \in Orders : Rests(p)
  PROVE  [Life!LifeNext]_(Life!lifeVars)
<1> DEFINE st == [p \in Orders |-> order[p].status]
           bl == [p \in Orders |-> BillOf(p)]
<1>1. \A p \in Orders :
        /\ bl[p] = BillSeen(p) /\ bl'[p] = BillSeen(p)'
        /\ st[p] = order[p].status /\ st'[p] = order'[p].status
        /\ p \in PaidInLife <=> PaidSeen(p)
        /\ p \in PaidInLife' <=> PaidSeen(p)'
  BY SeenIs, SeenIsNext
<1>2. PaidInLife \subseteq Orders /\ PaidInLife' \subseteq Orders
  BY DEF PaidInLife
<1>3. st' = st /\ bl' = bl /\ PaidInLife' = PaidInLife
  BY <1>1, <1>2 DEF Rests
<1> QED BY <1>3 DEF Life!lifeVars, PaidInLife

LEMMA LifeStep ==
  ASSUME TypeOK, LinkInv, TypeOK', LinkInv', NEW o \in Orders,
         \A p \in Orders \ {o} : Rests(p),
         Rests(o) \/ Lives(o)
  PROVE  [Life!LifeNext]_(Life!lifeVars)
<1> DEFINE st == [p \in Orders |-> order[p].status]
           bl == [p \in Orders |-> BillOf(p)]
<1>1. \A p \in Orders :
        /\ bl[p] = BillSeen(p) /\ bl'[p] = BillSeen(p)'
        /\ st[p] = order[p].status /\ st'[p] = order'[p].status
        /\ p \in PaidInLife <=> PaidSeen(p)
        /\ p \in PaidInLife' <=> PaidSeen(p)'
  BY SeenIs, SeenIsNext
<1>2. PaidInLife \subseteq Orders /\ PaidInLife' \subseteq Orders
  BY DEF PaidInLife
<1>3. CASE Rests(o)
  <2>1. \A p \in Orders : Rests(p)
    BY <1>3
  <2> QED BY <2>1, LifeRests
<1>4. CASE Lives(o)
  <2>1. \A p \in Orders \ {o} :
          /\ st'[p] = st[p] /\ bl'[p] = bl[p]
          /\ p \in PaidInLife' <=> p \in PaidInLife
    BY <1>1 DEF Rests
  <2>2. \/ /\ st[o] = "Absent" /\ st' = [st EXCEPT ![o] = "Open"]
           /\ bl' = bl /\ PaidInLife' = PaidInLife
        \/ /\ st[o] \in {"Open", "Sent"} /\ st' = [st EXCEPT ![o] = "Sent"]
           /\ bl' = bl /\ PaidInLife' = PaidInLife
        \/ /\ st[o] \in {"Open", "Sent"} /\ st' = [st EXCEPT ![o] = "Paid"]
           /\ bl[o] # "none" /\ bl' = bl /\ PaidInLife' = PaidInLife
        \/ /\ st[o] \in {"Open", "Sent"} /\ st' = [st EXCEPT ![o] = "Void"]
           /\ bl[o] # "posted" /\ bl' = bl /\ PaidInLife' = PaidInLife
        \/ /\ st[o] \in {"Open", "Sent"} /\ st' = st
           /\ bl[o] = "none" /\ bl' = [bl EXCEPT ![o] = "posted"]
           /\ PaidInLife' = PaidInLife
        \/ /\ st' = st /\ bl[o] = "posted" /\ bl' = bl
           /\ o \notin PaidInLife /\ PaidInLife' = PaidInLife \cup {o}
        \/ /\ st' = st /\ bl[o] = "posted" /\ bl' = [bl EXCEPT ![o] = "cancelled"]
           /\ PaidInLife' = PaidInLife \ {o}
    BY <1>1, <1>2, <1>4, <2>1, ZenonT(60) DEF Lives
  <2>3. \/ Life!Open(o) \/ Life!Send(o) \/ Life!Bill(o) \/ Life!Collect(o)
        \/ Life!Close(o) \/ Life!Void(o) \/ Life!CancelBill(o)
    BY <2>2 DEF Life!Open, Life!Send, Life!Bill, Life!Collect, Life!Close,
                Life!Void, Life!CancelBill, Life!Busy, PaidInLife
  <2> QED BY <2>3 DEF Life!LifeNext
<1> QED BY <1>3, <1>4

\* Steps that write neither invoices nor links move the status alone.
LEMMA BillStays ==
  ASSUME invoice' = invoice, NEW p \in Orders, order'[p].inv = order[p].inv
  PROVE  BillSeen(p)' = BillSeen(p) /\ (PaidSeen(p)' <=> PaidSeen(p))
BY DEF BillSeen, PaidSeen

\* The invoice a request saw, when it is about to void the order, is no older
\* than the link it read.
ReadOK(r) ==
  pc[r] = "ready" =>
    /\ \A c \in ClientIds : view[r].invoice[c].docstatus <= invoice[c].docstatus
    /\ job[r].op \in OrderOps /\ doc[r].inv # None =>
         view[r].invoice[doc[r].inv].docstatus # 0

ReadInv == \A r \in Requests : ReadOK(r)

LEMMA InitReads ==
  ASSUME Init
  PROVE  ReadInv
BY DEF Init, ReadInv, ReadOK

LEMMA InvoicesOnlyGrow ==
  ASSUME EditInv, [Next]_vars, NEW c \in ClientIds
  PROVE  invoice[c].docstatus <= invoice'[c].docstatus
<1>0. TypeOK /\ invoice[c] \in InvoiceDoc /\ invoice[c].docstatus \in 0..2
  BY DEF EditInv, TypeOK, InvoiceDoc
<1>1. CASE invoice' = invoice
  BY <1>0, <1>1
<1>2. CASE \E d \in ClientIds : CancelInvoice(d)
  <2>1. PICK d \in ClientIds :
          invoice' = [invoice EXCEPT ![d].docstatus = 2, ![d].paid = 0]
    BY <1>2 DEF CancelInvoice
  <2> QED BY <1>0, <2>1 DEF TypeOK, InvoiceDoc
<1>3. CASE \E r \in Requests : PostInvoice(r)
  <2>1. PICK r \in Requests : PostInvoice(r)
    BY <1>3
  <2>2. /\ invoice[job[r].c].docstatus = 0
        /\ invoice' = [invoice EXCEPT ![job[r].c] =
                         [docstatus |-> 1, order |-> job[r].o,
                          lines |-> doc[r].items, paid |-> 0]]
    BY <2>1 DEF PostInvoice
  <2> QED BY <1>0, <2>2 DEF TypeOK
<1>4. CASE \E r \in Requests : PostPayment(r)
  <2>1. PICK r \in Requests :
          invoice' = [invoice EXCEPT ![doc[r].inv].paid = @ + 1]
    BY <1>4 DEF PostPayment
  <2> QED BY <1>0, <2>1 DEF TypeOK, InvoiceDoc
<1>5. CASE UNCHANGED vars
  BY <1>1, <1>5 DEF vars
<1>6. ASSUME NEW r \in Requests, RequestStep(r), ~PostInvoice(r), ~PostPayment(r)
      PROVE  invoice' = invoice
  BY <1>6 DEF RequestStep, LoadCreate, LoadOrder, LoadTable, LoadPay, Arrive,
              CreateOrder, AddItem, UpdateItemQty, SetNote, SendOrder, SavePaid,
              SaveOrder, VoidOrder, SaveVoid, MarkBilling, SetTableStatus, LoseCreate, SaveTable,
              LockOrder, ResolveCustomer, InvoiceExists, RelinkInvoice,
              PaymentFound, PaymentExists, FirstRead, EndRequest, database
<1> QED BY <1>1, <1>2, <1>3, <1>4, <1>5, <1>6 DEF Next, RequestStep

LEMMA NextReads ==
  Regime /\ EditInv /\ LinkInv /\ ReadInv /\ [Next]_vars => ReadInv'
<1> SUFFICES ASSUME Regime, EditInv, LinkInv, ReadInv, [Next]_vars,
                    NEW q \in Requests, pc'[q] = "ready"
             PROVE  ReadOK(q)'
  BY DEF ReadInv, ReadOK
<1>0. TypeOK /\ TypeOK' /\ ReadOK(q)
  BY NextInv DEF EditInv, ReadInv
<1>1. \A c \in ClientIds :
        /\ invoice[c].docstatus <= invoice'[c].docstatus
        /\ invoice[c].docstatus \in 0..2 /\ invoice'[c].docstatus \in 0..2
  BY <1>0, InvoicesOnlyGrow DEF TypeOK, InvoiceDoc
<1>2. CASE pc[q] = "ready" /\ job'[q] = job[q] /\ doc'[q] = doc[q] /\ view'[q] = view[q]
  <2>1. view[q] \in View
    BY <1>0, <1>2 DEF LinkInv, CheckoutOK, TypeOK
  <2>2. \A c \in ClientIds : view[q].invoice[c].docstatus \in 0..2
    BY <2>1 DEF View, InvoiceDoc
  <2> QED BY <1>0, <1>1, <1>2, <2>2 DEF ReadOK
<1>3. ASSUME NEW at, NEW j, Arrive(q, at, j),
             j.op \in OrderOps => j.o \in Orders
      PROVE  ReadOK(q)'
  <2>1. /\ view'[q].invoice = invoice /\ invoice' = invoice /\ job'[q] = j
        /\ j.o \in Orders => doc'[q] = order[j.o]
    BY <1>0, <1>3, NoneAssumption DEF Arrive, Snapshot, TypeOK
  <2>2. j.o \in Orders /\ order[j.o].inv # None =>
          invoice[order[j.o].inv].docstatus # 0
    BY DEF LinkInv, Linked
  <2> QED BY <1>1, <1>3, <2>1, <2>2 DEF ReadOK
<1>4. CASE UNCHANGED vars \/ \E c \in ClientIds : CancelInvoice(c)
  BY <1>2, <1>4 DEF vars, CancelInvoice
<1>5. ASSUME NEW r \in Requests \ {q}, RequestStep(r)
      PROVE  ReadOK(q)'
  <2>1. pc'[q] = pc[q] /\ job'[q] = job[q] /\ doc'[q] = doc[q] /\ view'[q] = view[q]
    BY <1>0, <1>5, OthersFrame
  <2> QED BY <1>2, <2>1
<1>6. CASE RequestStep(q)
  <2>1. CASE LoadCreate(q) \/ LoadOrder(q) \/ LoadTable(q) \/ LoadPay(q)
    <3>1. CASE LoadCreate(q)
      <4>1. PICK o \in Orders, t \in Tables \cup {None} :
              Arrive(q, "ready",
                     [NoJob EXCEPT !.op = "create_order", !.o = o, !.t = t])
        BY <3>1, ConstantsAssumption DEF LoadCreate
      <4> QED BY <1>3, <4>1 DEF NoJob
    <3>2. CASE LoadOrder(q)
      <4>1. PICK op \in OrderOps, o \in Orders :
              Arrive(q, "ready",
                     [NoJob EXCEPT !.op = op, !.o = o, !.t = order[o].table])
        BY <3>2 DEF LoadOrder
      <4> QED BY <1>3, <4>1 DEF NoJob
    <3>3. CASE LoadTable(q)
      <4>1. PICK t \in Tables :
              Arrive(q, "ready", [NoJob EXCEPT !.op = "set_table_status", !.t = t])
        BY <3>3 DEF LoadTable
      <4> QED BY <1>3, <4>1 DEF NoJob, OrderOps
    <3>4. CASE LoadPay(q)
      BY <1>0, <3>4 DEF LoadPay, Arrive, TypeOK
    <3> QED BY <2>1, <3>1, <3>2, <3>3, <3>4
  <2>2. CASE \E saved : CommitAndReturn(q, saved)
    BY <1>0, <2>2 DEF CommitAndReturn, TypeOK
  <2>3. CASE \/ CreateOrder(q) \/ AddItem(q) \/ UpdateItemQty(q) \/ SetNote(q)
             \/ SendOrder(q) \/ SavePaid(q) \/ MarkBilling(q)
             \/ SetTableStatus(q) \/ LoseCreate(q) \/ EndRequest(q) \/ VoidOrder(q)
    BY <2>2, <2>3 DEF CreateOrder, AddItem, UpdateItemQty, SetNote, SendOrder,
                      SavePaid, SaveOrder, MarkBilling, SetTableStatus, LoseCreate, SaveTable,
                      EndRequest, VoidOrder, SaveVoid
  <2>4. CASE \/ LockOrder(q) \/ ResolveCustomer(q) \/ PostInvoice(q)
             \/ InvoiceExists(q) \/ RelinkInvoice(q) \/ PaymentFound(q)
             \/ PostPayment(q) \/ PaymentExists(q)
    BY <1>0, <2>4 DEF LockOrder, ResolveCustomer, PostInvoice, InvoiceExists,
                      RelinkInvoice, PaymentFound, PostPayment, PaymentExists,
                      CommitAndGoOn, AfterInvoice, TypeOK
  <2>5. CASE FirstRead(q)
    BY <2>5 DEF FirstRead, LinkInv, CheckoutOK
  <2> QED BY <1>6, <2>1, <2>3, <2>4, <2>5 DEF RequestStep
<1> QED BY <1>4, <1>5, <1>6 DEF Next, RequestStep

AllInv ==
  /\ EditInv
  /\ LinkInv
  /\ MoneyInv
  /\ SeatInv
  /\ FreshInv
  /\ ReadInv

\* How a save of one request's order moves that order.
LEMMA SavesLive ==
  ASSUME Regime, AllInv, NEW r \in Requests,
         \/ CreateOrder(r) \/ AddItem(r) \/ UpdateItemQty(r) \/ SetNote(r)
         \/ SendOrder(r) \/ VoidOrder(r) \/ SavePaid(r)
  PROVE  \E o \in Orders :
           /\ \A p \in Orders \ {o} : Rests(p)
           /\ Rests(o) \/ Lives(o)
<1>a. PICK o \in Orders : o = job[r].o
  BY DEF AllInv, EditInv, JobOK, CreateOrder, AddItem, UpdateItemQty, SetNote,
         SendOrder, VoidOrder, Voidable, SavePaid, OrderOps, PayPCs, PCs
<1> DEFINE s == order[o].status
           t == order'[o].status
<1>0. /\ TypeOK /\ doc[r] \in OrderDoc /\ o \in Orders /\ job[r].o = o
      /\ SeatOK(r) /\ ReadOK(r) /\ LinkOK(r) /\ CheckoutOK(r)
  BY <1>a DEF AllInv, EditInv, TypeOK, SeatInv, ReadInv, LinkInv
<1>1. \A p \in Orders : order'[p].inv = order[p].inv
  BY CreateKeepsLinks, SavesKeepLinks DEF AllInv
<1>2. invoice' = invoice
  BY DEF CreateOrder, AddItem, UpdateItemQty, SetNote, SendOrder, VoidOrder,
         SaveVoid, SavePaid, SaveOrder
<1>3. \A p \in Orders :
        BillSeen(p)' = BillSeen(p) /\ (PaidSeen(p)' <=> PaidSeen(p))
  BY <1>1, <1>2, BillStays
<1>4. \A p \in Orders \ {o} : order'[p] = order[p]
  BY <1>0 DEF CreateOrder, AddItem, UpdateItemQty, SetNote, SendOrder, VoidOrder,
              SaveVoid, SavePaid, SaveOrder, TypeOK
<1>5. \A p \in Orders \ {o} : Rests(p)
  BY <1>3, <1>4 DEF Rests
<1>6. ~CreateOrder(r) =>
        /\ Holds(r, o) /\ o \notin bumped[r] /\ o \notin touched[r]
        /\ doc[r].status = s /\ s # "Absent"
  <2>1. ~CreateOrder(r) => Holds(r, o) /\ o \notin bumped[r] /\ o \notin touched[r]
    BY <1>0 DEF AllInv, EditInv, JobOK, AddItem, UpdateItemQty, SetNote, SendOrder,
           VoidOrder, Voidable, SaveVoid, SavePaid, SaveOrder, CanSave, NoConflict,
           OrderOps, PayPCs, PCs, Holds
  <2> QED BY <1>0, <2>1 DEF AllInv, EditInv, CopyIsCurrent, Holds, SeatOK
<1>7. s \in OrderStatus
  BY <1>0 DEF TypeOK, OrderDoc
<1>8. CASE CreateOrder(r)
  <2>1. PICK items \in [Rows -> 0..MaxQty] :
          order' = [order EXCEPT ![o] =
                      [NoOrder EXCEPT !.status = "Open", !.table = job[r].t,
                                      !.items = items]]
    BY <1>0, <1>8 DEF CreateOrder
  <2>2. s = "Absent" /\ t = "Open"
    BY <1>0, <1>8, <2>1 DEF CreateOrder, NoOrder, TypeOK
  <2>3. Lives(o)
    BY <1>0, <1>3, <2>2 DEF Lives
  <2> QED BY <1>0, <1>5, <2>3
<1>9. CASE (AddItem(r) \/ UpdateItemQty(r) \/ SetNote(r)) /\ ~CreateOrder(r)
  <2>1. t = doc[r].status
    <3>1. CASE AddItem(r) \/ UpdateItemQty(r)
      <4>1. PICK i \in Rows, n \in 1..MaxQty :
              order' = [order EXCEPT ![o] = [doc[r] EXCEPT !.items[i] = n]]
        BY <1>0, <3>1 DEF AddItem, UpdateItemQty, SaveOrder
      <4> QED BY <1>0, <4>1 DEF TypeOK, OrderDoc
    <3>2. CASE SetNote(r)
      BY <1>0, <3>2 DEF SetNote, SaveOrder, TypeOK
    <3> QED BY <1>9, <3>1, <3>2
  <2>2. Rests(o)
    BY <1>0, <1>3, <1>6, <1>9, <2>1 DEF Rests
  <2> QED BY <1>0, <1>5, <2>2
<1>10. CASE SendOrder(r) /\ ~CreateOrder(r)
  <2>1. PICK syn : order' = [order EXCEPT ![o] =
                       [doc[r] EXCEPT !.status = "Sent", !.synced = syn]]
    BY <1>0, <1>10 DEF SendOrder, SaveOrder
  <2>2. t = "Sent"
    BY <1>0, <2>1 DEF TypeOK, OrderDoc
  <2>3. s \in {"Open", "Sent"}
    BY <1>6, <1>7, <1>10 DEF SendOrder, Changeable, OrderStatus
  <2>4. Lives(o)
    BY <1>0, <1>3, <2>2, <2>3 DEF Lives
  <2> QED BY <1>0, <1>5, <2>4
<1>11. CASE SavePaid(r) /\ ~CreateOrder(r)
  <2>1. order' = [order EXCEPT ![o] = [doc[r] EXCEPT !.status = "Paid"]]
    BY <1>0, <1>11 DEF SavePaid, SaveOrder
  <2>2. t = "Paid"
    BY <1>0, <2>1 DEF TypeOK, OrderDoc
  <2>3. pc[r] = "save" /\ doc[r].inv # None /\ Changeable(doc[r])
    BY <1>11 DEF SavePaid, AllInv, EditInv, JobOK, PayPCs, PCs
  <2>4. s \in {"Open", "Sent"}
    BY <1>6, <1>7, <1>11, <2>3 DEF Changeable, OrderStatus
  <2>5. order[o].inv # None
    BY <1>0, <2>3 DEF LinkOK
  <2>6. Lives(o)
    BY <1>0, <1>3, <2>2, <2>4, <2>5 DEF Lives, BillSeen
  <2> QED BY <1>0, <1>5, <2>6
<1>12. CASE VoidOrder(r) /\ ~CreateOrder(r)
  <2>1. order' = [order EXCEPT ![o] = [doc[r] EXCEPT !.status = "Void"]]
    BY <1>0, <1>12 DEF VoidOrder, SaveVoid
  <2>2. t = "Void"
    BY <1>0, <2>1 DEF TypeOK, OrderDoc
  <2>3. pc[r] = "ready" /\ job[r].op \in OrderOps /\ Changeable(doc[r]) /\ NotPosted(r)
    BY <1>12 DEF VoidOrder, Voidable, OrderOps
  <2>4. s \in {"Open", "Sent"}
    BY <1>6, <1>7, <1>12, <2>3 DEF Changeable, OrderStatus
  <2>5. doc[r].inv = order[o].inv
    BY <1>0, <1>6, <1>12, <2>3 DEF LinkOK
  <2>6. BillSeen(o) # "posted"
    <3>1. CASE order[o].inv = None
      BY <3>1 DEF BillSeen
    <3>2. CASE order[o].inv # None
      <4> DEFINE c == order[o].inv
      <4>1. c \in ClientIds
        BY <1>0, <3>2 DEF TypeOK, OrderDoc
      <4>2. view[r] \in View
        BY <1>0, <2>3 DEF CheckoutOK, TypeOK
      <4>3. /\ view[r].invoice[c].docstatus \in 0..2
            /\ invoice[c].docstatus \in 0..2
        BY <1>0, <4>1, <4>2 DEF View, InvoiceDoc, TypeOK
      <4>4. /\ view[r].invoice[c].docstatus \notin {0, 1}
            /\ view[r].invoice[c].docstatus <= invoice[c].docstatus
        BY <1>0, <2>3, <2>5, <3>2, <4>1 DEF ReadOK, NotPosted
      <4>5. invoice[c].docstatus # 1
        BY <4>3, <4>4
      <4> QED BY <3>2, <4>5 DEF BillSeen
    <3> QED BY <3>1, <3>2
  <2>7. Lives(o)
    BY <1>0, <1>3, <2>2, <2>4, <2>6 DEF Lives
  <2> QED BY <1>0, <1>5, <2>7
<1> QED BY <1>8, <1>9, <1>10, <1>11, <1>12

LEMMA PostLives ==
  ASSUME Regime, AllInv, NEW r \in Requests, PostInvoice(r)
  PROVE  \E o \in Orders :
           /\ \A p \in Orders \ {o} : Rests(p)
           /\ Rests(o) \/ Lives(o)
<1>a. PICK o \in Orders, c \in ClientIds : o = job[r].o /\ c = job[r].c
  BY DEF AllInv, EditInv, JobOK, PostInvoice, PayPCs, PCs
<1>0. /\ TypeOK /\ job[r].o = o /\ job[r].c = c /\ pc[r] = "invoice"
      /\ job[r].op = "pay" /\ FreshOK(r) /\ CheckoutOK(r) /\ Changeable(doc[r])
  BY <1>a DEF AllInv, EditInv, JobOK, PostInvoice, PayPCs, PCs, FreshInv, LinkInv
<1>1. order[o].inv = None /\ invoice[c].docstatus = 0 /\ c # None
  BY <1>0, InvoiceIsNew DEF AllInv
<1>2. /\ invoice'[c].docstatus = 1 /\ invoice'[c].paid = 0
      /\ \A d \in ClientIds \ {c} : invoice'[d] = invoice[d]
      /\ order'[o].inv = c /\ order'[o].status = order[o].status
      /\ \A p \in Orders \ {o} : order'[p] = order[p]
  <2>1. order[o] \in OrderDoc
    BY <1>0 DEF TypeOK
  <2> QED BY <1>0, <2>1 DEF PostInvoice, TypeOK, OrderDoc
<1>3. o \notin bumped[r]
  BY <1>0 DEF PostInvoice, NoConflict, FreshOK, BeforeInvoice
<1>4. doc[r].status = order[o].status
  BY <1>0, <1>3 DEF AllInv, EditInv, CopyIsCurrent, Holds
<1>5. order[o].status \in {"Open", "Sent"}
  <2>1. order[o].status \in OrderStatus /\ order[o].status # "Absent"
    BY <1>0 DEF TypeOK, OrderDoc, CheckoutOK, PayPCs, PCs
  <2> QED BY <1>0, <1>4, <2>1 DEF Changeable, OrderStatus
<1>6. Lives(o)
  BY <1>0, <1>1, <1>2, <1>5 DEF Lives, BillSeen, PaidSeen
<1>7. ASSUME NEW p \in Orders \ {o} PROVE Rests(p)
  <2>1. order[p].inv \in ClientIds \cup {None} /\ order[p].inv # c
    BY <1>0, <1>1 DEF TypeOK, OrderDoc, AllInv, LinkInv, Linked
  <2> QED BY <1>2, <2>1 DEF Rests, BillSeen, PaidSeen
<1> QED BY <1>0, <1>6, <1>7

LEMMA PayLives ==
  ASSUME Regime, AllInv, NEW r \in Requests, PostPayment(r)
  PROVE  \E o \in Orders :
           /\ \A p \in Orders \ {o} : Rests(p)
           /\ Rests(o) \/ Lives(o)
<1>a. PICK o \in Orders : o = job[r].o
  BY DEF AllInv, EditInv, JobOK, PostPayment, PayPCs, PCs
<1> DEFINE si == doc[r].inv
<1>0. /\ TypeOK /\ pc[r] = "entry" /\ MoneyOK(r) /\ job[r].o = o
      /\ si # None /\ si \in {None, order[o].inv}
  BY <1>a DEF AllInv, EditInv, JobOK, PostPayment, PayPCs, PCs, MoneyInv, LinkInv,
              LinkOK
<1>1. si = order[o].inv /\ si \in ClientIds /\ si \in KeysOf[o]
  <2>1. si \in ClientIds
    BY <1>0 DEF TypeOK, OrderDoc
  <2>2. invoice[si].docstatus # 0 /\ invoice[si].order = o
    BY <1>0 DEF AllInv, LinkInv, Linked
  <2> QED BY <1>0, <2>1, <2>2 DEF AllInv, LinkInv, Linked
<1>2. invoice[si].paid = 0 /\ invoice[si].docstatus = 1
  <2>1. /\ si \notin touched[r] /\ view[r] # None
        /\ view[r].invoice[si].paid = 0 /\ view[r].invoice[si].docstatus = 1
    BY DEF PostPayment, NoConflict, Owes
  <2> QED BY <1>0, <1>1, <2>1 DEF MoneyOK, PayPCs, PCs
<1>3. /\ invoice'[si].paid = 1 /\ invoice'[si].docstatus = 1
      /\ \A d \in ClientIds \ {si} : invoice'[d] = invoice[d]
      /\ order' = order
  <2>1. invoice' = [invoice EXCEPT ![si].paid = @ + 1] /\ order' = order
    BY DEF PostPayment
  <2> QED BY <1>0, <1>1, <1>2, <2>1 DEF TypeOK, InvoiceDoc
<1>4. Lives(o)
  BY <1>0, <1>1, <1>2, <1>3 DEF Lives, BillSeen, PaidSeen
<1>5. ASSUME NEW p \in Orders \ {o} PROVE Rests(p)
  <2>1. order[p].inv # si
    BY <1>0, <1>1 DEF AllInv, LinkInv, Linked
  <2>2. order[p].inv \in ClientIds \cup {None}
    BY <1>0 DEF TypeOK, OrderDoc
  <2> QED BY <1>3, <2>1, <2>2 DEF Rests, BillSeen, PaidSeen
<1> QED BY <1>0, <1>4, <1>5

LEMMA CancelLives ==
  ASSUME Regime, AllInv, NEW c \in ClientIds, CancelInvoice(c)
  PROVE  \E o \in Orders :
           /\ \A p \in Orders \ {o} : Rests(p)
           /\ Rests(o) \/ Lives(o)
<1>a. PICK o \in Orders : o = invoice[c].order /\ order[o].inv = c
  BY DEF AllInv, CancelInvoice, LinkInv, Linked
<1>0. TypeOK /\ invoice[c].docstatus = 1 /\ invoice[c].order = o /\ c # None
  BY <1>a DEF AllInv, EditInv, CancelInvoice
<1>1. /\ invoice'[c].docstatus = 2 /\ invoice'[c].paid = 0
      /\ \A d \in ClientIds \ {c} : invoice'[d] = invoice[d]
      /\ order' = order
  <2>1. /\ invoice' = [invoice EXCEPT ![c].docstatus = 2, ![c].paid = 0]
        /\ order' = order
    BY DEF CancelInvoice
  <2> QED BY <1>0, <2>1 DEF TypeOK, InvoiceDoc
<1>2. Lives(o)
  BY <1>a, <1>0, <1>1 DEF Lives, BillSeen, PaidSeen
<1>3. ASSUME NEW p \in Orders \ {o} PROVE Rests(p)
  <2>1. order[p].inv \in ClientIds \cup {None} /\ order[p].inv # c
    BY <1>a, <1>0 DEF TypeOK, OrderDoc, AllInv, LinkInv, Linked
  <2> QED BY <1>1, <2>1 DEF Rests, BillSeen, PaidSeen
<1> QED BY <1>0, <1>2, <1>3

LEMMA NextAllInv == Regime /\ AllInv /\ [Next]_vars => AllInv'
BY NextInv, NextLinks, NextMoney, NextSeats, NextFresh, NextReads DEF AllInv

LEMMA NextLives ==
  ASSUME Regime, AllInv, [Next]_vars
  PROVE  [Life!LifeNext]_(Life!lifeVars)
<1>0. /\ TypeOK /\ LinkInv /\ TypeOK' /\ LinkInv'
  BY NextAllInv DEF AllInv, EditInv
<1>1. CASE order' = order /\ invoice' = invoice
  <2>1. \A p \in Orders : Rests(p)
    BY <1>1, BillStays DEF Rests
  <2> QED BY <1>0, <2>1, LifeRests
<1>2. CASE \E o \in Orders : /\ \A p \in Orders \ {o} : Rests(p)
                             /\ Rests(o) \/ Lives(o)
  BY <1>0, <1>2, LifeStep
<1>3. CASE UNCHANGED vars
  BY <1>1, <1>3 DEF vars
<1>4. CASE \E c \in ClientIds : CancelInvoice(c)
  BY <1>2, <1>4, CancelLives
<1>5. ASSUME NEW r \in Requests, RequestStep(r)
      PROVE  [Life!LifeNext]_(Life!lifeVars)
  <2>1. CASE \/ CreateOrder(r) \/ AddItem(r) \/ UpdateItemQty(r) \/ SetNote(r)
             \/ SendOrder(r) \/ VoidOrder(r) \/ SavePaid(r)
    BY <1>2, <2>1, SavesLive
  <2>2. CASE PostInvoice(r)
    BY <1>2, <2>2, PostLives
  <2>3. CASE PostPayment(r)
    BY <1>2, <2>3, PayLives
  <2>4. CASE \/ LoadCreate(r) \/ LoadOrder(r) \/ LoadTable(r) \/ LoadPay(r)
             \/ LockOrder(r) \/ ResolveCustomer(r) \/ PaymentFound(r)
             \/ PaymentExists(r) \/ FirstRead(r) \/ EndRequest(r)
             \/ MarkBilling(r) \/ SetTableStatus(r) \/ LoseCreate(r)
    <3>1. order' = order /\ invoice' = invoice
      BY <2>4 DEF LoadCreate, LoadOrder, LoadTable, LoadPay, Arrive, LockOrder,
                  ResolveCustomer, PaymentFound, PaymentExists, FirstRead,
                  EndRequest, database, MarkBilling, SetTableStatus, LoseCreate, SaveTable
    <3> QED BY <1>1, <3>1
  <2>5. ~InvoiceExists(r) /\ ~RelinkInvoice(r)
    BY NoRelink DEF AllInv
  <2> QED BY <1>5, <2>1, <2>2, <2>3, <2>4, <2>5 DEF RequestStep
<1> QED BY <1>3, <1>4, <1>5 DEF Next, RequestStep

LEMMA InitLives ==
  ASSUME Regime, Init
  PROVE  Life!LifeInit
<1>1. \A o \in Orders : InvoicesOf(o) = {}
  BY DEF Init, InvoicesOf, NoInvoice
<1>2. \A o \in Orders : BillOf(o) = "none" /\ order[o].status = "Absent"
  BY <1>1 DEF BillOf, Init, NoOrder
<1> QED BY <1>1, <1>2 DEF Life!LifeInit

\* The checkout implements the life of an order: whatever requests run at once,
\* are killed, retried or cancelled under, every step they take is one that
\* OrderLife allows, or one that it does not see.
THEOREM OrdersLiveTheirLife ==
  ASSUME Regime
  PROVE  Spec => LivesItsLife
<1>1. Init => AllInv
  BY InitInv, InitLinks, InitMoney, InitSeats, InitFresh, InitReads DEF AllInv
<1>2. AllInv /\ [Next]_vars => AllInv'
  BY NextAllInv
<1>3. Init => Life!LifeInit
  BY InitLives
<1>4. AllInv /\ [Next]_vars => [Life!LifeNext]_(Life!lifeVars)
  BY NextLives
<1> QED BY <1>1, <1>2, <1>3, <1>4, PTL DEF Spec, LivesItsLife, Life!LifeSpec
=============================================================================
