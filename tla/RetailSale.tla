------------------------------ MODULE RetailSale ------------------------------
(***************************************************************************)
(* Counter sales of the Retail POS: create_sale() of                       *)
(* services/retail_pos_service.py with services/offline_sale.py, and the   *)
(* tills that send them.  A till sends a sale under its client_id until it *)
(* has an answer: the acknowledgement, or a validation error (417), upon   *)
(* which it parks the sale for a manager.  Any other error (500, 503), a   *)
(* lost answer and a killed worker make it send the sale again, possibly   *)
(* while the earlier request is still being served.                        *)
(*                                                                         *)
(* A request is a sequence of database transactions: post the invoice,     *)
(* record what a manager should look at, pay.  Reads see the snapshot of   *)
(* the transaction, the UNIQUE client_id columns the latest rows.  With    *)
(* SnapshotIsolation a write to a row that another transaction committed   *)
(* after the snapshot fails with error 1020.                               *)
(***************************************************************************)
EXTENDS Naturals, FiniteSets

CONSTANTS
  Sales,             \* sales made at the tills
  ClientIds,         \* also name the invoice, "c:pay" and the review entry
  KeyOf,             \* the client_id of a sale
  BasketOf,          \* what _check_replay compares: items, caller, company
  Free,              \* baskets discounted to a zero total
  Offline,           \* sales made without a connection
  Flawed,            \* offline sales a manager should look at
  Requests,          \* concurrent HTTP requests
  SnapshotIsolation, \* innodb_snapshot_isolation is ON
  MaxTimeOuts,       \* bound on answers the tills do not wait for
  MaxBreaks,         \* bound on dead workers and failed payments
  None

Baskets == {BasketOf[s] : s \in Sales}

ASSUME SalesAssumption ==
  /\ KeyOf \in [Sales -> ClientIds]
  /\ DOMAIN BasketOf = Sales
  /\ Free \subseteq Baskets
  /\ Offline \subseteq Sales
  /\ Flawed \subseteq Offline
  /\ SnapshotIsolation \in BOOLEAN
  /\ MaxTimeOuts \in Nat
  /\ MaxBreaks \in Nat
  /\ None \notin Requests \cup Baskets

VARIABLES
  invoice, \* Sales Invoices, by client_id: docstatus (0 none) and basket
  payment, \* docstatus of the Payment Entry "c:pay" (0 none), by client_id
  review,  \* client_ids that have a ZG Offline Sale Issue
  allowed, \* the site's settings, prices and limits let the sale through
  answer,  \* what the till knows of a sale
  heard,   \* the request whose answer the till of a sale waits for
  pc,      \* where each request is
  job,     \* the sale each request is about
  tries,   \* attempts at inserting the invoice so far
  view,    \* the snapshot of its transaction, for its client_id
  touched, \* rows others committed since that snapshot
  timeouts, breaks

database == <<invoice, payment, review>>
till == <<answer, heard, timeouts, breaks>>
request == <<pc, job, tries, view, touched>>
vars == <<invoice, payment, review, allowed, answer, heard, pc, job, tries,
          view, touched, timeouts, breaks>>

InvoiceDoc == [docstatus : 0..2, basket : Baskets \cup {None}]
NoInvoice == [docstatus |-> 0, basket |-> None]
View == [invoice : InvoiceDoc, payment : 0..2]
NoView == [invoice |-> NoInvoice, payment |-> 0]
PCs == {"idle", "find", "insert", "collect", "record", "reload", "pay"}
Rows == {"series", "invoice", "entries"}
MaxTries == 3

\* Among the rest: an invoice is tried at most MaxTries times.
TypeOK ==
  /\ invoice \in [ClientIds -> InvoiceDoc]
  /\ payment \in [ClientIds -> 0..2]
  /\ review \in SUBSET ClientIds
  /\ allowed \in [Sales -> BOOLEAN]
  /\ answer \in [Sales -> {"waiting", "acked", "parked"}]
  /\ heard \in [Sales -> Requests \cup {None}]
  /\ pc \in [Requests -> PCs]
  /\ job \in [Requests -> Sales \cup {None}]
  /\ tries \in [Requests -> 0..(MaxTries - 1)]
  /\ view \in [Requests -> View]
  /\ touched \in [Requests -> SUBSET Rows]
  /\ timeouts \in 0..MaxTimeOuts
  /\ breaks \in 0..MaxBreaks

\* A sale may have been refused before, of which the site keeps nothing.
Init ==
  /\ invoice = [c \in ClientIds |-> NoInvoice]
  /\ payment = [c \in ClientIds |-> 0]
  /\ review = {}
  /\ allowed = [s \in Sales |-> TRUE]
  /\ answer \in [Sales -> {"waiting", "parked"}]
  /\ heard = [s \in Sales |-> None]
  /\ pc = [r \in Requests |-> "idle"]
  /\ job = [r \in Requests |-> None]
  /\ tries = [r \in Requests |-> 0]
  /\ view = [r \in Requests |-> NoView]
  /\ touched = [r \in Requests |-> {}]
  /\ timeouts = 0
  /\ breaks = 0

-----------------------------------------------------------------------------
(* Transactions and answers.                                               *)

Key(r) == KeyOf[job[r]]

Snapshot(r) == [invoice |-> invoice[Key(r)], payment |-> payment[Key(r)]]

\* r goes on at `next` in a transaction whose snapshot is v.
GoTo(r, next, v) ==
  /\ pc' = [pc EXCEPT ![r] = next]
  /\ view' = [view EXCEPT ![r] = v]
  /\ UNCHANGED job

\* What the others meet after a commit of r: `mine` are the rows of client_id
\* c it wrote, `common` those of all sales.
Touch(r, c, mine, common) ==
  touched' = [q \in Requests |->
    IF q = r \/ pc[q] = "idle" \/ ~SnapshotIsolation THEN {}
    ELSE touched[q] \cup common \cup (IF Key(q) = c THEN mine ELSE {})]

NoConflict(r, row) == row \notin touched[r]

\* The request is over, having written the rows `mine` of its client_id.
EndRequest(r, mine) ==
  /\ pc' = [pc EXCEPT ![r] = "idle"]
  /\ job' = [job EXCEPT ![r] = None]
  /\ tries' = [tries EXCEPT ![r] = 0]
  /\ view' = [view EXCEPT ![r] = NoView]
  /\ Touch(r, Key(r), mine, {})

\* The answer reaches the till unless it has given this request up.
Answer(r, a) ==
  LET s == job[r]
  IN IF heard[s] = r
       THEN /\ answer' = [answer EXCEPT ![s] = a]
            /\ heard' = [heard EXCEPT ![s] = None]
       ELSE UNCHANGED <<answer, heard>>

\* A validation error, 417: whatever is not committed is rolled back.
Refuse(r) ==
  /\ Answer(r, "parked")
  /\ EndRequest(r, {})
  /\ UNCHANGED <<invoice, payment, review, allowed, timeouts, breaks>>

\* Any other error: the till will send the sale again.
Fail(r) ==
  /\ Answer(r, "waiting")
  /\ EndRequest(r, {})
  /\ UNCHANGED <<invoice, payment, review, allowed, timeouts>>

-----------------------------------------------------------------------------
(* create_sale().                                                          *)

\* A till sends a sale whose answer it is not waiting for.
Send(r, s) ==
  /\ answer[s] = "waiting"
  /\ heard[s] = None
  /\ pc[r] = "idle"
  /\ pc' = [pc EXCEPT ![r] = "find"]
  /\ job' = [job EXCEPT ![r] = s]
  /\ heard' = [heard EXCEPT ![s] = r]
  /\ UNCHANGED <<invoice, payment, review, allowed, answer, timeouts, breaks,
                 tries, view, touched>>

\* Settings, prices, the age of the sale: checked before anything is looked up.
RefuseInput(r) ==
  /\ pc[r] = "find"
  /\ ~allowed[job[r]]
  /\ Refuse(r)

\* _check_replay: the invoice is that of this sale.
SameSale(r, inv) == inv.basket = BasketOf[job[r]]

\* A document found under the client_id, by a snapshot taken now, is this
\* sale's and stands.
Found(r) ==
  LET inv == invoice[Key(r)]
  IN IF SameSale(r, inv) /\ inv.docstatus = 1
       THEN /\ GoTo(r, "pay", Snapshot(r))
            /\ touched' = [touched EXCEPT ![r] = {}]
            /\ UNCHANGED <<invoice, payment, review, allowed, tries, till>>
       ELSE Refuse(r)

\* Faulty: a posted sale is taken for one that is being paid.
FindExistingGivesUp(r) ==
  /\ pc[r] = "find"
  /\ allowed[job[r]]
  /\ invoice[Key(r)].docstatus # 0
  /\ IF invoice[Key(r)].docstatus = 1 /\ payment[Key(r)] = 0
       THEN Fail(r) /\ UNCHANGED breaks
       ELSE Found(r)

FindExisting(r) ==
  /\ pc[r] = "find"
  /\ allowed[job[r]]
  /\ invoice[Key(r)].docstatus # 0
  /\ Found(r)

FindNone(r) ==
  /\ pc[r] = "find"
  /\ allowed[job[r]]
  /\ invoice[Key(r)].docstatus = 0
  /\ GoTo(r, "insert", Snapshot(r))
  /\ touched' = [touched EXCEPT ![r] = {}]
  /\ UNCHANGED <<invoice, payment, review, allowed, tries, till>>

\* The item was disabled, the invoice cannot be built or submitted.
RefusePosting(r) == pc[r] = "insert" /\ Refuse(r)

\* Error 1020 on the naming series: roll back and try again, three times.
NamingRace(r) ==
  /\ pc[r] = "insert"
  /\ ~NoConflict(r, "series")
  /\ IF tries[r] < MaxTries - 1
       THEN /\ tries' = [tries EXCEPT ![r] = @ + 1]
            /\ GoTo(r, "insert", Snapshot(r))
            /\ touched' = [touched EXCEPT ![r] = {}]
            /\ UNCHANGED <<invoice, payment, review, allowed, till>>
       ELSE Fail(r) /\ UNCHANGED breaks

\* Faulty: the winner's invoice is taken unseen.
LostRaceUnchecked(r) ==
  /\ pc[r] = "insert"
  /\ NoConflict(r, "series")
  /\ invoice[Key(r)].docstatus # 0
  /\ GoTo(r, "pay", Snapshot(r))
  /\ touched' = [touched EXCEPT ![r] = {}]
  /\ UNCHANGED <<invoice, payment, review, allowed, tries, till>>

\* insert_idempotent: another request has committed the client_id; its invoice
\* is fetched after a rollback and checked like one found at once.
LostRace(r) ==
  /\ pc[r] = "insert"
  /\ NoConflict(r, "series")
  /\ invoice[Key(r)].docstatus # 0
  /\ Found(r)

\* Faulty: the review entry is forgotten.
PostUnreviewed(r) ==
  /\ pc[r] = "insert"
  /\ NoConflict(r, "series")
  /\ invoice[Key(r)].docstatus = 0
  /\ invoice' = [invoice EXCEPT ![Key(r)] =
                   [docstatus |-> 1, basket |-> BasketOf[job[r]]]]
  /\ GoTo(r, "reload", NoView)
  /\ Touch(r, Key(r), {"invoice"}, {"series"})
  /\ UNCHANGED <<payment, review, allowed, tries, till>>

\* The invoice is inserted, submitted and committed.
Post(r) ==
  /\ pc[r] = "insert"
  /\ NoConflict(r, "series")
  /\ invoice[Key(r)].docstatus = 0
  /\ invoice' = [invoice EXCEPT ![Key(r)] =
                   [docstatus |-> 1, basket |-> BasketOf[job[r]]]]
  /\ GoTo(r, IF job[r] \in Offline THEN "collect" ELSE "reload", NoView)
  /\ Touch(r, Key(r), {"invoice"}, {"series"})
  /\ UNCHANGED <<payment, review, allowed, tries, till>>

\* collect_issues reads in a transaction of its own.
CollectIssues(r) ==
  /\ pc[r] = "collect"
  /\ GoTo(r, "record", NoView)
  /\ touched' = [touched EXCEPT ![r] = {}]
  /\ UNCHANGED <<invoice, payment, review, allowed, tries, till>>

Missing(r) == job[r] \in Flawed /\ Key(r) \notin review

\* record_issues opens the entry, under the next name of the entries' series,
\* unless there is nothing to look at or the client_id has one.
RecordIssues(r) ==
  /\ pc[r] = "record"
  /\ Missing(r) => NoConflict(r, "entries")
  /\ review' = IF Missing(r) THEN review \cup {Key(r)} ELSE review
  /\ GoTo(r, "reload", NoView)
  /\ Touch(r, Key(r), {}, IF Missing(r) THEN {"entries"} ELSE {})
  /\ UNCHANGED <<invoice, payment, allowed, tries, till>>

\* Error 1020 on that series, which nothing catches.
RecordConflict(r) ==
  /\ pc[r] = "record"
  /\ Missing(r)
  /\ ~NoConflict(r, "entries")
  /\ Fail(r)
  /\ UNCHANGED breaks

\* The first read after a commit.
Reload(r) ==
  /\ pc[r] = "reload"
  /\ GoTo(r, "pay", Snapshot(r))
  /\ touched' = [touched EXCEPT ![r] = {}]
  /\ UNCHANGED <<invoice, payment, review, allowed, tries, till>>

Total(r) == BasketOf[job[r]] \notin Free

Acknowledge(r, mine) ==
  /\ Answer(r, "acked")
  /\ EndRequest(r, mine)
  /\ UNCHANGED <<invoice, review, allowed, timeouts, breaks>>

\* Nothing to collect, or the Payment Entry is there: found by the snapshot,
\* or by insert_idempotent when another request has just committed it.
PaidAlready(r) ==
  /\ pc[r] = "pay"
  /\ ~Total(r) \/ payment[Key(r)] # 0
  /\ Acknowledge(r, {})
  /\ UNCHANGED payment

Pay(r) ==
  /\ pc[r] = "pay"
  /\ Total(r)
  /\ view[r].invoice.docstatus = 1
  /\ NoConflict(r, "invoice")
  /\ payment[Key(r)] = 0
  /\ payment' = [payment EXCEPT ![Key(r)] = 1]
  /\ Acknowledge(r, {"invoice"})

Owing(r) == pc[r] = "pay" /\ Total(r) /\ payment[Key(r)] = 0

\* get_payment_entry or the insert of the Payment Entry refuses, as they do
\* when the snapshot says the invoice was cancelled.
RefusePayment(r) == Owing(r) /\ Refuse(r)

\* Error 1020 on the invoice while the Payment Entry is submitted.
PaymentConflict(r) ==
  /\ Owing(r)
  /\ ~NoConflict(r, "invoice")
  /\ Fail(r)
  /\ UNCHANGED breaks

Break == breaks < MaxBreaks /\ breaks' = breaks + 1

\* PaymentPendingError, 503: submitting the Payment Entry failed.
PaymentFails(r) == Owing(r) /\ Break /\ Fail(r)

-----------------------------------------------------------------------------
(* The rest of the world.                                                  *)

\* The worker dies.
Die(r) == pc[r] # "idle" /\ Break /\ Fail(r)

\* The till does not wait any longer for the answer to a sale.
TimeOut(s) ==
  /\ heard[s] # None
  /\ timeouts < MaxTimeOuts
  /\ timeouts' = timeouts + 1
  /\ heard' = [heard EXCEPT ![s] = None]
  /\ UNCHANGED <<database, allowed, answer, breaks, request>>

\* The offline limit passes, offline sales are switched off, prices rise.
Expire(s) ==
  /\ allowed[s]
  /\ allowed' = [allowed EXCEPT ![s] = FALSE]
  /\ UNCHANGED <<database, till, request>>

\* In Desk; only the requests about c notice.
TouchInvoice(c) ==
  touched' = [q \in Requests |->
    IF SnapshotIsolation /\ pc[q] # "idle" /\ Key(q) = c
      THEN touched[q] \cup {"invoice"} ELSE touched[q]]

\* Faulty: the payment survives its invoice.
CancelInvoiceOnly(c) ==
  /\ invoice[c].docstatus = 1
  /\ invoice' = [invoice EXCEPT ![c].docstatus = 2]
  /\ TouchInvoice(c)
  /\ UNCHANGED <<payment, review, allowed, till, pc, job, tries, view>>

\* before_cancel cancels the Payment Entry that pays this invoice only.
CancelInvoice(c) ==
  /\ invoice[c].docstatus = 1
  /\ invoice' = [invoice EXCEPT ![c].docstatus = 2]
  /\ payment' = [payment EXCEPT ![c] = IF @ = 1 THEN 2 ELSE @]
  /\ TouchInvoice(c)
  /\ UNCHANGED <<review, allowed, till, pc, job, tries, view>>

CancelPayment(c) ==
  /\ payment[c] = 1
  /\ payment' = [payment EXCEPT ![c] = 2]
  /\ TouchInvoice(c)
  /\ UNCHANGED <<invoice, review, allowed, till, pc, job, tries, view>>

-----------------------------------------------------------------------------
Serve(r) ==
  \/ RefuseInput(r) \/ FindExisting(r) \/ FindNone(r)
  \/ RefusePosting(r) \/ NamingRace(r) \/ LostRace(r) \/ Post(r)
  \/ CollectIssues(r) \/ RecordIssues(r) \/ RecordConflict(r) \/ Reload(r)
  \/ PaidAlready(r) \/ Pay(r) \/ RefusePayment(r) \/ PaymentConflict(r)

Next ==
  \/ \E r \in Requests :
       Serve(r) \/ PaymentFails(r) \/ Die(r) \/ \E s \in Sales : Send(r, s)
  \/ \E s \in Sales : TimeOut(s) \/ Expire(s)
  \/ \E c \in ClientIds : CancelInvoice(c) \/ CancelPayment(c)

Spec == Init /\ [][Next]_vars

\* A worker serves its request to the end; a till sends a sale again and again.
Fairness ==
  /\ \A r \in Requests : WF_vars(Serve(r))
  /\ \A s \in Sales : WF_vars(\E r \in Requests : Send(r, s))

FairSpec == Spec /\ Fairness
-----------------------------------------------------------------------------
(* Properties.                                                             *)

\* A till is never told that its sale is done when the invoice under the
\* client_id is of another basket, the two sales racing for it or not
\* (_check_replay on both paths of create_sale).
AckIsForThisSale ==
  \A s \in Sales : answer[s] = "acked" =>
    /\ invoice[KeyOf[s]].docstatus # 0
    /\ invoice[KeyOf[s]].basket = BasketOf[s]

\* No sale with a total is acknowledged before its Payment Entry is posted,
\* whichever of its requests posts it (create_sale, lines 299-331).
AckedSaleWasPaid ==
  \A s \in Sales :
    answer[s] = "acked" /\ BasketOf[s] \notin Free => payment[KeyOf[s]] # 0

\* What a till is told of its sale is true (create_sale as a whole).
AckIsTrue == AckIsForThisSale /\ AckedSaleWasPaid

(* RetailSale implements OneDocument: an invoice is made for a basket, and *)
(* it is complete when its payment has been posted, if it has a total.     *)
Promise == INSTANCE OneDocument WITH
  Ids <- ClientIds,
  Clients <- Sales,
  Contents <- Baskets,
  IsFor <- {t \in Sales \X Baskets : t[2] = BasketOf[t[1]]},
  Deletable <- {},
  made <- [c \in ClientIds |->
             IF invoice[c].docstatus # 0 THEN {invoice[c].basket} ELSE {}],
  done <- {c \in ClientIds :
             /\ invoice[c].docstatus # 0
             /\ invoice[c].basket \in Free \/ payment[c] # 0},
  undone <- {c \in ClientIds : invoice[c].docstatus = 2},
  told <- {<<s, KeyOf[s]>> : s \in {x \in Sales : answer[x] = "acked"}}

\* However the requests of a sale, and of another sale under the same client_id,
\* overlap, die and are sent again, and whatever accountants cancel in between:
\* there is one invoice, of one basket, paid while it stands, and a till is told
\* that its sale is done only when that is its basket, paid in full, and is never
\* told otherwise later (create_sale, _check_replay and insert_idempotent).
SalesKeepTheirWord == Promise!PromiseSpec

\* With snapshot isolation no payment stands for an invoice that was cancelled
\* under the request that pays it (cancel_linked_payment_entries).
PaymentNeedsInvoice ==
  \A c \in ClientIds : payment[c] = 1 => invoice[c].docstatus = 1

Unreviewed(s) ==
  /\ invoice[KeyOf[s]].docstatus # 0
  /\ invoice[KeyOf[s]].basket = BasketOf[s]
  /\ KeyOf[s] \notin review
  /\ ~ \E r \in Requests : pc[r] \in {"collect", "record"} /\ job[r] = s

\* A posted offline sale a manager should look at has its review entry, or is
\* just getting it (offline_sale.py: "a review entry ... is opened").
LateSaleIsReviewed == \A s \in Flawed : ~Unreviewed(s)

\* The entry is missed in two ways only, whichever of the overlapping requests of
\* a sale posts it: the worker dies before it opens the entry, or the entry of
\* another sale was opened since this one's transaction began (record_issues).
MissedOnlyInARace ==
  [][\A s \in Flawed : Unreviewed(s)' =>
       \/ Unreviewed(s)
       \/ breaks' > breaks
       \/ \E r \in Requests :
            pc[r] = "record" /\ job[r] = s /\ ~NoConflict(r, "entries")]_vars

\* Every sale is answered for good, however its requests race, die or lose the
\* naming series, once the network and the payments stop failing
\* (PaymentPendingError: "the caller retries the same client_id").
SaleIsAnswered == \A s \in Sales : <>(answer[s] # "waiting")

\* A till is not told to park a sale whose invoice is posted and whose payment
\* is missing (PaymentPendingError: that is a 503).
UnpaidIsPending ==
  [][\A r \in Requests :
       Owing(r) /\ view[r].invoice.docstatus = 1 /\ invoice[Key(r)].docstatus = 1
       /\ answer[job[r]] = "waiting"
       => answer'[job[r]] # "parked"]_vars
-----------------------------------------------------------------------------
(* The inductive invariant behind AckIsForThisSale, AckedSaleWasPaid and   *)
(* PaymentNeedsInvoice.                                                    *)

Serving == \A r \in Requests : pc[r] # "idle" => job[r] \in Sales

\* Past the insert, the invoice under the client_id is that of the sale.
PostedForThisSale ==
  \A r \in Requests : pc[r] \in {"collect", "record", "reload", "pay"} =>
    /\ invoice[Key(r)].docstatus # 0
    /\ invoice[Key(r)].basket = BasketOf[job[r]]

\* A request that would get past error 1020 sees the invoice as it is.
FreshView ==
  SnapshotIsolation =>
    \A r \in Requests : pc[r] = "pay" /\ NoConflict(r, "invoice") =>
      view[r].invoice = invoice[Key(r)]

\* Together with these, what the runs check holds for any tills and requests
\* (create_sale as a whole).
SaleInv ==
  /\ TypeOK
  /\ Serving
  /\ PostedForThisSale
  /\ FreshView
  /\ AckIsForThisSale
  /\ AckedSaleWasPaid
  /\ SnapshotIsolation => PaymentNeedsInvoice
=============================================================================
