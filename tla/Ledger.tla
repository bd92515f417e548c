--------------------------------- MODULE Ledger ---------------------------------
(***************************************************************************)
(* Invoices of a party and the Payment Entries that settle them: the API   *)
(* over ERPNext (services/erpnext_writes.py), collections of van salesmen  *)
(* (vansalex_service.create_collection), the payment a Cash or Bank        *)
(* invoice makes for itself and what its cancellation does to payments     *)
(* (invoice_cash_payment_service.py).  ERPNext checks an allocation        *)
(* against the outstanding amount its transaction sees, and a payment that *)
(* is posted or cancelled saves the invoices it settles.                   *)
(***************************************************************************)
EXTENDS Backend, FiniteSetsExt

CONSTANTS
  Invoices,     \* 1 .. n, the oldest first
  SelfPaying,   \* those with Payment Type Cash or Bank
  Total,        \* total of an invoice
  Payments,     \* names, or client ids, of Payment Entries
  MaxPay        \* bound on the amount of a payment

ASSUME LedgerAssumption ==
  /\ IsFiniteSet(Invoices) /\ Invoices = 1..Cardinality(Invoices)
  /\ SelfPaying \subseteq Invoices
  /\ Total \in Nat \ {0} /\ MaxPay \in Nat
  /\ IsFiniteSet(Payments) /\ Payments \cap Invoices = {}
  /\ None \notin Payments \cup Invoices

VARIABLES
  invoice,  \* docstatus of each, or None
  payment   \* each, or None

ledgerVars == <<invoice, payment>>

\* refs: allocated_amount per invoice.  free: unallocated_amount.
PaymentDoc == [status : {"Draft", "Posted", "Cancelled"},
               refs : [Invoices -> 0..Total], free : Nat]

ASSUME PaymentAssumption ==
  None \notin PaymentDoc /\ None \notin {"Draft", "Posted", "Cancelled"}

LedgerTypeOK ==
  /\ invoice \in [Invoices -> {None, "Draft", "Posted", "Cancelled"}]
  /\ payment \in [Payments -> PaymentDoc \cup {None}]

LedgerInit ==
  /\ invoice = [i \in Invoices |-> None]
  /\ payment = [p \in Payments |-> None]

Posted(p) == payment[p] # None /\ payment[p].status = "Posted"
Settles(p, i) == payment[p] # None /\ payment[p].refs[i] > 0
Settled(i) == {j \in Invoices : i[j] > 0}

PostedPayments == {p \in Payments : Posted(p)}
Paid(i) == SumFunctionOnSet([p \in PostedPayments |-> payment[p].refs[i]], PostedPayments)

\* outstanding_amount
Outstanding(i) ==
  IF invoice[i] = "Posted"
    THEN Total - Paid(i)
    ELSE 0

Fits(refs) == \A i \in Settled(refs) : refs[i] <= Outstanding(i)

-----------------------------------------------------------------------------
(* Payments.                                                               *)

\* Faulty: the oldest takes everything.
SpreadFirst(amount, asked) ==
  LET open == DOMAIN asked
  IN [status |-> "Draft", free |-> IF open = {} THEN amount ELSE 0,
      refs |-> [i \in Invoices |-> IF i \in open /\ i = Min(open) THEN amount ELSE 0]]

\* The loop of _create_advance_payment and create_collection: each invoice
\* takes what is asked for it, at most what it owes and what the ones before
\* it leave, and the rest is an advance.
Spread(amount, asked) ==
  LET open == DOMAIN asked
      owed == [i \in open |-> Min({asked[i], Outstanding(i)})]
      left(before) == Max({amount - SumFunctionOnSet(owed, before), 0})
  IN [status |-> "Draft", free |-> left(open),
      refs |-> [i \in Invoices |->
        IF i \in open THEN Min({owed[i], left({j \in open : j < i})}) ELSE 0]]

Open == {i \in Invoices : Outstanding(i) > 0}

\* create_receive_payment, create_pay_payment and the two advances go against
\* the invoices the caller names, with the amounts it asks for; a collection
\* takes all that is owed, on every open invoice or on the one it names.
LoadPayment(r, p, amount, asked, op) ==
  /\ payment[p] = None
  /\ DOMAIN asked \subseteq Open
  /\ op = "collect" =>
       /\ DOMAIN asked # {}
       /\ DOMAIN asked = Open \/ Cardinality(DOMAIN asked) = 1
       /\ \A i \in DOMAIN asked : asked[i] = Total
  /\ Load(r, [op |-> op, p |-> p, doc |-> Spread(amount, asked)])
  /\ UNCHANGED <<invoice, payment>>

\* _create_invoice_payment and _create_advance_payment commit the draft ...
Draft(r) ==
  /\ call[r].op = "pay"
  /\ payment[call[r].p] = None
  /\ payment' = [payment EXCEPT ![call[r].p] = call[r].doc]
  /\ Commit(r, [op |-> "submit", p |-> call[r].p, fits |-> Fits(call[r].doc.refs)], {})
  /\ UNCHANGED invoice

Touched(p) == {p} \cup {i \in Invoices : payment'[p].refs[i] > 0}

\* ... and _try_auto_submit posts it, or leaves it to a replay of its client
\* id, to submit_payment_entry or to Desk.
LoadSubmit(r, p) ==
  /\ payment[p] # None /\ payment[p].status = "Draft"
  /\ Load(r, [op |-> "submit", p |-> p, fits |-> Fits(payment[p].refs)])
  /\ UNCHANGED <<invoice, payment>>

\* Faulty: what the payment was drafted against is taken as still owed.
SubmitUnchecked(r) ==
  /\ call[r].op = "submit"
  /\ payment[call[r].p] # None
  /\ payment' = [payment EXCEPT ![call[r].p].status = "Posted"]
  /\ Done(r, Touched(call[r].p))
  /\ UNCHANGED invoice

Submit(r) ==
  /\ call[r].op = "submit" /\ call[r].fits
  /\ LET p == call[r].p
     IN /\ Fresh(r, p)
        /\ SnapshotIsolation => \A i \in Settled(payment[p].refs) : Fresh(r, i)
        /\ payment' = [payment EXCEPT ![p].status = "Posted"]
        /\ Done(r, Touched(p))
  /\ UNCHANGED invoice

\* create_collection inserts and submits in one transaction.
Collect(r) ==
  /\ call[r].op = "collect"
  /\ LET p == call[r].p
     IN /\ payment[p] = None
        /\ SnapshotIsolation => \A i \in Settled(call[r].doc.refs) : Fresh(r, i)
        /\ payment' = [payment EXCEPT ![p] = [call[r].doc EXCEPT !.status = "Posted"]]
        /\ Done(r, Touched(p))
  /\ UNCHANGED invoice

\* update_payment_entry and delete_payment_entry look whether it is a draft.
LoadPaymentDraft(r, p, op) ==
  /\ payment[p] # None /\ payment[p].status = "Draft"
  /\ Load(r, [op |-> op, p |-> p])
  /\ UNCHANGED <<invoice, payment>>

\* The save changes neither amount nor references.
SavePayment(r) ==
  /\ call[r].op = "edit payment"
  /\ Fresh(r, call[r].p)
  /\ Done(r, {call[r].p})
  /\ UNCHANGED <<invoice, payment>>

DeletePayment(r) ==
  /\ call[r].op = "delete payment"
  /\ SnapshotIsolation => Fresh(r, call[r].p)
  /\ payment' = [payment EXCEPT ![call[r].p] = None]
  /\ Done(r, {call[r].p})
  /\ UNCHANGED invoice

LoadCancelPayment(r, p) ==
  /\ Posted(p)
  /\ Load(r, [op |-> "cancel payment", p |-> p])
  /\ UNCHANGED <<invoice, payment>>

CancelPayment(r) ==
  /\ call[r].op = "cancel payment"
  /\ LET p == call[r].p
     IN /\ Fresh(r, p)
        /\ payment' = [payment EXCEPT ![p].status = "Cancelled"]
        /\ Done(r, Touched(p))
  /\ UNCHANGED invoice

-----------------------------------------------------------------------------
(* Invoices.                                                               *)

\* create_sales_invoice, create_purchase_invoice, from a quotation, amended.
CreateInvoice(i) ==
  /\ invoice[i] = None
  /\ \A j \in 1..(i - 1) : invoice[j] # None
  /\ invoice' = [invoice EXCEPT ![i] = "Draft"]
  /\ UNCHANGED <<call, stale, payment>>

LoadInvoice(r, i, op) ==
  /\ invoice[i] = IF op = "cancel" THEN "Posted" ELSE "Draft"
  /\ Load(r, [op |-> op, i |-> i])
  /\ UNCHANGED <<invoice, payment>>

\* submit_sales_invoice, with create_cash_payment_entry from its on_submit.
SubmitInvoice(r) ==
  /\ call[r].op = "post"
  /\ LET i == call[r].i
     IN /\ Fresh(r, i)
        /\ invoice' = [invoice EXCEPT ![i] = "Posted"]
        /\ IF i \notin SelfPaying
             THEN UNCHANGED payment
             ELSE \E p \in Payments :
                    /\ payment[p] = None
                    /\ payment' = [payment EXCEPT ![p] =
                         [status |-> "Posted", free |-> 0,
                          refs |-> [j \in Invoices |-> IF j = i THEN Total ELSE 0]]]
        /\ Done(r, {i})

\* Faulty: every payment of the invoice is cancelled.
PaysAtAll(p, i) == TRUE

\* _pays_only
PaysOnly(p, i) == Settled(payment[p].refs) = {i} /\ payment[p].free = 0

\* _cancel_doc, with cancel_linked_payment_entries from before_cancel: a
\* payment that pays nothing else is cancelled, any other keeps the money as
\* an advance.
CancelInvoice(r) ==
  /\ call[r].op = "cancel"
  /\ LET i == call[r].i
         linked == {p \in Payments : Posted(p) /\ Settles(p, i)}
     IN /\ \A d \in {i} \cup linked : Fresh(r, d)
        /\ invoice' = [invoice EXCEPT ![i] = "Cancelled"]
        /\ payment' = [p \in Payments |->
             IF p \notin linked THEN payment[p]
             ELSE IF PaysOnly(p, i) THEN [payment[p] EXCEPT !.status = "Cancelled"]
             ELSE [payment[p] EXCEPT !.refs[i] = 0, !.free = @ + payment[p].refs[i]]]
        /\ Done(r, {i} \cup linked)

\* update_sales_invoice and the like: the draft is saved with other rows.
SaveDraft(r) ==
  /\ call[r].op = "edit"
  /\ Fresh(r, call[r].i)
  /\ Done(r, {call[r].i})
  /\ UNCHANGED <<invoice, payment>>

\* _delete_draft looks at the draft and deletes the row.
DeleteDraft(r) ==
  /\ call[r].op = "delete"
  /\ SnapshotIsolation => Fresh(r, call[r].i)
  /\ invoice' = [invoice EXCEPT ![call[r].i] = None]
  /\ Done(r, {call[r].i})
  /\ UNCHANGED payment

\* A request fails, is refused by ERPNext, or its worker dies.
GiveUpLedger(r) ==
  /\ call[r] # Idle
  /\ Done(r, {})
  /\ UNCHANGED <<invoice, payment>>

LedgerNext ==
  \/ \E i \in Invoices : CreateInvoice(i)
  \/ \E r \in Requests :
       \/ Draft(r) \/ Submit(r) \/ Collect(r) \/ CancelPayment(r)
       \/ SavePayment(r) \/ DeletePayment(r)
       \/ SubmitInvoice(r) \/ CancelInvoice(r) \/ SaveDraft(r) \/ DeleteDraft(r)
       \/ GiveUpLedger(r)
       \/ \E p \in Payments : LoadSubmit(r, p) \/ LoadCancelPayment(r, p)
       \/ \E p \in Payments, op \in {"edit payment", "delete payment"} :
            LoadPaymentDraft(r, p, op)
       \/ \E p \in Payments, amount \in 1..MaxPay, chosen \in SUBSET Invoices :
            \E asked \in [chosen -> 1..Total], op \in {"pay", "collect"} :
              LoadPayment(r, p, amount, asked, op)
       \/ \E i \in Invoices, op \in {"post", "cancel", "edit", "delete"} :
            LoadInvoice(r, i, op)

LedgerSpec == BackendInit /\ LedgerInit /\ [][LedgerNext]_<<backendVars, ledgerVars>>

-----------------------------------------------------------------------------
(* Properties.                                                             *)

\* No invoice is paid more than its total, and none that is cancelled or was
\* deleted by any posted payment, however many collections, drafts, automatic
\* payments and cancellations meet (_create_advance_payment, create_collection,
\* create_cash_payment_entry, cancel_linked_payment_entries).
NeverOverpaid ==
  \A i \in Invoices :
    /\ Outstanding(i) >= 0
    /\ invoice[i] # "Posted" => \A p \in Payments : ~(Posted(p) /\ Settles(p, i))

Amount(doc) == SumFunctionOnSet(doc.refs, Invoices) + doc.free

\* A posted payment is never edited or deleted under its poster's feet
\* (_require_draft), and cancelling an invoice never reverses money that was
\* received for another one or as an advance: such a payment keeps its whole
\* amount (_pays_only).
MoneyIsKept ==
  [][\A p \in Payments : Posted(p) =>
       /\ payment'[p] # None /\ Amount(payment'[p]) = Amount(payment[p])
       /\ payment'[p].status = "Cancelled" =>
            \/ \E r \in Requests : call[r].op = "cancel payment" /\ call[r].p = p
            \/ \E i \in Invoices : invoice'[i] # invoice[i] /\ payment[p].refs[i] = Amount(payment[p])]_payment
=============================================================================
