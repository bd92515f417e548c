--------------------------- MODULE RetailSaleProofs ---------------------------
(***************************************************************************)
(* Proofs about RetailSale, for any number of sales, client_ids and        *)
(* requests and any bounds on failures: the inductive invariant SaleInv,   *)
(* that a till is acknowledged only for its own, paid sale, and that with  *)
(* snapshot isolation no payment stands without its invoice.               *)
(***************************************************************************)
EXTENDS RetailSale, TLAPS

USE DEF PCs, Rows

LEMMA KeysAreKeys ==
  ASSUME TypeOK, Serving, NEW r \in Requests, pc[r] # "idle"
  PROVE  job[r] \in Sales /\ Key(r) \in ClientIds
BY SalesAssumption DEF Serving, Key

\* The ways a transaction can end keep the types.

LEMMA EndTyped ==
  ASSUME TypeOK, NEW r \in Requests, NEW mine \in SUBSET Rows,
         EndRequest(r, mine)
  PROVE  /\ pc' \in [Requests -> PCs]
         /\ job' \in [Requests -> Sales \cup {None}]
         /\ tries' \in [Requests -> 0..(MaxTries - 1)]
         /\ view' \in [Requests -> View]
         /\ touched' \in [Requests -> SUBSET Rows]
<1>1. NoView \in View /\ 0 \in 0..(MaxTries - 1)
  BY DEF NoView, View, NoInvoice, InvoiceDoc, MaxTries
<1>2. touched' \in [Requests -> SUBSET Rows]
  BY DEF TypeOK, EndRequest, Touch
<1> QED BY <1>1, <1>2 DEF TypeOK, EndRequest

LEMMA AnswerTyped ==
  ASSUME TypeOK, NEW r \in Requests,
         NEW a \in {"waiting", "acked", "parked"}, Answer(r, a)
  PROVE  /\ answer' \in [Sales -> {"waiting", "acked", "parked"}]
         /\ heard' \in [Sales -> Requests \cup {None}]
BY DEF TypeOK, Answer

LEMMA SnapshotTyped ==
  ASSUME TypeOK, Serving, NEW r \in Requests, pc[r] # "idle"
  PROVE  Snapshot(r) \in View
BY KeysAreKeys DEF TypeOK, Snapshot, View

\* Only a sale that becomes acknowledged needs an argument.
LEMMA AnswerFrame ==
  ASSUME TypeOK, NEW r \in Requests, NEW a, Answer(r, a), NEW s \in Sales,
         answer'[s] = "acked"
  PROVE  answer[s] = "acked" \/ (a = "acked" /\ s = job[r])
BY DEF TypeOK, Answer

-----------------------------------------------------------------------------
(* A request that ends, and answers anything but "acked".                  *)

LEMMA EndKeepsRequests ==
  ASSUME SaleInv, NEW r \in Requests, NEW mine \in SUBSET Rows,
         EndRequest(r, mine), UNCHANGED invoice
  PROVE  Serving' /\ PostedForThisSale' /\ FreshView'
<1>1. /\ pc'[r] = "idle"
      /\ \A q \in Requests \ {r} :
           /\ pc'[q] = pc[q]
           /\ job'[q] = job[q]
           /\ view'[q] = view[q]
           /\ SnapshotIsolation /\ pc[q] # "idle" => touched[q] \subseteq touched'[q]
  BY DEF SaleInv, TypeOK, EndRequest, Touch
<1>2. Serving'
  BY <1>1 DEF SaleInv, Serving
<1>3. PostedForThisSale'
  BY <1>1 DEF SaleInv, PostedForThisSale, Key
<1>4. FreshView'
  BY <1>1 DEF SaleInv, FreshView, Key, NoConflict
<1> QED BY <1>2, <1>3, <1>4

LEMMA NoAckKeepsInv ==
  ASSUME SaleInv, NEW r \in Requests, NEW a \in {"waiting", "parked"},
         Answer(r, a), EndRequest(r, {}),
         UNCHANGED <<invoice, payment, review, allowed>>,
         timeouts' \in 0..MaxTimeOuts, breaks' \in 0..MaxBreaks
  PROVE  SaleInv'
<1>1. TypeOK'
  BY EndTyped, AnswerTyped DEF SaleInv, TypeOK
<1>2. Serving' /\ PostedForThisSale' /\ FreshView'
  BY EndKeepsRequests
<1>3. AckIsForThisSale' /\ AckedSaleWasPaid'
  BY AnswerFrame DEF SaleInv, AckIsForThisSale, AckedSaleWasPaid
<1>4. SnapshotIsolation => PaymentNeedsInvoice'
  BY DEF SaleInv, PaymentNeedsInvoice
<1> QED BY <1>1, <1>2, <1>3, <1>4 DEF SaleInv

LEMMA RefuseKeepsInv ==
  ASSUME SaleInv, NEW r \in Requests, Refuse(r)
  PROVE  SaleInv'
BY NoAckKeepsInv DEF Refuse, SaleInv, TypeOK

LEMMA FailKeepsInv ==
  ASSUME SaleInv, NEW r \in Requests, Fail(r), breaks' \in 0..MaxBreaks
  PROVE  SaleInv'
BY NoAckKeepsInv DEF Fail, SaleInv, TypeOK

LEMMA AcknowledgeKeepsInv ==
  ASSUME SaleInv, NEW r \in Requests, NEW mine \in SUBSET Rows,
         pc[r] = "pay", Acknowledge(r, mine),
         payment' \in [ClientIds -> 0..2],
         \A c \in ClientIds : payment[c] # 0 => payment'[c] = payment[c],
         Total(r) => payment'[Key(r)] # 0,
         SnapshotIsolation => PaymentNeedsInvoice'
  PROVE  SaleInv'
<1>1. TypeOK'
  BY EndTyped, AnswerTyped DEF Acknowledge, SaleInv, TypeOK
<1>2. Serving' /\ PostedForThisSale' /\ FreshView'
  BY EndKeepsRequests DEF Acknowledge
<1>3. \A s \in Sales : answer'[s] = "acked" =>
        answer[s] = "acked" \/ s = job[r]
  BY AnswerFrame DEF Acknowledge, SaleInv
<1>4. /\ job[r] \in Sales
      /\ invoice[Key(r)].docstatus # 0
      /\ invoice[Key(r)].basket = BasketOf[job[r]]
  BY KeysAreKeys DEF SaleInv, PostedForThisSale
<1>5. AckIsForThisSale'
  BY <1>3, <1>4 DEF SaleInv, AckIsForThisSale, Key, Acknowledge
<1>6. AckedSaleWasPaid'
  <2> SUFFICES ASSUME NEW s \in Sales, answer'[s] = "acked",
                      BasketOf[s] \notin Free
               PROVE  payment'[KeyOf[s]] # 0
    BY DEF AckedSaleWasPaid
  <2>1. KeyOf[s] \in ClientIds
    BY SalesAssumption
  <2>2. CASE answer[s] = "acked"
    BY <2>1, <2>2 DEF SaleInv, AckedSaleWasPaid
  <2>3. CASE s = job[r]
    BY <2>3 DEF Total, Key
  <2> QED BY <1>3, <2>2, <2>3
<1> QED BY <1>1, <1>2, <1>5, <1>6 DEF SaleInv

-----------------------------------------------------------------------------
(* A request that goes on.                                                 *)

\* What it takes to go on in a transaction whose snapshot is taken now, or,
\* after a commit, not yet.
LEMMA GoOnKeepsInv ==
  ASSUME SaleInv, NEW r \in Requests, NEW next \in PCs, NEW v \in View,
         pc[r] # "idle", next # "idle", GoTo(r, next, v),
         touched' \in [Requests -> SUBSET Rows],
         \A q \in Requests \ {r} :
           SnapshotIsolation /\ pc[q] # "idle" => touched[q] \subseteq touched'[q],
         next = "pay" => v = Snapshot(r),
         next \in {"collect", "record", "reload", "pay"} =>
           /\ invoice[Key(r)].docstatus # 0
           /\ invoice[Key(r)].basket = BasketOf[job[r]],
         review' \in SUBSET ClientIds,
         tries' \in [Requests -> 0..(MaxTries - 1)],
         UNCHANGED <<invoice, payment, allowed, till>>
  PROVE  SaleInv'
<1>1. TypeOK'
  BY DEF SaleInv, TypeOK, GoTo, till
<1>2. /\ pc'[r] = next /\ view'[r] = v /\ job' = job
      /\ \A q \in Requests \ {r} : pc'[q] = pc[q] /\ view'[q] = view[q]
  BY DEF SaleInv, TypeOK, GoTo
<1>3. invoice' = invoice /\ payment' = payment /\ answer' = answer
  BY DEF till
<1>4. Serving'
  BY <1>2 DEF SaleInv, Serving
<1>5. PostedForThisSale'
  BY <1>2, <1>3 DEF SaleInv, PostedForThisSale, Key
<1>6. FreshView'
  <2> SUFFICES ASSUME SnapshotIsolation, NEW q \in Requests, pc'[q] = "pay",
                      "invoice" \notin touched'[q]
               PROVE  view'[q].invoice = invoice'[KeyOf[job'[q]]]
    BY DEF FreshView, NoConflict, Key
  <2>1. CASE q = r
    BY <1>2, <1>3, <2>1 DEF Snapshot, Key
  <2>2. CASE q # r
    BY <1>2, <1>3, <2>2 DEF SaleInv, FreshView, NoConflict, Key
  <2> QED BY <2>1, <2>2
<1>7. AckIsForThisSale' /\ AckedSaleWasPaid'
  BY <1>3 DEF SaleInv, AckIsForThisSale, AckedSaleWasPaid
<1>8. SnapshotIsolation => PaymentNeedsInvoice'
  BY <1>3 DEF SaleInv, PaymentNeedsInvoice
<1> QED BY <1>1, <1>4, <1>5, <1>6, <1>7, <1>8 DEF SaleInv

LEMMA FoundKeepsInv ==
  ASSUME SaleInv, NEW r \in Requests, pc[r] # "idle", Found(r)
  PROVE  SaleInv'
<1>1. CASE SameSale(r, invoice[Key(r)]) /\ invoice[Key(r)].docstatus = 1
  <2>1. /\ GoTo(r, "pay", Snapshot(r))
        /\ touched' = [touched EXCEPT ![r] = {}]
        /\ UNCHANGED <<invoice, payment, review, allowed, tries, till>>
    BY <1>1 DEF Found
  <2>2. Snapshot(r) \in View
    BY SnapshotTyped DEF SaleInv
  <2>3. /\ touched' \in [Requests -> SUBSET Rows]
        /\ \A q \in Requests \ {r} : touched[q] \subseteq touched'[q]
        /\ review' \in SUBSET ClientIds
        /\ tries' \in [Requests -> 0..(MaxTries - 1)]
    BY <2>1 DEF SaleInv, TypeOK
  <2>4. /\ invoice[Key(r)].docstatus # 0
        /\ invoice[Key(r)].basket = BasketOf[job[r]]
    BY <1>1 DEF SameSale
  <2> QED BY <2>1, <2>2, <2>3, <2>4, GoOnKeepsInv
<1>2. CASE ~(SameSale(r, invoice[Key(r)]) /\ invoice[Key(r)].docstatus = 1)
  BY <1>2, RefuseKeepsInv DEF Found
<1> QED BY <1>1, <1>2

LEMMA NamingRaceKeepsInv ==
  ASSUME SaleInv, NEW r \in Requests, NamingRace(r)
  PROVE  SaleInv'
<1>1. CASE tries[r] < MaxTries - 1
  <2>1. /\ tries' = [tries EXCEPT ![r] = @ + 1]
        /\ GoTo(r, "insert", Snapshot(r))
        /\ touched' = [touched EXCEPT ![r] = {}]
        /\ UNCHANGED <<invoice, payment, review, allowed, till>>
    BY <1>1 DEF NamingRace
  <2>2. Snapshot(r) \in View
    BY SnapshotTyped DEF SaleInv, NamingRace
  <2>3. tries' \in [Requests -> 0..(MaxTries - 1)]
    BY <1>1, <2>1 DEF SaleInv, TypeOK, MaxTries
  <2>4. /\ touched' \in [Requests -> SUBSET Rows]
        /\ \A q \in Requests \ {r} : touched[q] \subseteq touched'[q]
        /\ review' \in SUBSET ClientIds
    BY <2>1 DEF SaleInv, TypeOK
  <2> QED BY <2>1, <2>2, <2>3, <2>4, GoOnKeepsInv DEF NamingRace
<1>2. CASE ~(tries[r] < MaxTries - 1)
  BY <1>2, FailKeepsInv DEF NamingRace, SaleInv, TypeOK
<1> QED BY <1>1, <1>2

LEMMA PostKeepsInv ==
  ASSUME SaleInv, NEW r \in Requests, Post(r)
  PROVE  SaleInv'
<1> DEFINE c == Key(r)
           posted == [docstatus |-> 1, basket |-> BasketOf[job[r]]]
           next == IF job[r] \in Offline THEN "collect" ELSE "reload"
<1>1. job[r] \in Sales /\ c \in ClientIds
  BY KeysAreKeys DEF SaleInv, Post
<1>2. posted \in InvoiceDoc /\ NoView \in View
  BY <1>1 DEF InvoiceDoc, Baskets, NoView, View, NoInvoice
<1>3. /\ invoice[c].docstatus = 0
      /\ invoice' = [invoice EXCEPT ![c] = posted]
      /\ GoTo(r, next, NoView)
      /\ Touch(r, c, {"invoice"}, {"series"})
      /\ UNCHANGED <<payment, review, allowed, tries, answer, heard, timeouts,
                     breaks>>
  BY DEF Post, till
<1>4. /\ pc'[r] = next /\ pc'[r] # "idle" /\ pc'[r] # "pay" /\ job' = job
      /\ \A q \in Requests \ {r} : pc'[q] = pc[q] /\ view'[q] = view[q]
      /\ pc' \in [Requests -> PCs] /\ view' \in [Requests -> View]
  BY <1>2, <1>3 DEF SaleInv, TypeOK, GoTo
<1>5. touched' \in [Requests -> SUBSET Rows]
  BY <1>3 DEF SaleInv, TypeOK, Touch
<1>6. TypeOK'
  BY <1>1, <1>2, <1>3, <1>4, <1>5 DEF SaleInv, TypeOK
<1>7. Serving'
  BY <1>1, <1>4 DEF SaleInv, Serving
<1>8. /\ invoice'[c] = posted
      /\ \A d \in ClientIds \ {c} : invoice'[d] = invoice[d]
  BY <1>1, <1>3 DEF SaleInv, TypeOK
<1>9. PostedForThisSale'
  <2> SUFFICES ASSUME NEW q \in Requests,
                      pc'[q] \in {"collect", "record", "reload", "pay"}
               PROVE  /\ invoice'[KeyOf[job'[q]]].docstatus # 0
                      /\ invoice'[KeyOf[job'[q]]].basket = BasketOf[job'[q]]
    BY DEF PostedForThisSale, Key
  <2>1. CASE q = r
    BY <1>4, <1>8, <2>1 DEF Key
  <2>2. CASE q # r
    <3>1. /\ invoice[Key(q)].docstatus # 0
          /\ invoice[Key(q)].basket = BasketOf[job[q]]
          /\ Key(q) \in ClientIds
      BY <1>4, <2>2, KeysAreKeys DEF SaleInv, PostedForThisSale
    <3> QED BY <1>3, <1>4, <1>8, <3>1 DEF Key
  <2> QED BY <2>1, <2>2
<1>10. FreshView'
  <2> SUFFICES ASSUME SnapshotIsolation, NEW q \in Requests, pc'[q] = "pay",
                      "invoice" \notin touched'[q]
               PROVE  view'[q].invoice = invoice'[KeyOf[job'[q]]]
    BY DEF FreshView, NoConflict, Key
  <2>1. q # r /\ pc[q] = "pay"
    BY <1>4
  <2>2. Key(q) # c /\ "invoice" \notin touched[q]
    BY <1>3, <2>1 DEF Touch
  <2>3. Key(q) \in ClientIds /\ view[q].invoice = invoice[Key(q)]
    BY <2>1, <2>2, KeysAreKeys DEF SaleInv, FreshView, NoConflict
  <2> QED BY <1>4, <1>8, <2>1, <2>2, <2>3 DEF Key
<1>11. AckIsForThisSale'
  <2> SUFFICES ASSUME NEW s \in Sales, answer[s] = "acked"
               PROVE  /\ invoice'[KeyOf[s]].docstatus # 0
                      /\ invoice'[KeyOf[s]].basket = BasketOf[s]
    BY <1>3 DEF AckIsForThisSale
  <2>1. /\ KeyOf[s] \in ClientIds
        /\ invoice[KeyOf[s]].docstatus # 0
        /\ invoice[KeyOf[s]].basket = BasketOf[s]
    BY SalesAssumption DEF SaleInv, AckIsForThisSale
  <2> QED BY <1>3, <1>8, <2>1
<1>12. AckedSaleWasPaid'
  BY <1>3 DEF SaleInv, AckedSaleWasPaid
<1>13. SnapshotIsolation => PaymentNeedsInvoice'
  <2> SUFFICES ASSUME SnapshotIsolation, NEW d \in ClientIds, payment[d] = 1
               PROVE  invoice'[d].docstatus = 1
    BY <1>3 DEF PaymentNeedsInvoice
  <2>1. invoice[d].docstatus = 1
    BY DEF SaleInv, PaymentNeedsInvoice
  <2> QED BY <1>3, <1>8, <2>1
<1> QED BY <1>6, <1>7, <1>9, <1>10, <1>11, <1>12, <1>13 DEF SaleInv

LEMMA CancelKeepsInv ==
  ASSUME SaleInv, NEW c \in ClientIds, CancelInvoice(c) \/ CancelPayment(c)
  PROVE  SaleInv'
<1>1. /\ pc' = pc /\ job' = job /\ tries' = tries /\ view' = view
      /\ answer' = answer /\ heard' = heard /\ review' = review
      /\ allowed' = allowed /\ timeouts' = timeouts /\ breaks' = breaks
      /\ TouchInvoice(c)
  BY DEF CancelInvoice, CancelPayment, till
<1>2. /\ invoice' \in [ClientIds -> InvoiceDoc]
      /\ \A d \in ClientIds :
           /\ invoice'[d].basket = invoice[d].basket
           /\ invoice'[d].docstatus = 0 <=> invoice[d].docstatus = 0
           /\ d # c => invoice'[d] = invoice[d]
  <2>1. CASE CancelInvoice(c)
    BY <2>1 DEF CancelInvoice, SaleInv, TypeOK, InvoiceDoc
  <2>2. CASE CancelPayment(c)
    BY <2>2 DEF CancelPayment, SaleInv, TypeOK
  <2> QED BY <2>1, <2>2
<1>3. /\ payment' \in [ClientIds -> 0..2]
      /\ \A d \in ClientIds : payment[d] # 0 => payment'[d] # 0
  BY DEF CancelInvoice, CancelPayment, SaleInv, TypeOK
<1>4. /\ touched' \in [Requests -> SUBSET Rows]
      /\ \A q \in Requests :
           /\ touched[q] \subseteq touched'[q]
           /\ SnapshotIsolation /\ pc[q] # "idle" /\ Key(q) = c =>
                "invoice" \in touched'[q]
  BY <1>1 DEF SaleInv, TypeOK, TouchInvoice
<1>5. TypeOK'
  BY <1>1, <1>2, <1>3, <1>4 DEF SaleInv, TypeOK
<1>6. Serving'
  BY <1>1 DEF SaleInv, Serving
<1>7. PostedForThisSale'
  <2> SUFFICES ASSUME NEW q \in Requests,
                      pc[q] \in {"collect", "record", "reload", "pay"}
               PROVE  /\ invoice'[Key(q)].docstatus # 0
                      /\ invoice'[Key(q)].basket = BasketOf[job[q]]
    BY <1>1 DEF PostedForThisSale, Key
  <2>1. Key(q) \in ClientIds
    BY KeysAreKeys DEF SaleInv
  <2> QED BY <1>2, <2>1 DEF SaleInv, PostedForThisSale
<1>8. FreshView'
  <2> SUFFICES ASSUME SnapshotIsolation, NEW q \in Requests, pc[q] = "pay",
                      "invoice" \notin touched'[q]
               PROVE  view[q].invoice = invoice'[Key(q)]
    BY <1>1 DEF FreshView, NoConflict, Key
  <2>1. Key(q) \in ClientIds /\ Key(q) # c /\ "invoice" \notin touched[q]
    BY <1>4, KeysAreKeys DEF SaleInv
  <2> QED BY <1>2, <2>1 DEF SaleInv, FreshView, NoConflict
<1>9. AckIsForThisSale' /\ AckedSaleWasPaid'
  <2>1. \A s \in Sales : KeyOf[s] \in ClientIds
    BY SalesAssumption
  <2> QED BY <1>1, <1>2, <1>3, <2>1 DEF SaleInv, AckIsForThisSale, AckedSaleWasPaid
<1>10. SnapshotIsolation => PaymentNeedsInvoice'
  <2> SUFFICES ASSUME SnapshotIsolation, NEW d \in ClientIds, payment'[d] = 1
               PROVE  invoice'[d].docstatus = 1
    BY DEF PaymentNeedsInvoice
  <2>1. CASE d = c
    <3>1. ~CancelInvoice(c) /\ ~CancelPayment(c)
      BY <2>1 DEF CancelInvoice, CancelPayment, SaleInv, TypeOK
    <3> QED BY <3>1
  <2>2. CASE d # c
    <3>1. payment[d] = 1
      BY <2>2 DEF CancelInvoice, CancelPayment, SaleInv, TypeOK
    <3> QED BY <1>2, <2>2, <3>1 DEF SaleInv, PaymentNeedsInvoice
  <2> QED BY <2>1, <2>2
<1> QED BY <1>5, <1>6, <1>7, <1>8, <1>9, <1>10 DEF SaleInv

LEMMA PayKeepsInv ==
  ASSUME SaleInv, NEW r \in Requests, Pay(r)
  PROVE  SaleInv'
<1>1. Key(r) \in ClientIds /\ payment[Key(r)] = 0
  BY KeysAreKeys DEF SaleInv, Pay
<1>2. payment' = [payment EXCEPT ![Key(r)] = 1]
  BY DEF Pay
<1>3. /\ payment' \in [ClientIds -> 0..2]
      /\ payment'[Key(r)] = 1
      /\ \A c \in ClientIds \ {Key(r)} : payment'[c] = payment[c]
  BY <1>1, <1>2 DEF SaleInv, TypeOK
<1>4. SnapshotIsolation => PaymentNeedsInvoice'
  <2> SUFFICES ASSUME SnapshotIsolation, NEW c \in ClientIds, payment'[c] = 1
               PROVE  invoice[c].docstatus = 1
    BY DEF PaymentNeedsInvoice, Pay, Acknowledge
  <2>1. CASE c = Key(r)
    BY <2>1 DEF Pay, SaleInv, FreshView
  <2>2. CASE c # Key(r)
    BY <1>3, <2>2 DEF SaleInv, PaymentNeedsInvoice
  <2> QED BY <2>1, <2>2
<1>5. pc[r] = "pay" /\ Acknowledge(r, {"invoice"})
  BY DEF Pay
<1> QED BY <1>1, <1>3, <1>4, <1>5, AcknowledgeKeepsInv

-----------------------------------------------------------------------------
LEMMA InitInv == Init => SaleInv
<1> SUFFICES ASSUME Init PROVE SaleInv
  OBVIOUS
<1>1. TypeOK
  BY SalesAssumption DEF Init, TypeOK, NoInvoice, InvoiceDoc, NoView, View, MaxTries
<1>2. Serving /\ PostedForThisSale /\ FreshView
  BY DEF Init, Serving, PostedForThisSale, FreshView
<1>3. AckIsForThisSale /\ AckedSaleWasPaid /\ PaymentNeedsInvoice
  BY DEF Init, AckIsForThisSale, AckedSaleWasPaid, PaymentNeedsInvoice
<1> QED BY <1>1, <1>2, <1>3 DEF SaleInv

LEMMA StepKeepsInv == SaleInv /\ [Next]_vars => SaleInv'
<1> SUFFICES ASSUME SaleInv, [Next]_vars PROVE SaleInv'
  OBVIOUS
<1>1. ASSUME NEW r \in Requests, NEW s \in Sales, Send(r, s) PROVE SaleInv'
  <2>1. /\ invoice' = invoice /\ payment' = payment /\ answer' = answer
        /\ view' = view /\ touched' = touched /\ review' = review
        /\ pc'[r] = "find" /\ job'[r] = s
        /\ \A q \in Requests \ {r} : pc'[q] = pc[q] /\ job'[q] = job[q]
    BY <1>1 DEF Send, SaleInv, TypeOK
  <2>2. TypeOK'
    BY <1>1 DEF Send, SaleInv, TypeOK
  <2>3. Serving' /\ PostedForThisSale' /\ FreshView'
    BY <2>1 DEF SaleInv, Serving, PostedForThisSale, FreshView, Key, NoConflict
  <2>4. AckIsForThisSale' /\ AckedSaleWasPaid'
    BY <2>1 DEF SaleInv, AckIsForThisSale, AckedSaleWasPaid
  <2>5. SnapshotIsolation => PaymentNeedsInvoice'
    BY <2>1 DEF SaleInv, PaymentNeedsInvoice
  <2> QED BY <2>2, <2>3, <2>4, <2>5 DEF SaleInv
<1>2. ASSUME NEW r \in Requests,
             RefuseInput(r) \/ RefusePosting(r) \/ RefusePayment(r)
      PROVE  SaleInv'
  BY <1>2, RefuseKeepsInv DEF RefuseInput, RefusePosting, RefusePayment
<1>3. ASSUME NEW r \in Requests, FindExisting(r) \/ LostRace(r)
      PROVE  SaleInv'
  BY <1>3, FoundKeepsInv DEF FindExisting, LostRace
<1>4. ASSUME NEW r \in Requests, FindNone(r) PROVE SaleInv'
  <2>1. /\ Snapshot(r) \in View
        /\ touched' \in [Requests -> SUBSET Rows]
        /\ \A q \in Requests \ {r} : touched[q] \subseteq touched'[q]
        /\ review' \in SUBSET ClientIds
        /\ tries' \in [Requests -> 0..(MaxTries - 1)]
    BY <1>4, SnapshotTyped DEF FindNone, SaleInv, TypeOK
  <2> QED BY <1>4, <2>1, GoOnKeepsInv DEF FindNone
<1>5. ASSUME NEW r \in Requests, RecordIssues(r) PROVE SaleInv'
  <2>1. Key(r) \in ClientIds /\ NoView \in View
    BY <1>5, KeysAreKeys DEF RecordIssues, SaleInv, NoView, View, NoInvoice, InvoiceDoc
  <2>2. /\ touched' \in [Requests -> SUBSET Rows]
        /\ \A q \in Requests \ {r} :
             SnapshotIsolation /\ pc[q] # "idle" => touched[q] \subseteq touched'[q]
        /\ review' \in SUBSET ClientIds
        /\ tries' \in [Requests -> 0..(MaxTries - 1)]
    BY <1>5, <2>1 DEF RecordIssues, Touch, SaleInv, TypeOK
  <2>3. /\ invoice[Key(r)].docstatus # 0
        /\ invoice[Key(r)].basket = BasketOf[job[r]]
    BY <1>5 DEF RecordIssues, SaleInv, PostedForThisSale
  <2> QED BY <1>5, <2>1, <2>2, <2>3, GoOnKeepsInv DEF RecordIssues
<1>12. ASSUME NEW r \in Requests, CollectIssues(r) PROVE SaleInv'
  <2>1. /\ NoView \in View
        /\ touched' \in [Requests -> SUBSET Rows]
        /\ \A q \in Requests \ {r} : touched[q] \subseteq touched'[q]
        /\ review' \in SUBSET ClientIds
        /\ tries' \in [Requests -> 0..(MaxTries - 1)]
    BY <1>12 DEF CollectIssues, SaleInv, TypeOK, NoView, View, NoInvoice, InvoiceDoc
  <2>2. /\ invoice[Key(r)].docstatus # 0
        /\ invoice[Key(r)].basket = BasketOf[job[r]]
    BY <1>12 DEF CollectIssues, SaleInv, PostedForThisSale
  <2> QED BY <1>12, <2>1, <2>2, GoOnKeepsInv DEF CollectIssues
<1>6. ASSUME NEW r \in Requests, Reload(r) PROVE SaleInv'
  <2>1. /\ Snapshot(r) \in View
        /\ touched' \in [Requests -> SUBSET Rows]
        /\ \A q \in Requests \ {r} : touched[q] \subseteq touched'[q]
        /\ review' \in SUBSET ClientIds
        /\ tries' \in [Requests -> 0..(MaxTries - 1)]
    BY <1>6, SnapshotTyped DEF Reload, SaleInv, TypeOK
  <2>2. /\ invoice[Key(r)].docstatus # 0
        /\ invoice[Key(r)].basket = BasketOf[job[r]]
    BY <1>6 DEF Reload, SaleInv, PostedForThisSale
  <2> QED BY <1>6, <2>1, <2>2, GoOnKeepsInv DEF Reload
<1>7. ASSUME NEW r \in Requests, PaidAlready(r) PROVE SaleInv'
  <2>1. SnapshotIsolation => PaymentNeedsInvoice'
    BY <1>7 DEF PaidAlready, Acknowledge, SaleInv, PaymentNeedsInvoice
  <2> QED BY <1>7, <2>1, AcknowledgeKeepsInv DEF PaidAlready, SaleInv, TypeOK
<1>8. ASSUME NEW r \in Requests, PaymentConflict(r) \/ RecordConflict(r) PROVE SaleInv'
  BY <1>8, FailKeepsInv DEF PaymentConflict, RecordConflict, SaleInv, TypeOK
<1>9. ASSUME NEW r \in Requests, PaymentFails(r) \/ Die(r) PROVE SaleInv'
  <2>1. breaks' \in 0..MaxBreaks
    BY <1>9, SalesAssumption DEF PaymentFails, Die, Break, SaleInv, TypeOK
  <2> QED BY <1>9, <2>1, FailKeepsInv DEF PaymentFails, Die
<1>10. ASSUME NEW s \in Sales, TimeOut(s) \/ Expire(s) PROVE SaleInv'
  <2>1. /\ invoice' = invoice /\ payment' = payment /\ answer' = answer
        /\ view' = view /\ touched' = touched /\ pc' = pc /\ job' = job
    BY <1>10 DEF TimeOut, Expire, database, till, request
  <2>2. TypeOK'
    <3>1. CASE TimeOut(s)
      BY <3>1, SalesAssumption DEF TimeOut, database, request, SaleInv, TypeOK
    <3>2. CASE Expire(s)
      BY <3>2 DEF Expire, database, till, request, SaleInv, TypeOK
    <3> QED BY <1>10, <3>1, <3>2
  <2>3. Serving' /\ PostedForThisSale' /\ FreshView'
    BY <2>1 DEF SaleInv, Serving, PostedForThisSale, FreshView, Key, NoConflict
  <2>4. AckIsForThisSale' /\ AckedSaleWasPaid'
    BY <2>1 DEF SaleInv, AckIsForThisSale, AckedSaleWasPaid
  <2>5. SnapshotIsolation => PaymentNeedsInvoice'
    BY <2>1 DEF SaleInv, PaymentNeedsInvoice
  <2> QED BY <2>2, <2>3, <2>4, <2>5 DEF SaleInv
<1>11. CASE UNCHANGED vars
  BY <1>11 DEF vars, SaleInv, TypeOK, Serving, PostedForThisSale, FreshView,
     AckIsForThisSale, AckedSaleWasPaid, PaymentNeedsInvoice, Key, NoConflict
<1> QED
  BY <1>1, <1>2, <1>3, <1>4, <1>5, <1>6, <1>7, <1>8, <1>9, <1>10, <1>11,
     <1>12, NamingRaceKeepsInv, PostKeepsInv, PayKeepsInv, CancelKeepsInv
     DEF Next, Serve

\* The inductive invariant, whichever way the requests are interleaved.
THEOREM SaleInvariant == Spec => []SaleInv
BY InitInv, StepKeepsInv, PTL DEF Spec

\* No till is acknowledged for a basket it did not sell (_check_replay), and
\* none before the payment of its sale is booked.
THEOREM AcksAreRight == Spec => []AckIsTrue
<1>1. SaleInv => AckIsTrue
  BY DEF SaleInv, AckIsTrue
<1> QED BY <1>1, SaleInvariant, PTL

\* On a database with snapshot isolation no payment is left standing for a
\* cancelled invoice, whenever the accountant cancels it.
THEOREM PaymentsFollowInvoices ==
  ASSUME SnapshotIsolation
  PROVE  Spec => []PaymentNeedsInvoice
<1>1. SaleInv => PaymentNeedsInvoice
  BY DEF SaleInv
<1> QED BY <1>1, SaleInvariant, PTL

-----------------------------------------------------------------------------
(***************************************************************************)
(* The review of a sale that is paid after its answer: the entry is there, *)
(* or the request that owes it is still at work or was killed.             *)
(***************************************************************************)

\* Sales that share client_id and basket are, to the site, one sale.
OneSaleEach ==
  \A s, t \in Sales : KeyOf[s] = KeyOf[t] /\ BasketOf[s] = BasketOf[t] => s = t

\* r is about to open the review entry of s.
Recording(r, s) == pc[r] \in {"collect", "record"} /\ job[r] = s

Excused(s) ==
  \/ breaks' > breaks
  \/ \E r \in Requests : pc[r] = "record" /\ job[r] = s /\ ~NoConflict(r, "entries")

Missed(s) == Unreviewed(s)' => Unreviewed(s) \/ Excused(s)

\* No invoice is new, no entry is lost, and who is recording goes on or has recorded.
LEMMA ReviewFrame ==
  ASSUME NEW s \in Flawed,
         \A c \in ClientIds : invoice'[c].docstatus # 0 =>
           invoice[c].docstatus # 0 /\ invoice'[c].basket = invoice[c].basket,
         review \subseteq review',
         \A q \in Requests : Recording(q, s) =>
           Recording(q, s)' \/ KeyOf[s] \in review' \/ Excused(s)
  PROVE  Missed(s)
<1>1. KeyOf[s] \in ClientIds
  BY SalesAssumption
<1> QED BY <1>1 DEF Missed, Unreviewed, Recording

\* A request that ends elsewhere than while it records.
LEMMA ReviewEnds ==
  ASSUME SaleInv, NEW s \in Flawed, NEW r \in Requests, NEW mine, EndRequest(r, mine),
         UNCHANGED <<invoice, review>>, Recording(r, s) => Excused(s)
  PROVE  Missed(s)
<1>1. \A q \in Requests \ {r} : pc'[q] = pc[q] /\ job'[q] = job[q]
  BY DEF EndRequest, SaleInv, TypeOK
<1>2. \A q \in Requests : Recording(q, s) => Recording(q, s)' \/ Excused(s)
  BY <1>1 DEF Recording
<1> QED BY <1>2, ReviewFrame

\* A request that goes on, elsewhere than from its record.
LEMMA ReviewGoesOn ==
  ASSUME SaleInv, NEW s \in Flawed, NEW r \in Requests, NEW next, NEW v, GoTo(r, next, v),
         UNCHANGED <<invoice, review>>,
         pc[r] \in {"collect", "record"} => next \in {"collect", "record"}
  PROVE  Missed(s)
<1>1. /\ \A q \in Requests \ {r} : pc'[q] = pc[q] /\ job'[q] = job[q]
      /\ pc'[r] = next /\ job'[r] = job[r]
  BY DEF GoTo, SaleInv, TypeOK
<1>2. \A q \in Requests : Recording(q, s) => Recording(q, s)'
  BY <1>1 DEF Recording
<1> QED BY <1>2, ReviewFrame

LEMMA ReviewFound ==
  ASSUME SaleInv, NEW s \in Flawed, NEW r \in Requests, Found(r),
         pc[r] \notin {"collect", "record"}
  PROVE  Missed(s)
BY ReviewGoesOn, ReviewEnds DEF Found, Refuse, Recording

LEMMA ReviewPost ==
  ASSUME OneSaleEach, SaleInv, NEW s \in Flawed, NEW r \in Requests, Post(r)
  PROVE  Missed(s)
<1> USE DEF Post
<1>1. job[r] \in Sales /\ Key(r) \in ClientIds
  BY KeysAreKeys DEF SaleInv
<1>2. /\ invoice' = [invoice EXCEPT ![Key(r)] = [docstatus |-> 1, basket |-> BasketOf[job[r]]]]
      /\ pc' = [pc EXCEPT ![r] = IF job[r] \in Offline THEN "collect" ELSE "reload"]
      /\ job' = job /\ review' = review
  BY DEF GoTo
<1>3. s \in Sales /\ s \in Offline /\ KeyOf[s] \in ClientIds
  BY SalesAssumption
<1> SUFFICES ASSUME Unreviewed(s)' PROVE Unreviewed(s)
  BY DEF Missed
<1>4. \A q \in Requests : ~Recording(q, s)'
  BY DEF Unreviewed, Recording
<1>5. \A q \in Requests : ~Recording(q, s)
  BY <1>2, <1>4 DEF Recording, SaleInv, TypeOK
<1>6. CASE KeyOf[s] = Key(r)
  <2>1. invoice'[KeyOf[s]].basket = BasketOf[job[r]]
    BY <1>1, <1>2, <1>6 DEF SaleInv, TypeOK
  <2>2. s = job[r]
    BY <1>1, <1>3, <1>6, <2>1 DEF OneSaleEach, Key, Unreviewed
  <2>3. Recording(r, s)'
    BY <1>2, <1>3, <2>2 DEF Recording, SaleInv, TypeOK
  <2> QED BY <1>4, <2>3
<1>7. CASE KeyOf[s] # Key(r)
  <2>1. invoice'[KeyOf[s]] = invoice[KeyOf[s]]
    BY <1>2, <1>3, <1>7 DEF SaleInv, TypeOK
  <2> QED BY <1>2, <1>5, <2>1 DEF Unreviewed, Recording
<1> QED BY <1>6, <1>7

LEMMA ReviewRecord ==
  ASSUME SaleInv, NEW s \in Flawed, NEW r \in Requests, RecordIssues(r)
  PROVE  Missed(s)
<1>1. /\ review' = IF Missing(r) THEN review \cup {Key(r)} ELSE review
      /\ pc' = [pc EXCEPT ![r] = "reload"] /\ job' = job
      /\ UNCHANGED invoice
  BY DEF RecordIssues, GoTo
<1>2. \A q \in Requests : Recording(q, s) => Recording(q, s)' \/ KeyOf[s] \in review'
  BY <1>1 DEF Recording, Missing, Key, SaleInv, TypeOK
<1> QED BY <1>1, <1>2, ReviewFrame

LEMMA ReviewCancel ==
  ASSUME SaleInv, NEW s \in Flawed, NEW c \in ClientIds, CancelInvoice(c) \/ CancelPayment(c)
  PROVE  Missed(s)
<1>1. UNCHANGED <<review, pc, job>>
  BY DEF CancelInvoice, CancelPayment
<1>2. \A x \in ClientIds : invoice'[x].docstatus # 0 =>
        invoice[x].docstatus # 0 /\ invoice'[x].basket = invoice[x].basket
  <2>1. CASE CancelInvoice(c)
    <3>1. invoice[c] \in InvoiceDoc /\ invoice[c].docstatus = 1
      BY <2>1 DEF CancelInvoice, SaleInv, TypeOK
    <3>2. invoice' = [invoice EXCEPT ![c].docstatus = 2]
      BY <2>1 DEF CancelInvoice
    <3>3. invoice'[c].basket = invoice[c].basket
      BY <3>1, <3>2 DEF InvoiceDoc, SaleInv, TypeOK
    <3> QED BY <3>1, <3>2, <3>3 DEF SaleInv, TypeOK
  <2>2. CASE CancelPayment(c)
    BY <2>2 DEF CancelPayment
  <2> QED BY <2>1, <2>2
<1> QED BY <1>1, <1>2, ReviewFrame DEF Recording

LEMMA StepReviewed ==
  ASSUME OneSaleEach, SaleInv, [Next]_vars, NEW s \in Flawed
  PROVE  Missed(s)
<1>1. ASSUME NEW r \in Requests, RefuseInput(r) \/ RefusePosting(r) \/ RefusePayment(r)
      PROVE  Missed(s)
  BY <1>1, ReviewEnds DEF RefuseInput, RefusePosting, RefusePayment, Owing, Refuse, Recording
<1>2. ASSUME NEW r \in Requests, FindExisting(r) \/ LostRace(r) PROVE Missed(s)
  BY <1>2, ReviewFound DEF FindExisting, LostRace
<1>3. ASSUME NEW r \in Requests, FindNone(r) \/ CollectIssues(r) \/ Reload(r) PROVE Missed(s)
  BY <1>3, ReviewGoesOn DEF FindNone, CollectIssues, Reload
<1>4. ASSUME NEW r \in Requests, NamingRace(r) PROVE Missed(s)
  BY <1>4, ReviewGoesOn, ReviewEnds DEF NamingRace, Fail, Recording
<1>5. ASSUME NEW r \in Requests, PaidAlready(r) \/ Pay(r) PROVE Missed(s)
  BY <1>5, ReviewEnds DEF PaidAlready, Pay, Acknowledge, Recording
<1>6. ASSUME NEW r \in Requests, PaymentConflict(r) \/ RecordConflict(r) PROVE Missed(s)
  BY <1>6, ReviewEnds DEF PaymentConflict, RecordConflict, Owing, Fail, Recording, Excused
<1>7. ASSUME NEW r \in Requests, PaymentFails(r) \/ Die(r) PROVE Missed(s)
  <2>1. breaks' > breaks
    BY <1>7 DEF PaymentFails, Die, Break, SaleInv, TypeOK
  <2> QED BY <1>7, <2>1, ReviewEnds DEF PaymentFails, Die, Fail, Excused
<1>8. ASSUME NEW r \in Requests, NEW t \in Sales, Send(r, t) PROVE Missed(s)
  <2>1. \A q \in Requests \ {r} : pc'[q] = pc[q] /\ job'[q] = job[q]
    BY <1>8 DEF Send, SaleInv, TypeOK
  <2>2. pc[r] = "idle" /\ UNCHANGED <<invoice, review>>
    BY <1>8 DEF Send
  <2>3. \A q \in Requests : Recording(q, s) => Recording(q, s)'
    BY <2>1, <2>2 DEF Recording
  <2> QED BY <2>2, <2>3, ReviewFrame
<1>9. ASSUME UNCHANGED <<invoice, review, pc, job>> PROVE Missed(s)
  BY <1>9, ReviewFrame DEF Recording
<1>10. ASSUME NEW t \in Sales, TimeOut(t) \/ Expire(t) PROVE Missed(s)
  BY <1>9, <1>10 DEF TimeOut, Expire, database, request
<1>11. CASE UNCHANGED vars
  BY <1>9, <1>11 DEF vars
<1> QED
  BY <1>1, <1>2, <1>3, <1>4, <1>5, <1>6, <1>7, <1>8, <1>10, <1>11, ReviewPost, ReviewRecord,
     ReviewCancel DEF Next, Serve

\* A posted offline sale that a manager should look at misses its review entry only
\* where a worker dies or the entry of another sale takes the name it would have
\* had, for any tills and requests.
THEOREM LateSalesAreReviewed ==
  ASSUME OneSaleEach
  PROVE  Spec => MissedOnlyInARace
<1>1. SaleInv /\ [Next]_vars =>
        [\A s \in Flawed : Unreviewed(s)' =>
           \/ Unreviewed(s)
           \/ breaks' > breaks
           \/ \E r \in Requests :
                pc[r] = "record" /\ job[r] = s /\ ~NoConflict(r, "entries")]_vars
  BY StepReviewed DEF Missed, Excused
<1> QED BY <1>1, SaleInvariant, PTL DEF Spec, MissedOnlyInARace

-----------------------------------------------------------------------------
(***************************************************************************)
(* RetailSale implements OneDocument: a step of a request, a till or an    *)
(* accountant is a step under one client id, or none.                      *)
(***************************************************************************)

\* A till that waits for a request has had no answer.
TillsWait == \A s \in Sales : heard[s] # None => answer[s] = "waiting"

PromiseInv == SaleInv /\ TillsWait

Acked == {x \in Sales : answer[x] = "acked"}

Told == {<<s, KeyOf[s]>> : s \in Acked}

LEMMA AnswerWaits ==
  ASSUME PromiseInv, NEW r \in Requests, job[r] \in Sales,
         NEW a \in {"waiting", "acked", "parked"}, Answer(r, a)
  PROVE  /\ TillsWait'
         /\ \/ answer' = answer
            \/ /\ answer[job[r]] = "waiting"
               /\ answer' = [answer EXCEPT ![job[r]] = a]
<1>1. /\ answer \in [Sales -> {"waiting", "acked", "parked"}]
      /\ heard \in [Sales -> Requests \cup {None}] /\ None \notin Requests
  BY SalesAssumption DEF PromiseInv, SaleInv, TypeOK
<1>2. PICK s \in Sales : s = job[r]
  OBVIOUS
<1>3. CASE heard[s] = r
  <2>1. answer' = [answer EXCEPT ![s] = a] /\ heard' = [heard EXCEPT ![s] = None]
    BY <1>2, <1>3 DEF Answer
  <2>2. answer[s] = "waiting"
    BY <1>1, <1>3 DEF PromiseInv, TillsWait
  <2>3. TillsWait'
    BY <1>1, <2>1 DEF PromiseInv, TillsWait
  <2> QED BY <1>2, <2>1, <2>2, <2>3
<1>4. CASE heard[s] # r
  <2>1. answer' = answer
    BY <1>2, <1>4 DEF Answer
  <2>2. heard' = heard
    BY <1>2, <1>4 DEF Answer
  <2>3. TillsWait'
    BY <2>1, <2>2 DEF PromiseInv, TillsWait
  <2> QED BY <2>1, <2>3
<1> QED BY <1>3, <1>4

\* Who is told.
LEMMA NotTold ==
  ASSUME PromiseInv, NEW r \in Requests, job[r] \in Sales,
         NEW a \in {"waiting", "parked"}, Answer(r, a)
  PROVE  Told' = Told
<1>1. answer \in [Sales -> {"waiting", "acked", "parked"}]
  BY DEF PromiseInv, SaleInv, TypeOK
<1>2. Acked' = Acked
  BY <1>1, AnswerWaits DEF Acked
<1> QED BY <1>2 DEF Told

LEMMA NewlyTold ==
  ASSUME PromiseInv, NEW r \in Requests, job[r] \in Sales, Answer(r, "acked")
  PROVE  Told' = Told \/ Told' = Told \cup {<<job[r], Key(r)>>}
<1>1. answer \in [Sales -> {"waiting", "acked", "parked"}]
  BY DEF PromiseInv, SaleInv, TypeOK
<1>2. Acked' = Acked \/ Acked' = Acked \cup {job[r]}
  BY <1>1, AnswerWaits DEF Acked
<1> QED BY <1>2 DEF Told, Key

LEMMA KeepsSales ==
  ASSUME NEW c \in ClientIds,
         \A x \in ClientIds \ {c} : invoice'[x] = invoice[x] /\ payment'[x] = payment[x],
         \/ /\ \/ /\ invoice[c].docstatus = 0 /\ invoice'[c].docstatus = 1
                  /\ invoice'[c].basket \in Baskets
               \/ /\ invoice' = invoice /\ invoice[c].docstatus = 1
                  /\ payment'[c] # 0
               \/ invoice' = invoice /\ payment' = payment
            /\ \/ /\ invoice'[c].docstatus # 0
                  /\ invoice'[c].basket \in Free \/ payment'[c] # 0
                  /\ \E s \in Sales : /\ invoice'[c].basket = BasketOf[s]
                                      /\ Told' = Told \cup {<<s, c>>}
               \/ Told' = Told
         \/ /\ invoice[c].docstatus = 1 /\ invoice'[c].docstatus = 2
            /\ invoice'[c].basket = invoice[c].basket
            /\ payment'[c] = 0 <=> payment[c] = 0
            /\ Told' = Told
  PROVE  Promise!PromiseNext
<1> DEFINE made == [x \in ClientIds |->
                      IF invoice[x].docstatus # 0 THEN {invoice[x].basket} ELSE {}]
           done == {x \in ClientIds : /\ invoice[x].docstatus # 0
                                      /\ invoice[x].basket \in Free \/ payment[x] # 0}
           undone == {x \in ClientIds : invoice[x].docstatus = 2}
<1>1. \A x \in ClientIds \ {c} :
         /\ made'[x] = made[x]
         /\ x \in done' <=> x \in done
         /\ x \in undone' <=> x \in undone
  OBVIOUS
<1>2. CASE /\ invoice[c].docstatus = 1 /\ invoice'[c].docstatus = 2
           /\ invoice'[c].basket = invoice[c].basket
           /\ payment'[c] = 0 <=> payment[c] = 0
           /\ Told' = Told
  <2>1. made' = made /\ made[c] # {}
    <3>1. made'[c] = {invoice[c].basket} /\ made[c] = {invoice[c].basket}
      BY <1>2
    <3>2. made' = made
      BY <1>1, <3>1
    <3> QED BY <3>1, <3>2
  <2>2. undone' = undone \cup {c}
    <3>1. /\ \A x \in ClientIds \ {c} : x \in undone' <=> x \in undone
          /\ undone' \subseteq ClientIds /\ undone \subseteq ClientIds
      BY <1>1
    <3>2. c \in undone'
      BY <1>2
    <3> HIDE DEF undone
    <3> QED BY <3>1, <3>2
  <2>3. c \in done' <=> c \in done
    BY <1>2
  <2>4. done' = done
    <3>1. \A x \in ClientIds : x \in done' <=> x \in done
      BY <1>1, <2>3
    <3>2. done' \subseteq ClientIds /\ done \subseteq ClientIds
      OBVIOUS
    <3> HIDE DEF done
    <3> QED BY <3>1, <3>2
  <2>5. Promise!Undo(c)
    BY <1>2, <2>1, <2>2, <2>4 DEF Promise!Undo, Told, Acked
  <2> QED BY <2>5 DEF Promise!PromiseNext
<1>3. CASE /\ \/ /\ invoice[c].docstatus = 0 /\ invoice'[c].docstatus = 1
                 /\ invoice'[c].basket \in Baskets
              \/ /\ invoice' = invoice /\ invoice[c].docstatus = 1
                 /\ payment'[c] # 0
              \/ invoice' = invoice /\ payment' = payment
           /\ \/ /\ invoice'[c].docstatus # 0
                 /\ invoice'[c].basket \in Free \/ payment'[c] # 0
                 /\ \E s \in Sales : /\ invoice'[c].basket = BasketOf[s]
                                     /\ Told' = Told \cup {<<s, c>>}
              \/ Told' = Told
  <2>1. undone' = undone
    BY <1>1, <1>3
  <2>2. Promise!Make(c) \/ Promise!Complete(c) \/ UNCHANGED <<made, done>>
    <3>1. CASE /\ invoice[c].docstatus = 0 /\ invoice'[c].docstatus = 1
               /\ invoice'[c].basket \in Baskets
      <4>1. made[c] = {} /\ made' = [made EXCEPT ![c] = {invoice'[c].basket}]
        <5>1. made[c] = {} /\ made'[c] = {invoice'[c].basket}
          BY <3>1
        <5>2. made' = [made EXCEPT ![c] = made'[c]]
          BY <1>1
        <5> QED BY <5>1, <5>2
      <4>2. c \notin done
        BY <3>1
      <4>3. done' \in {done, done \cup {c}}
        <5>1. /\ \A x \in ClientIds \ {c} : x \in done' <=> x \in done
              /\ done' \subseteq ClientIds /\ done \subseteq ClientIds
          BY <1>1
        <5> HIDE DEF done
        <5>2. CASE c \in done'
          BY <5>1, <5>2
        <5>3. CASE c \notin done'
          BY <4>2, <5>1, <5>3
        <5> QED BY <5>2, <5>3
      <4> QED BY <3>1, <4>1, <4>3 DEF Promise!Make
    <3>2. CASE invoice' = invoice /\ invoice[c].docstatus = 1 /\ payment'[c] # 0
      <4>1. made' = made /\ made[c] # {} /\ c \notin undone
        BY <3>2
      <4>2. done' = done \cup {c}
        BY <1>1, <3>2
      <4> QED BY <4>1, <4>2 DEF Promise!Complete
    <3>3. CASE invoice' = invoice /\ payment' = payment
      BY <3>3
    <3> QED BY <1>3, <3>1, <3>2, <3>3
  <2>3. Promise!Tell(c) \/ Told' = Told
    <3>1. SUFFICES ASSUME NEW s \in Sales, invoice'[c].docstatus # 0,
                          invoice'[c].basket \in Free \/ payment'[c] # 0,
                          invoice'[c].basket = BasketOf[s], Told' = Told \cup {<<s, c>>}
                   PROVE  Promise!Tell(c)
      BY <1>3
    <3>2. c \in done' /\ BasketOf[s] \in made'[c]
      BY <3>1
    <3>3. <<s, BasketOf[s]>> \in {t \in Sales \X Baskets : t[2] = BasketOf[t[1]]}
      BY DEF Baskets
    <3> QED BY <3>1, <3>2, <3>3 DEF Promise!Tell, Told, Acked
  <2>4. Promise!Serve(c)
    BY <2>1, <2>2, <2>3 DEF Promise!Serve, Told, Acked
  <2> QED BY <2>4 DEF Promise!PromiseNext
<1> QED BY <1>2, <1>3

LEMMA SalesStutter ==
  ASSUME invoice' = invoice, Told' = Told,
         \A c \in ClientIds : payment'[c] = 0 <=> payment[c] = 0
  PROVE  UNCHANGED Promise!promiseVars
<1>1. {x \in ClientIds : /\ invoice[x].docstatus # 0
                         /\ invoice[x].basket \in Free \/ payment[x] # 0}'
       = {x \in ClientIds : /\ invoice[x].docstatus # 0
                            /\ invoice[x].basket \in Free \/ payment[x] # 0}
  OBVIOUS
<1> QED BY <1>1 DEF Promise!promiseVars, Told, Acked

LEMMA InitPromises == Init => PromiseInv /\ Promise!PromiseInit
<1> SUFFICES ASSUME Init PROVE PromiseInv /\ Promise!PromiseInit
  OBVIOUS
<1>1. TillsWait
  BY DEF Init, TillsWait
<1>2. Promise!PromiseInit
  BY DEF Init, Promise!PromiseInit, NoInvoice
<1> QED BY <1>1, <1>2, InitInv DEF PromiseInv

\* A request that ends without the acknowledgement of its sale.
LEMMA Unacknowledged ==
  ASSUME PromiseInv, NEW r \in Requests, pc[r] # "idle", invoice' = invoice,
         payment' = payment, Answer(r, "waiting") \/ Answer(r, "parked")
  PROVE  TillsWait' /\ UNCHANGED Promise!promiseVars
<1>1. job[r] \in Sales
  BY DEF PromiseInv, SaleInv, Serving
<1>2. TillsWait' /\ Told' = Told
  BY <1>1, AnswerWaits, NotTold
<1> QED BY <1>2, SalesStutter

LEMMA Unanswered ==
  ASSUME PromiseInv, invoice' = invoice, payment' = payment, answer' = answer,
         heard' = heard
  PROVE  TillsWait' /\ UNCHANGED Promise!promiseVars
<1>1. TillsWait' /\ Told' = Told
  BY DEF PromiseInv, TillsWait, Told, Acked
<1> QED BY <1>1, SalesStutter

LEMMA FoundPromise ==
  ASSUME PromiseInv, NEW r \in Requests, pc[r] # "idle", Found(r)
  PROVE  TillsWait' /\ UNCHANGED Promise!promiseVars
<1>1. CASE Refuse(r)
  BY <1>1, Unacknowledged DEF Refuse
<1>2. CASE UNCHANGED <<invoice, payment, review, allowed, tries, till>>
  BY <1>2, Unanswered DEF till
<1> QED BY <1>1, <1>2 DEF Found

LEMMA PostPromise ==
  ASSUME PromiseInv, NEW r \in Requests, Post(r)
  PROVE  TillsWait' /\ Promise!PromiseNext
<1>1. PICK s \in Sales : s = job[r]
  BY DEF PromiseInv, SaleInv, Serving, Post
<1>2. PICK c \in ClientIds : c = Key(r)
  BY <1>1, SalesAssumption DEF Key
<1>3. BasketOf[s] \in Baskets
  BY DEF Baskets
<1>4. /\ invoice[c].docstatus = 0 /\ payment' = payment /\ answer' = answer /\ heard' = heard
      /\ invoice' = [invoice EXCEPT ![c] = [docstatus |-> 1, basket |-> BasketOf[s]]]
      /\ invoice \in [ClientIds -> InvoiceDoc]
  BY <1>1, <1>2 DEF Post, till, PromiseInv, SaleInv, TypeOK
<1>5. /\ invoice'[c].docstatus = 1 /\ invoice'[c].basket = BasketOf[s]
      /\ \A x \in ClientIds \ {c} : invoice'[x] = invoice[x]
  BY <1>4
<1>6. TillsWait' /\ Told' = Told
  BY <1>4 DEF PromiseInv, TillsWait, Told, Acked
<1> QED BY <1>3, <1>4, <1>5, <1>6, KeepsSales

LEMMA PaidAlreadyPromise ==
  ASSUME PromiseInv, NEW r \in Requests, PaidAlready(r)
  PROVE  TillsWait' /\ Promise!PromiseNext
<1>1. PICK s \in Sales : s = job[r]
  BY DEF PromiseInv, SaleInv, Serving, PaidAlready
<1>2. PICK c \in ClientIds : c = Key(r)
  BY <1>1, SalesAssumption DEF Key
<1>3. /\ invoice[c].docstatus # 0 /\ invoice[c].basket = BasketOf[s]
      /\ BasketOf[s] \in Free \/ payment[c] # 0
      /\ invoice' = invoice /\ payment' = payment /\ Answer(r, "acked")
  BY <1>1, <1>2 DEF PaidAlready, Acknowledge, PromiseInv, SaleInv, PostedForThisSale, Total
<1>4. TillsWait'
  BY <1>1, <1>3, AnswerWaits
<1>5. Told' = Told \/ Told' = Told \cup {<<s, c>>}
  BY <1>1, <1>2, <1>3, NewlyTold
<1> QED BY <1>3, <1>4, <1>5, KeepsSales

LEMMA PayPromise ==
  ASSUME SnapshotIsolation, PromiseInv, NEW r \in Requests, Pay(r)
  PROVE  TillsWait' /\ Promise!PromiseNext
<1>1. PICK s \in Sales : s = job[r]
  BY DEF PromiseInv, SaleInv, Serving, Pay
<1>2. PICK c \in ClientIds : c = Key(r)
  BY <1>1, SalesAssumption DEF Key
<1>3. invoice[c].docstatus = 1
  BY <1>2 DEF Pay, PromiseInv, SaleInv, FreshView
<1>4. /\ invoice[c].basket = BasketOf[s] /\ invoice' = invoice
      /\ payment' = [payment EXCEPT ![c] = 1] /\ payment \in [ClientIds -> 0..2]
      /\ Answer(r, "acked")
  BY <1>1, <1>2 DEF Pay, Acknowledge, PromiseInv, SaleInv, PostedForThisSale, TypeOK
<1>5. payment'[c] = 1 /\ \A x \in ClientIds \ {c} : payment'[x] = payment[x]
  BY <1>4
<1>6. TillsWait'
  BY <1>1, <1>4, AnswerWaits
<1>7. Told' = Told \/ Told' = Told \cup {<<s, c>>}
  BY <1>1, <1>2, <1>4, NewlyTold
<1> QED BY <1>3, <1>4, <1>5, <1>6, <1>7, KeepsSales

LEMMA CancelPromise ==
  ASSUME PromiseInv, NEW c \in ClientIds, CancelInvoice(c) \/ CancelPayment(c)
  PROVE  TillsWait' /\ [Promise!PromiseNext]_(Promise!promiseVars)
<1>1. answer' = answer /\ heard' = heard
  BY DEF CancelInvoice, CancelPayment, till
<1>2. TillsWait' /\ Told' = Told
  BY <1>1 DEF PromiseInv, TillsWait, Told, Acked
<1>3. payment \in [ClientIds -> 0..2] /\ invoice \in [ClientIds -> InvoiceDoc]
  BY DEF PromiseInv, SaleInv, TypeOK
<1>4. CASE CancelInvoice(c)
  <2>1. /\ invoice[c].docstatus = 1 /\ invoice[c] \in InvoiceDoc
        /\ invoice' = [invoice EXCEPT ![c].docstatus = 2]
        /\ payment' = [payment EXCEPT ![c] = IF @ = 1 THEN 2 ELSE @]
    BY <1>3, <1>4 DEF CancelInvoice
  <2>2. /\ invoice'[c].docstatus = 2 /\ invoice'[c].basket = invoice[c].basket
        /\ payment'[c] = 0 <=> payment[c] = 0
        /\ \A x \in ClientIds \ {c} : invoice'[x] = invoice[x] /\ payment'[x] = payment[x]
    BY <1>3, <2>1 DEF InvoiceDoc
  <2> QED BY <1>2, <2>1, <2>2, KeepsSales
<1>5. CASE CancelPayment(c)
  <2>1. invoice' = invoice /\ payment[c] = 1 /\ payment' = [payment EXCEPT ![c] = 2]
    BY <1>5 DEF CancelPayment
  <2>2. \A x \in ClientIds : payment'[x] = 0 <=> payment[x] = 0
    BY <1>3, <2>1
  <2> QED BY <1>2, <2>1, <2>2, SalesStutter
<1> QED BY <1>4, <1>5

LEMMA StepPromises ==
  ASSUME SnapshotIsolation, PromiseInv, [Next]_vars
  PROVE  TillsWait' /\ [Promise!PromiseNext]_(Promise!promiseVars)
<1>1. ASSUME NEW r \in Requests, NEW s \in Sales, Send(r, s)
      PROVE  TillsWait' /\ UNCHANGED Promise!promiseVars
  <2>1. invoice' = invoice /\ payment' = payment /\ answer' = answer
    BY <1>1 DEF Send
  <2>2. heard' = [heard EXCEPT ![s] = r] /\ answer[s] = "waiting"
    BY <1>1 DEF Send
  <2>3. TillsWait'
    BY <2>1, <2>2 DEF TillsWait, PromiseInv, SaleInv, TypeOK
  <2>4. Told' = Told
    BY <2>1 DEF Told, Acked
  <2> QED BY <2>1, <2>3, <2>4, SalesStutter
<1>2. ASSUME NEW s \in Sales, TimeOut(s) \/ Expire(s)
      PROVE  TillsWait' /\ UNCHANGED Promise!promiseVars
  <2>1. invoice' = invoice /\ payment' = payment /\ answer' = answer
    BY <1>2 DEF TimeOut, Expire, database, till
  <2>2. heard' = [heard EXCEPT ![s] = None] \/ heard' = heard
    BY <1>2 DEF TimeOut, Expire, till
  <2>3. TillsWait'
    BY <2>1, <2>2 DEF TillsWait, PromiseInv, SaleInv, TypeOK
  <2>4. Told' = Told
    BY <2>1 DEF Told, Acked
  <2> QED BY <2>1, <2>3, <2>4, SalesStutter
<1>3. ASSUME NEW r \in Requests,
             \/ RefuseInput(r) \/ RefusePosting(r) \/ RefusePayment(r)
             \/ RecordConflict(r) \/ PaymentConflict(r) \/ PaymentFails(r) \/ Die(r)
      PROVE  TillsWait' /\ UNCHANGED Promise!promiseVars
  BY <1>3, Unacknowledged
     DEF RefuseInput, RefusePosting, RefusePayment, RecordConflict, PaymentConflict,
         PaymentFails, Die, Owing, Refuse, Fail
<1>4. ASSUME NEW r \in Requests, NamingRace(r)
      PROVE  TillsWait' /\ UNCHANGED Promise!promiseVars
  <2>1. CASE Fail(r)
    BY <1>4, <2>1, Unacknowledged DEF NamingRace, Fail
  <2>2. CASE UNCHANGED <<invoice, payment, review, allowed, till>>
    BY <2>2, Unanswered DEF till
  <2> QED BY <1>4, <2>1, <2>2 DEF NamingRace
<1>5. ASSUME NEW r \in Requests, FindExisting(r) \/ LostRace(r)
      PROVE  TillsWait' /\ UNCHANGED Promise!promiseVars
  BY <1>5, FoundPromise DEF FindExisting, LostRace
<1>6. ASSUME NEW r \in Requests, FindNone(r) \/ CollectIssues(r) \/ RecordIssues(r) \/ Reload(r)
      PROVE  TillsWait' /\ UNCHANGED Promise!promiseVars
  BY <1>6, Unanswered DEF FindNone, CollectIssues, RecordIssues, Reload, till
<1>7. CASE UNCHANGED vars
  BY <1>7, Unanswered DEF vars
<1> QED
  BY <1>1, <1>2, <1>3, <1>4, <1>5, <1>6, <1>7, PostPromise, PaidAlreadyPromise,
     PayPromise, CancelPromise DEF Next, Serve

\* Any number of tills, requests and sales under one client_id, with a database that
\* refuses a payment for an invoice that was cancelled meanwhile: what a client_id
\* promises is kept (create_sale as a whole).
THEOREM SalesAreAsPromised ==
  ASSUME SnapshotIsolation
  PROVE  Spec => SalesKeepTheirWord
<1>1. Init => PromiseInv /\ Promise!PromiseInit
  BY InitPromises
<1>2. PromiseInv /\ [Next]_vars => PromiseInv'
  BY StepKeepsInv, StepPromises DEF PromiseInv
<1>3. PromiseInv /\ [Next]_vars => [Promise!PromiseNext]_(Promise!promiseVars)
  BY StepPromises
<1> QED BY <1>1, <1>2, <1>3, PTL DEF Spec, SalesKeepTheirWord, Promise!PromiseSpec
=============================================================================
