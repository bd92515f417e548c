# Verification of ZatGo Core

ZatGo Core is a Frappe/ERPNext app: point-of-sale back ends for restaurants and
shops, courier deliveries, van sales, a task tracker, a chat assistant,
provisioning of hosted sites, and the settings and sync services around them.
Every operation is an HTTP request or a background job of a Python worker over
one MariaDB database and one Redis. What is hard in it is not the arithmetic but
what happens **between** requests: two tills checking out one order, a request
that dies between two of its commits, a till that sends a sale again because the
answer got lost, a document saved from a copy that has grown old. This directory
models that part of the program in TLA+, checks it with TLC and proves the
central invariants with TLAPS.

Paths below are relative to `src/zatgo_core/`, those of docs to `src/`. Every
modelled definition is tied to its source lines by the `map` of `PROJECT.json`;
the hazards the properties are aimed at are listed there with the line where
each bites.

- [The system](#the-system)
- [How a request is modelled](#how-a-request-is-modelled)
- [The modules](#the-modules)
- [What the runs show](#what-the-runs-show)
- [Where the code and its text disagree](#where-the-code-and-its-text-disagree)
- [What is proved](#what-is-proved)
- [What is not modelled](#what-is-not-modelled)
- [Plan](#plan)

## The system

| Component | State it keeps | Operations that change it | Hard behaviour | What makes it correct | Module |
|---|---|---|---|---|---|
| **Resto POS** `services/resto_pos_service.py` | ZG Order, ZG Table, its tickets, invoice and payment | create, edit, send, void, table status, billing, `pay` | `pay` runs over several commits and gives its row lock back at the first; whole-document saves from old copies | one invoice and one payment per order, for the items it has; a closed order is final; a table serves its order | `RestoCheckout` |
| **Client-id idempotency** `services/idempotency.py` | UNIQUE `zatgo_client_id` on what requests create | `insert_idempotent`, `submit_or_rollback` | the insert that loses a race rolls the whole transaction back, locks included | one document per id, and nobody told of it too early or wrongly | `OneDocument`, and in each that uses it |
| **Retail POS, offline sales** `services/{retail_pos_service,offline_sale}.py` | Sales Invoice, Payment Entry, ZG Offline Sale Issue per client_id | `create_sale` and its replay | three transactions; a naming race retried; a till that does not know what happened | an acknowledged sale is posted, is the till's own and is paid; every sale is answered; late sales are reviewed | `RetailSale` |
| **Delivery stops, couriers** `api/v1/delivery/` | ZG Delivery Stop, ZG Delivery Boy | create, assign, accept ... complete, fail, cancel | stops are checked on a copy and saved with a look at `modified`, couriers without one; a Desk form writes an old score back | closed stops stay closed, couriers keep to their stops, points match deliveries; a courier with work is not offered | `DeliveryStops` |
| **Kitchen display** `api/v1/resto_pos/kds_tickets.py` | ZG KDS Ticket | advance, recall, bump a station | a bump over a list that has changed | a dish takes one step at a time | `KdsTickets` |
| **Task tracker** `tracker/services/` | live timers, tasks, draft Timesheets | start, pause, resume, stop, review, assign | check-then-insert of the running timer; two saves of one Timesheet | one time log per stopped timer; a task keeps to its lifecycle | `TrackerSession` |
| **Chat assistant** `chat_ai/api/chat.py`, `erpnext/` | conversations, quota, confirmation tokens | turns in requests and jobs, Stop | a token read and deleted in two steps; errors that commit | a confirmed tool runs once, for whom it was confirmed | `ChatTurn` |
| **Scheduled tasks** `chat_ai/erpnext/scheduled_tasks.py` | AI Scheduled Task | tick, run now, job, form | overlapping ticks, lost jobs, dead workers, stale forms | an occurrence is queued once; a stuck task is released | `ScheduledTasks` |
| **ZatGo Space** `zatgo_space/api/v1/space.py` | orders that share a pool | order, callbacks of the provisioner | check-then-insert; late callbacks | the pool holds | `SpaceOrders` |
| **Subscription gate** `services/subscription_gate.py` | the subscription pushed into the site's configuration | `evaluate`, at requests and at each save | boundaries of days and grace; requests that run past midnight, on the configuration they began with | no edit after the end, none refused before | `SubscriptionGate` |
| **Invoices and payments** `services/erpnext_writes.py`, `invoice_cash_payment_service.py`, collections of `vansalex_service.py` | Invoices and Payment Entries | draft, submit, cancel, edit, delete; the automatic payment | drafts posted against what has been paid meanwhile; cancellations under the feet of payments | never overpaid; money for one invoice is not reversed with another | `Ledger` |
| **Returns** `erpnext_writes.py`, `vansalex_*` | credit and debit notes | return, replay, cancel | an item on several lines; concurrent returns | a return credits what was asked, a line no more than was sold | `Returns` |
| **Journal entries** `erpnext_writes.py` | Journal Entry | create, update, submit, cancel, delete | drafts that several have loaded to change, submit or delete | a posted entry stands | `Journal` |
| **Batch sync** `api/v1/sync/batch.py`, `services/{customer,item}_sync_*.py` | Customer and Item by client id | create, update, delete, in batches with a savepoint each | operations that commit destroy the savepoint; `base_modified` | committed records are whole; no lost update | `SyncBatch` |
| **VanSaleX** `services/vansalex_*.py` | orders, invoices, stock entries, route stops | sell, order, confirm, adjust, replay; plan, visit, reorder, link | queued calls sent again; the optimizer next to a visit | what the app was told is posted; a visit stands | `VanSales`, `VanRoute` |
| **Duplicate prevention** `services/duplicate/` | named locks, identifiers | the validate hook | check-then-insert under `GET_LOCK`, partly in the snapshot; transactions over several records; overrides | no two records with one identifier that nobody accepted | `DuplicateGuard` |
| **Settings, cache** `services/settings_service.py`, `cache/` | settings documents, Redis copies | read, save, invalidate, expire | copies deleted before the commit, stored after it, or not touched by a save at all | what readers get is current, at the latest after a bounded time | `SettingsCache` |
| **Invoice naming** `services/sales_invoice_naming.py` | rules, series, counters | save rules, name an invoice | counters whose names run into each other, some known only with the invoice and the day | a user is not stuck on a name that exists | `InvoiceNaming` |
| **App switches** `services/app_*.py`, `industries/`, `patches/` | the fields of ZG System Settings | switch, form, industry, migrate | one document holds all switches; forms older than its fields; patches in release order | the apps that are on are those asked for | `AppPlatform` |
| **Resto administration, payment allocation, ERPNext reads, MyBis, set-up, print formats, assets** | - | single documents, arithmetic, read only, or once | - | - | not modelled |

The parts meet in the database and through calls within a request: `pay` and
`create_sale` build on `idempotency.py`, on ERPNext's Sales Invoice and Payment
Entry and on `create_customer`; the Resto POS's kitchen tickets are what the
display moves; cancelling an invoice runs `before_cancel` of
`invoice_cash_payment_service.py`, which cancels its payments under the feet of
a checkout; an item synced with opening stock is committed by the van's
`adjust_stock`. Clients - tills, phones, kitchen displays - retry on their own,
with the client_id as the only link between two attempts.

## How a request is modelled

All modules share one view of the platform, taken from how the code uses it and
marked external in the map.

- **Requests** are a set of worker slots. A slot is idle or busy with one call;
  a new call may take an idle slot any time, so a run with two slots has
  arbitrarily many requests, two of them at once.
- **Transactions.** One action is what a request does between two points at
  which another request can be noticed: the read that takes the snapshot, a
  lock, a commit. Plain reads see the snapshot, a `FOR UPDATE` read and UNIQUE
  columns the latest committed row.
- **`Document.save()`** is refused when the row's `modified` moved since the
  load, and writes all columns from the copy; `db.set_value(...,
  update_modified=False)` writes one column and moves nothing. This difference
  is behind most hazards.
- **`SnapshotIsolation`** is MariaDB's `innodb_snapshot_isolation`, a constant:
  when it is on, a write or locking read of a row that somebody committed after
  the snapshot fails with error 1020. MariaDB 11.8, which
  `docs/duplicate_prevention.md` refers to, has it on; older versions do not.
- **Refusals and crashes.** Every guard that throws, every
  `TimestampMismatchError`, every error 1020 and every killed worker rolls the
  open transaction back and ends the request: one action per module
  (`EndRequest`, `GiveUp...`), possible at any time. `RetailSale` and `ChatTurn`
  keep them apart, since the till acts on the difference and the chat commits
  after most of them.
- **Accountants and managers in Desk** are actions of their own.

`RestoCheckout`, `DeliveryStops` and `RetailSale` carry this in full: the
snapshot (`view`), the rows whose `modified` moved (`bumped`) and those that
were written at all (`touched`). The others extend **`Backend`**, which has the
part they need: `Load(r, c)` begins a call that carries what it has read,
`Commit(r, c, saved)` ends a transaction that saved the documents `saved` and
goes on, `Done` ends the call, and `Fresh(r, d)` says that nobody has saved d
since r loaded it (`stale`). An update that passes `save()` is refused only if
`SnapshotIsolation /\ ~Fresh`. A call that a guard refuses on what it has just
loaded has no step: it leaves no trace.

Prices, taxes, names, notes, timestamps and response bodies are left out; what
remains of an amount is what the properties tell apart - free or owed, how much
of an invoice is paid, how many pieces of a line were returned.

## The modules

Definitions marked `Faulty:` are variants with a plausible mistake in them; each
property is tried against one and must fail.

### RestoCheckout - orders, tables and checkout

`order`, `table`, `ticket`, `invoice`, `payment` and `customers` are the
committed rows; `lock` the row lock of `pay`; `pc`, `job`, `doc`, `tdoc`, `view`,
`bumped`, `touched` belong to the requests.

| Action | Code |
|---|---|
| `LoadCreate`, `CreateOrder` | `create_order`: load the table, insert the order and occupy the table, in one commit |
| `LoseCreate` | the insert that lost to the same client_id: a rollback, after which the request occupies *its* table for the winner's order |
| `LoadOrder` | `_load_order` of every edit |
| `AddItem`, `UpdateItemQty`, `SetNote`, `SendOrder`, `VoidOrder`, `MarkBilling` | the functions of these names, each with its save and commit; `SendOrder` inserts the tickets of rows that have none yet, `VoidOrder` frees the table if it still serves the order |
| `LoadTable`, `SetTableStatus` | `set_table_status` |
| `LoadPay` | `pay`, up to the load of the order |
| `LockOrder` | the `FOR UPDATE` read of three columns and the guards after it |
| `ResolveCustomer` | `_resolve_pos_customer`, with the commit of `create_customer` when the customer is new |
| `PostInvoice` | insert, `set_value` of the link, submit, commit |
| `InvoiceExists`, `RelinkInvoice` | the lost insert (a rollback, which gives the lock back) and the link to the invoice found |
| `PaymentFound`, `PostPayment`, `PaymentExists` | the three ways to a Payment Entry |
| `SavePaid` | `doc.save()` with status Paid |
| `FirstRead` | the first read of a transaction after a commit in mid-request |
| `CancelInvoice`, `EndRequest` | see above |

`OrderLife` is the abstract specification: an order is `Absent`, `Open`, `Sent`,
`Paid` or `Void`, its bill `none`, `posted` or `cancelled`, and seven atomic
steps say what may happen to it. `RestoLife` maps `RestoCheckout` onto it: the
bill of an order is whatever Sales Invoice was made for it, and requests, locks,
snapshots and client_ids are forgotten. That `RestoCheckout` implements it
(`LivesItsLife`) is checked as a property and proved as a theorem.

### DeliveryStops - courier deliveries

`stop` and `boy` are the committed rows, a request is a load (`LoadCreate`,
`LoadAssign`, `LoadApply`) and a commit (`Create`, `Assign`, `ApplyStatus`).
`Transitions` is `_TRANSITIONS`; `ApplyStatus` stands for `_apply_status` and
all endpoints that call it, `CommitOnRoute` for a save followed by
`_set_boy_on_route`, `CommitClosed` for one followed by `_maybe_free_boy` and
`_award_delivery_points`. `OpenForm` and `SaveForm` are the courier's Desk form: it
writes every column, the score as it was when it opened and any status; the award,
which leaves `modified` alone, does not make it stale. No bounds: the score cannot
pass the number of stops. Scores that somebody types in are left out.

### RetailSale - counter and offline sales

`invoice`, `payment` and `review` are the rows, one each per client_id;
`answer` and `heard` are the till's side: what it knows of a sale, and which
request's answer it still waits for. A request goes through `find`, `insert`,
`collect`, `record`, `reload`, `pay`.

| Action | Code |
|---|---|
| `Send`, `TimeOut` | the till sends a sale (again), or stops waiting |
| `RefuseInput`, `RefusePosting`, `RefusePayment` | validation errors (417) before the lookup, while the invoice is built, and from the Payment Entry's insert; the till parks the sale |
| `FindExisting`, `FindNone` | the lookup under the client_id and `_check_replay` |
| `NamingRace` | error 1020 on the naming series: rollback, up to three attempts |
| `LostRace` | the UNIQUE client_id: roll back and take the winner's invoice, checked like a replay |
| `Post` | insert and submit in one commit, on `posted_now` |
| `CollectIssues`, `RecordIssues`, `RecordConflict`, `Reload` | `collect_issues`, the first read after the invoice's commit; `record_issues` with its commit, or error 1020 on the series that names all entries, which ends the request; and the reload of the invoice |
| `PaidAlready`, `Pay`, `PaymentConflict`, `PaymentFails` | the Payment Entry: found, posted, refused by the database, 503 |
| `Expire` | a limit, price or setting changes so that the sale is no longer allowed |
| `CancelInvoice`, `CancelPayment`, `Die` | the accountant; a killed worker |

### OneDocument - what a client id promises

The abstract specification of everything that is sent under a client id until it is
answered: under an id one document is made, for one content; it may be completed
and undone, and deleted while it is not complete or when it is undone; "ok" may be said
of a complete document to those it is for. Requests,
retries, rollbacks, lost races and killed workers are forgotten. `RetailSale`
(`Promise`: an invoice for a basket, complete when it is paid), `VanSales` (`Papers`:
a document of an owner for an order, complete when it is posted) and `Returns`
(`Credits`: a credit note for the pieces that were asked) each map their rows and
what their clients have heard onto it. That they implement it
(`SalesKeepTheirWord`, `PapersKeepTheirWord`, `CreditsKeepTheirWord`) is checked for
the former two and proved for all three.

### The back office, on `Backend`

A call is `Load...`, which reads and checks, and one or more actions that
commit; the names after the arrow are the latter.

| Module | Actions and code |
|---|---|
| `TrackerSession` | `LoadStart` → `Start` (`start_session`, with `mark_working_on_start`), `LoadResume`, `LoadPause` → `Turn`, `LoadStop` → `Stop`, with `_flush_to_timesheet`, → `StartNext` when the user switches tasks; `LoadMove` → `Move` for submit, approve, rework and complete (`review.py`), `Assign`, `Pass` of time |
| `ChatTurn` | `Send`, `TakeTurn` (a background job), then `ReadToken`, `SpendToken`, `RunTool`, `AnswerTurn`, `Ask`, `Persist` with `_record_usage`; `FailTurn` commits what the turn wrote, as `send` does, `KillTurn` does not; `Cancel`, `ExpireToken`, `ExpireStop`, `EditChat` |
| `ScheduledTasks` | `LoadTick` (releases stuck tasks, lists due ones) → `Tick` (`_claim`), `LoadRunNow` → `RunNow`, `TakeJob` → `StartRun` → `Record`, `LoadForm` → `SaveForm`; `LoseJob`, `Age`, `PassTime` |
| `SpaceOrders` | `LoadOrder` → `CreateOrder`; `LoadCallback`, `LoadUsage` → `SaveOrder` |
| `KdsTickets` | `LoadTicket` → `SaveTicket` (advance, recall), `LoadBump` → `Bump` |
| `SyncBatch` | `LoadBatch`, then per operation `CustomerOp`, `ItemOp` up to the first write → `InsertCustomer`, `InsertItem` (which commits in mid-operation when it has opening stock, → `SaveImages`), `SaveCustomer`, `SaveItem`, `Disable`, `SaveAttachments`; `FailOp` rolls back to the savepoint and goes on; `DeskEdit` |
| `Ledger` | `LoadPayment` → `Draft` → `Submit` (`_create_advance_payment`, `_try_auto_submit`), or → `Collect` (`create_collection`); `LoadSubmit`; `LoadPaymentDraft` → `SavePayment`, `DeletePayment`; `LoadCancelPayment` → `CancelPayment`; `CreateInvoice`; `LoadInvoice` → `SubmitInvoice` (with `create_cash_payment_entry`), `CancelInvoice` (with `cancel_linked_payment_entries`), `SaveDraft`, `DeleteDraft`. `Spread` is the loop that allocates an amount |
| `VanSales` | `LoadOrderPaper`, `LoadSale`, `LoadConfirm`, `LoadStock` → `Post`, or `LosePost` when the id was taken meanwhile; `LoadReplay` → `Replay`; `OfficeDraft` (`create_sales_invoice`), `LoadDelete` → `Delete` (`_delete_draft`), `DeskSubmit`, `DeskCancel`. `told` is what the app has heard of documents there are |
| `VanRoute` | `LoadTrip` → `CreateTrip`; `LoadVisit`, `LoadEdit` → `SaveTrip`; `ReorderTrips`; `LinkSale` |
| `Returns` | `OfficeReturn`, `VanReturn` (the two validations) → `PostReturn` or `LoseReturn`; `AnswerReplay`, `RefuseReturn`, `CancelReturn`. `Take` places a quantity on the lines of an item |
| `Journal` | `CreateEntry`, `SplitEntry`, `LoadSubmitEntry`, `LoadCancelEntry`, `LoadUpdateEntry` → `SaveEntry`; `LoadDeleteEntry` → `DeleteEntry`. `AccountsFit` and `RowsFit` are the rules of the voucher types |
| `SubscriptionGate` | `LoadWrite` (with the configuration the request reads once) → `SaveWrite`, again for each document; `Push`, `NextDay`; `Evaluate` is `evaluate`, compared with `RightsEnd`, its reference |
| `DuplicateGuard` | `LoadRecord` or, later in a transaction, `LoadAnother`; `TakeLock` one by one in the order of the names, `SaveRecord` (looks for twins: by a locking read where the spelling is the same, else in the snapshot; an override lets those through that it names, and is logged), `CommitRecord` and the release after it; `RefuseRecord`, `CancelRecord` |
| `SettingsCache` | `BeginRead`, `ServeCopy`, `Produce`, `Store` (`get_or_set`); `BeginSave` → `Save`, `CommitSave`, or, of writers that leave Redis alone, `SaveQuietly`, `CommitQuietly`; `RollBack`, `ClearCache`, `CacheTick` |
| `InvoiceNaming` | `LoadRule` → `SaveRule` (`validate_rules`), `ChangeOptions`, `LoadByRule`, `LoadByRequest` → `InsertInvoice`, `NextSeriesDay`. `PrefixesOf` are the counters a series takes, by day and invoice, `FoundFor` what `series_prefix` finds without an invoice. `CounterCollision` and `NameOf` are the code's functions over prefixes and padded numbers |
| `AppPlatform` | `LoadSwitch`, `LoadIndustry`, `OpenForm` → `SaveSettings` (validate and on_update of the controller); `SyncModels`, `EnableRestaurant`, `StoreDefaults`, `AdoptOldModules`: a migrate, patch by patch, and its after_migrate |

`MCRestoCheckout`, `MCRestoFloor`, `MCDeliveryStops`, `MCRetailSale` and `MCAppPlatform` hold the
constants and symmetries of their instances. The modules on `Backend` share no
documents, so `MCBackOffice` and `MCScheduled` check them as a sum: `part` is
chosen in the initial state, and the variables of all other parts stay as they
are. What each module promises holds of the sum exactly if it holds of its part.

Theorems are in modules of their own: `RestoCheckoutProofs`, `DeliveryStopsProofs`
and `RetailSaleProofs` are about the module they are named after, `LedgerProofs` about
`Ledger` and `VanSales`, `CommerceProofs` about `SpaceOrders`, `Returns`, `Journal` and
`VanRoute`, `PlatformProofs` about `KdsTickets`, `SubscriptionGate`, `DuplicateGuard`,
`AppPlatform`, `SettingsCache` and `InvoiceNaming`, `BackOfficeProofs` about
`TrackerSession`, `SyncBatch`, `ChatTurn` and the sum `MCBackOffice`, and
`ScheduledProofs` about `ScheduledTasks` and the sum `MCScheduled`.

## What the runs show

All runs are exhaustive; 6 hold and 6 end in a counterexample that contradicts a
text of the repository (next section).

| Run | Instance | States | Question, and answer |
|---|---|---|---|
| `resto_pay` | 1 delivery order, 2 client_ids, 2 requests at once, quantities to 2, snapshot isolation, customer on file | 481,000 | Do concurrent checkouts, edits, voids, cancellations and deaths keep the books right? Yes: one invoice (`OneInvoicePerOrder`), for the items the order has when it is posted (`InvoiceBillsTheItems`) and remembered by it (`InvoiceRemembered`), one payment (`NoDoublePayment`), no paid order without invoice and payment (`PaidOrderIsInvoiced`); every step refines `OrderLife` (`LivesItsLife`) |
| `resto_plain_db` | without snapshot isolation: the bill of 1 order, 2 client_ids, customer created by `pay`; and a floor of 1 table and 2 orders, one of them sent with the table and without; 2 requests | 3,956,000 | What does the look at `modified` guarantee by itself? Closed orders are final (`ClosedOrderIsFinal`), one ticket per row (`OneTicketPerRow`), and a table that names an order serves one that is open on it (`TableServesItsOrder`) - as long as a client_id is sent for one table only: the loser of the insert seats the winner's order at its own |
| `delivery_rewards` | 3 stops and 2 couriers, one request at a time and no Desk form; once two have overlapped or a form was opened, 2 stops of 1 courier; snapshot isolation | 1,216,000 | Does each request reward exactly the delivery it completes (`DeliveryIsRewarded`), do closed stops stay closed (`ClosedStopIsFinal`)? Yes; a saved form puts back the score it shows. Is a courier with a stop to deliver ever offered as available? Only since two requests about him overlapped, which can miss each other's stop on any database, or Desk set him Available at work; with his next work he is busy again (`BusyUnlessExcused`) |
| `retail_sales` | 2 of 3 sales: under one client_id by mistake, one of them free; or two offline ones under their own; 2 requests, 1 lost answer, 1 break; fair | 498,000 | Does every client_id keep its word: one invoice of one basket, no till told that another's sale is its own or that an unpaid sale is done (`SalesKeepTheirWord`)? Yes. Does a payment outlive its invoice (`PaymentNeedsInvoice`)? No. Is every sale eventually acknowledged or refused (`SaleIsAnswered`)? Yes. Is an offline sale that needs it reviewed (`MissedOnlyInARace`)? Yes, unless its worker dies or another sale's entry was opened since its transaction began, which takes the number of its own |
| `back_office` | two requests at a time on timers (2 users, 2 tasks, 3 timers), chat (1 conversation, owner and manager, 1 token), sync (a customer, and an item with opening stock, 2 operations a batch), invoices (2 of total 2, one self-paying, 2 payments to 3), van sales (2 users, 1 order id, 2 invoice ids) and van stock | 1,573,000 | Timers: one time log per stopped timer (`StoppedOnceBilled`), one running timer per careful user (`SingleActive`), tasks keep their lifecycle (`TaskLife`). Chat: a confirmation is spent once (`TokenOnce`). Sync: whole records (`StoredWhole`), no lost update (`NoLostUpdate`). Money: never overpaid (`NeverOverpaid`), never reversed with another invoice (`MoneyIsKept`). Van: an id stands for one document at a time, of one owner, nobody else is told of it, nor its owner before it is posted, and none that stands is deleted (`PapersKeepTheirWord`) |
| `scheduled_tasks` | 1 scheduled task, under fairness; and 3 hosts on a pool of 1, 2 tickets of 1 station, 2 returns on 3 lines that hold one item twice, 1 voucher to amount 2, 1 stop with 1 sale, 2 records with 2 identifiers (one of them always spelt alike) and 1 override or cancellation, 3 days and a day of grace, one cached key of each kind over 4 ticks, 4 series on 2 days for 2 users with numbers to 3, 3 apps, one of them adopted, and 2 industries | 1,507,000 | A stuck task is released (`StuckPlanIsReleased`), an occurrence queued once (`OccurrenceOnce`), a failing task switched off (`FailingPlanIsOff`). The pool holds (`PoolHolds`), dishes take one step at a time (`OneStepAtATime`), returns credit what was asked (`ReturnedAsAsked`), posted entries stand (`PostedEntryStands`), visits stand (`VisitStands`), no duplicates but those an override names (`NoTwins`), no edit once a subscription has ended that the request began with (`NoEditAfterTheEnd`), cached settings are current at once after a save that told Redis and in bounded time after any other (`ServedIsCurrent`), names are free of the counters the rules were compared with (`NextNumberIsFree`), switches are as asked (`SwitchesAsAsked`) |
| `resto_new_customer`, `resto_cod_after_card` | as `resto_pay`, the former with an unknown customer | violation | see below |
| `retail_review_lost`, `retail_parked_unpaid` | 1 sale | violation | see below |
| `journal_sides` | 1 voucher to amount 2 | violation | see below |
| `app_lost_in_migrate` | 3 apps, a restaurant's site before release 0.4.0 | violation | see below |

`BackOfficeTypeOK` and `ScheduledTypeOK` are the type invariants of all parts.

**Why the bounds are enough.** The races of this code are between a request that
holds an old copy or snapshot and one that commits meanwhile: two slots, each
reused for any number of requests, have every such pair, and a killed request
leaves its slot to the retry. Two client_ids make a checkout meet one of its
own kind under the same and under another key. One order suffices where
requests meet only on one order; tables need two orders on one table, rewards two
stops of one courier, payments two invoices they can be spread over and two
payments that compete for them, a batch two records, of which one commits early.
Quantities to 2 let an item change after it was loaded, amounts to 3 over
invoices of 2 leave an advance. Three timers are needed for a switch (which
stops one and starts another) that overlaps another stop. Revisions to 3 let a
record be saved twice behind a batch's back (one at a time: `SyncPart`). A pool of 1 with three hosts shows
how far concurrent orders exceed it. Time is counted in the units the code
compares: days for the gate, occurrences for scheduled tasks, longest requests
for the cache.

Every bound is a constant or named in the configuration: `MaxQty`, `MaxTimeOuts`,
`MaxBreaks`, `MaxRev`, `MaxOps`, `MaxPay`, `MaxQueue`, `MaxTime`, `MaxJobs`, `MaxEdits`,
`MaxAsk`, `MaxAmount`, `MaxSeq`, `MaxDay`, `MaxGrace`, `MaxClock`, `LastDay`, `MaxNumber`.
`MaxTries` and `MaxFailures` are the code's own.

The modules named `MC...` narrow some instances further, to keep a run below
five minutes, each with its reason beside it: `Timers`, `SyncPart`, `LedgerPart`,
`VanPart`, `Apart` (the bill and the floor of `resto_plain_db`, which share nothing, an
action constraint), `SpaceOneCallback`, `GuardPart` (one override or cancellation; one
transaction goes on to a second record), `GateAlone`, `OneForm` (a form next to one
request, which flips one box of each kind), `OneKey`, `NamingPart`; in
`MCRetailSale` invoices and payments are cancelled only where all the sales under way
are of that client_id; in `MCDeliveryStops` two requests that overlap, or a
courier's form beside a request, meet on two stops of one courier. What is left
out there is covered by the theorems, which are about the modules themselves.

**Symmetry** is used over model values that no definition singles out, and only
in runs without liveness properties. `scheduled_tasks` and `retail_sales`, which
check liveness, use none.

**Fairness** is assumed in two runs only.
- `retail_sales`: `WF(Serve(r))`, a worker serves its request to an answer
  unless it dies, which `Die` allows `MaxBreaks` times; `WF` of sending a sale, as
  the client contract has it (`services/offline_sale.py:39`, "the caller retries
  the same client_id"). Nothing is assumed of time-outs, breaks and
  cancellations. The bounds on the former two say that the network and the
  workers fail only finitely often; without that nobody could promise an answer.
- `scheduled_tasks`, of the scheduled tasks alone: the scheduler's cron keeps
  ticking and its ticks are not kept out for ever (`SF` of `LoadTick`), time
  passes (`WF` of `Age`), and every request ends, if only by being killed (`WF` of
  `GiveUpPlan`). Jobs may get lost and workers die any number of times.

**Deadlock** is checked in the Resto and Delivery runs, where a new request can
always arrive. In the others the system may really stop: all sales are answered
and there is nothing left to cancel, all ids are used, the last day has come.

## Where the code and its text disagree

Each is a run that TLC ends with a counterexample, and a finding in
`PROJECT.json` with the quoted line.

- `resto_new_customer` / `OneInvoicePerOrder`: the comment at
  `resto_pos_service.py:612` promises one checkout per order at a time, but
  creating the customer (line 634) commits and gives the row lock back. Two
  tills with client_ids of their own then post two invoices.
- `resto_cod_after_card` / `CodIsUnpaid`: line 685 says money that was not
  collected yet is not recorded, the courier settles it. An order whose card
  payment was recorded by a request that died, sent again as cash, closes as
  unpaid.
- `retail_review_lost` / `LateSaleIsReviewed`: `offline_sale.py:3` promises a
  review entry for a late sale. The invoice is committed before the entry; a
  worker that dies in between leaves none, and the replay does not open it. Nobody
  needs to die: all entries take their names from one series
  (`zg_offline_sale_issue.json:4`), and `record_issues` catches a taken client_id
  only, not error 1020 when another sale's entry was opened meanwhile.
- `retail_parked_unpaid` / `UnpaidIsPending`: `offline_sale.py:39` promises a
  503 while the invoice is posted and the payment is not. Only the submit of the
  Payment Entry is guarded; an insert that is refused answers 417, upon which
  the till parks the sale.
- `journal_sides` / `OppositeSides`: the docstring at `erpnext_writes.py:1664` has
  every line that is not of Cash or Bank on the other side of the voucher. Line
  1698 compares the sets of sides only, so that a line on both sides among them
  lets an entry through that has such a line on the side of the cash.
- `app_lost_in_migrate` / `DefaultOnStays`: `app_state.py:9` promises that a site
  that migrates keeps running the apps that are on by default. The patch
  `v0_4_0/enable_restaurant_where_used.py` saves the whole settings when the
  fields of later releases are there already, which stores 0 in them; the later
  patches, which store the 1 where nothing is stored, find something stored.

Seen while modelling, without a run:

*With a text that can be read otherwise.*
- `chat_ai/erpnext/confirmation_tokens.py:42` reads a token and deletes it in two
  steps, so that two sends of one token at the same moment both run the tool;
  `chat_ai/tests/test_security.py:154` tests that a token is spent once, one send
  after the other. `TokenOnce` holds for clients that wait for each answer
  (`DoubleClicks = FALSE`) and fails with `TRUE`.
- `services/customer_sync_ops.py:146`: "create is idempotent". A create of a client
  id that exists is an update with its payload, without a look at `modified`.
- `docs/api.md:27` on clearing the cache; `clear_all_core_cache` leaves the entries
  of companies, branches, user preferences and component state.
- `services/idempotency.py:44` has the loser of an insert return the winner's
  document; `create_order` (`resto_pos_service.py:283`) goes on with it and seats it
  at the loser's own table, where it may never have been.
- `zg_delivery_boy.json:81` gives 10 points per successful delivery. The award
  leaves `modified` alone, so that a courier's form opened before it can be saved
  after it, with the score it shows: `DeliveryIsRewarded` allows a form that.
- `services/duplicate/enforcement.py` says (lines 6 and 183) that two concurrent requests
  cannot both pass and cannot deadlock each other. The former holds where the
  identifier is spelt alike; a respelling is looked for without a lock
  (`matcher.py:87`) and may be missed. The latter holds of transactions that save
  one document (`WaitsGoUp`); locks are kept to the end of one that saves several.

*Without.*
- Items changed between the invoice and a retried payment are never billed
  (`add_item` and `update_item_qty` refuse only Paid and Void orders). An order can
  be closed on an invoice that was cancelled in the meantime, which is why
  `OrderLife` lets `Close` follow `CancelBill`.
- `give_to_delivery` (`resto_pos_service.py:490`) creates the stop, which commits,
  before it saves the order: a second click or a crash in between makes a second
  stop, and a checkout that closes the order meanwhile leaves the stop "COD".
- The limits of an offline sale are checked before its client_id is looked up, so
  a posted and paid sale can be refused when it is sent again.
- Two overlapping requests can leave a courier with work as Available, under
  snapshot isolation too: each reads the other's stop and writes its own row. So
  can Desk, which may set any status at any time.
- A late callback revives a Failed Space order, whose share of the pool was given
  away; `PoolHolds` is checked without (`Revives = FALSE`).
- A replayed stock entry or sales order of the van app is acknowledged even if it
  was cancelled since; an invoice is not (`Replay`). A sale
  sent under a second id is stopped only by ERPNext's check for over-billing, and
  a quotation turned into an invoice has no client id at all: a retry drafts two.
- The chat quota is checked at the start of a turn and counted at its end; turns
  under way at once pass it together.
- A naming series that is added to the options after the rules were saved is
  compared with them only at the next save of the rules, and one whose prefix depends
  on the invoice, or on a later day, is compared as it is on that day without one, or
  left out. `NextNumberIsFree` speaks of counters the rules were compared with.
- A draft invoice made under a client_id can be deleted, upon which the id
  makes a second, perhaps different, document. `OneDocument` allows an id that
  after a deletion: nobody was told of the first.
- `plugin_registry_service.py:137` and the Desk form of a settings section change
  the row and leave the copy in Redis, which is served for up to `TimeToLive` more.
- `subscription_gate.py:83` reads the configuration the request began with: one that
  began before an end was pushed still saves after it.
- `OneStepAtATime`, `VisitStands` (its sale link), `PaymentNeedsInvoice`,
  `DeliveryIsRewarded` and the checkout properties need snapshot isolation; setting
  `SnapshotIsolation = FALSE` in a configuration shows how each fails without:
  a void erases the link to an invoice, one of two overlapping rewards is lost, a
  bump serves a dish that was recalled.

## What is proved

Every property that a run checks, its liveness apart, is a theorem, for any
numbers of orders, tables, stops, couriers, sales, client_ids, tickets, records,
invoices, payments, amounts, days, users, tasks, timers and requests, from the named
assumptions on the constants only (documents of different kinds have different
names, `None` is none of them, the constant functions and the bounds have their
types) and the hypotheses in the last column. TLC
evaluates the assumptions in every run.

| Module | Theorem | States | Assumes |
|---|---|---|---|
| `RestoCheckoutProofs` | `EditInvariant`, `TypeCorrect` | `Spec => []EditInv`, `Spec => []TypeOK` | - |
| | `TicketsAreUnique` | `Spec => []OneTicketPerRow` | - |
| | `ClosedIsFinal` | `Spec => ClosedOrderIsFinal` | - |
| | `TablesServeTheirOrders` | `Spec => []TableServesItsOrder` | - |
| | `VoidsKeepOthersTables` | a void never frees a table that serves another order | - |
| | `InvoicesAreRemembered` | `Spec => []InvoiceRemembered` | `Regime` |
| | `OrdersAreInvoicedOnce` | `Spec => []OneInvoicePerOrder` | `Regime` |
| | `NothingIsPaidTwice` | `Spec => []NoDoublePayment` | `Regime` |
| | `PaidOrdersAreInvoiced` | `Spec => []PaidOrderIsInvoiced` | `Regime` |
| | `InvoicesBillTheItems` | `Spec => InvoiceBillsTheItems` | `Regime` |
| | `OrdersLiveTheirLife` | `Spec => LivesItsLife`: `RestoCheckout` implements `OrderLife` | `Regime` |
| `DeliveryStopsProofs` | `StopInvariant` | `Spec => []StopInv` | - |
| | `ClosedForGood` | `Spec => ClosedStopIsFinal` | - |
| | `CouriersKeepToTheirStops` | a courier's change is saved only while the stop is his | - |
| | `DeliveriesAreRewarded` | `Spec => DeliveryIsRewarded` | `SnapshotIsolation` |
| | `CouriersAreBusy` | `WatchedSpec => []BusyUnlessExcused` | - |
| `RetailSaleProofs` | `SaleInvariant` | `Spec => []SaleInv` | - |
| | `AcksAreRight` | `Spec => []AckIsTrue` | - |
| | `SalesAreAsPromised` | `Spec => SalesKeepTheirWord`: `RetailSale` implements `OneDocument` | `SnapshotIsolation` |
| | `PaymentsFollowInvoices` | `Spec => []PaymentNeedsInvoice` | `SnapshotIsolation` |
| | `LateSalesAreReviewed` | `Spec => MissedOnlyInARace` | `OneSaleEach`: no two sales share client_id and basket |
| `LedgerProofs` | `InvoicesAreNeverOverpaid` | `LedgerSpec => []NeverOverpaid` | `SnapshotIsolation` |
| | `MoneyStaysKept` | `LedgerSpec => MoneyIsKept` | `SnapshotIsolation` |
| | `VanInvariant`, `ToldIsPostedAlways` | the inductive invariant, `ToldIsPosted` | - |
| | `PapersAreAsPromised` | `VanSpec => PapersKeepTheirWord`: `VanSales` implements `OneDocument` | `SnapshotIsolation` |
| `CommerceProofs` | `ReturnsAreAsAsked` | `ReturnsSpec => []ReturnedAsAsked` | `SnapshotIsolation` |
| | `CreditsAreAsPromised` | `ReturnsSpec => CreditsKeepTheirWord`: `Returns` implements `OneDocument` | - |
| | `PoolIsBounded` | `SpaceSpec => []PoolHolds` | - (`PoolHolds` itself asks for `~Revives`) |
| | `JournalInvariant` | the inductive invariant | - |
| | `PostedEntriesStand` | `JournalSpec => PostedEntryStands` | `SnapshotIsolation` |
| | `RouteInvariant`, `VisitsStand` | the inductive invariant, `VisitStands` | `SnapshotIsolation` |
| `PlatformProofs` | `DishesTakeOneStep` | `OneStepAtATime` | `SnapshotIsolation` |
| | `GuardInvariant` | the inductive invariant | - |
| | `NoDuplicates` | `GuardSpec => []NoTwins` | `SnapshotIsolation`, or a DocType that cannot be submitted |
| | `NobodyWaitsInACircle` | `GuardSpec => []WaitsGoUp`: whoever is waited for, at the first record of its transaction, waits for a later name | - |
| | `GateTypes` | types | - |
| | `TheSiteKnowsItsEnd` | read-only exactly from the end of what was last pushed, for all dates and every grace | - |
| | `NothingIsEditedAfterTheEnd` | `NoEditAfterTheEnd` | - |
| | `SwitchesStayAsAsked` | `SwitchesAsAsked` | `~KeepsRestaurant` |
| | `CopiesAreServedCurrent` | `CacheSpec => []ServedIsCurrent` | - |
| | `NextNumberStaysFree` | `NamingSpec => []NextNumberIsFree` | - |
| `BackOfficeProofs` | `TrackerInvariant` | the inductive invariant | - |
| | `TimersAreBilledOnce` | `StoppedOnceBilled` | - |
| | `CarefulUsersHaveOneTimer` | `SingleActive` | - |
| | `TasksKeepTheirLife` | `TaskLife` | - |
| | `SyncInvariant` | `SyncSpec => []SyncInv` | - |
| | `CommittedIsWhole` | `StoredWhole` | - |
| | `NobodyIsOverwritten` | `NoLostUpdate` | - |
| | `ConfirmedToolsRunOnce` | `ChatSpec => TokenOnce` | `~DoubleClicks` |
| | `NothingRunsUnconfirmed` | `ChatSpec => [][AsConfirmed]_ran`: a tool runs for a turn that spent a token issued for it | - |
| | `BackOfficeTypes` | `BackOfficeSpec => []BackOfficeTypeOK` | - |
| | `BackOfficeIsRight` | the other properties of the run, of the sum | `SnapshotIsolation`, `~DoubleClicks` |
| `ScheduledProofs` | `FailingPlansAreOff` | `PlanSpec => []FailingPlanIsOff` | - |
| | `OccurrencesAreQueuedOnce` | `PlanSpec => []OccurrenceOnce` | `SnapshotIsolation` |
| | `ScheduledTypes` | `ScheduledSpec => []ScheduledTypeOK` | - |
| | `ScheduledIsRight` | the other safety properties of the run, of the sum | `SnapshotIsolation`, `~KeepsRestaurant` |

`Regime` is what the checkout properties need, and the counterexamples above show
that they do: snapshot isolation, every customer on file (creating one gives the
lock away), and a client_id used for one order only. The other hypotheses are those
under which the runs check the property, too: `app_lost_in_migrate` is the
counterexample without `~KeepsRestaurant`; without `~DoubleClicks` two sends of one
token at the same moment both run the tool; without snapshot isolation two requests
allocate the same rest of an invoice. The counting arguments need finitely many
requests, hosts, payments, lines and plan sizes.

**The arguments.** That a ticket is unique, or a closed order final, is not
inductive: a request may hold any copy. Each proof adds what makes optimistic
locking work - *as long as nobody has saved a document, the copy a request holds
agrees with it* - and what a request was found to be entitled to.

*Resto, any database.* `EditInv` has that agreement for every column that no
`set_value` writes (`CopyIsCurrent`); a checkout past its locking read works on an
order that is not closed (`JobOK`); a paid order names its invoice
(`PaidNamesInvoice`), which is what the guard of `LockOrder` tests; and an order
that does not exist yet has no rows in the kitchen (`AbsentIsBlank`). `SeatInv`
adds what a table and the order on it know of each other, in rows and in copies.

*Resto, under `Regime`.* The properties of the checkout speak of three tables at
once. `LinkInv` ties an invoice to the order that names it (`Linked`), says what a
request may hold as that link (`LinkOK`: the order's, while it has the lock or
nobody wrote the order) and what a checkout knows at each of its points
(`CheckoutOK`: between the lock and the commit of the invoice nobody else's invoice
is there). `MoneyInv` adds the payments; `FreshInv` that a save of the order is
noticed by a checkout before its invoice is posted, which is where error 1020
comes in; `ReadInv` what was read for the bill. `AllInv` is their conjunction. The
refinement has one lemma per action: each is one of the seven steps of
`OrderLife`, or leaves its variables as they are.

*Delivery.* `StopInv` is the agreement for stops, with `CheckedOwner`: a courier at
work was found to be the owner of the copy he holds, so if his save goes
through, of the row. For the rewards, every commit is shown to be that of one stop
and of the courier the request looked at (`CommitsAreOfTheirCourier`), and the score
it adds to is the stored one or the write is refused; a form is allowed to put
back what it shows. `BusyInv` is about a history variable, the couriers that are
`excused`: of every other one at most one request is under way, he is busy if he has
an active stop, and what that request saw of his stops is still so.

*Retail.* `SaleInv` adds that a request past the insert works on an invoice of
its own basket (`PostedForThisSale`: `_check_replay` on both paths, and baskets
of a client_id's invoice never change), and that one which would pass error
1020 has the current invoice in its snapshot (`FreshView`), which carries
`PaymentNeedsInvoice` and, in the refinement, that no payment completes an invoice
that was cancelled. `MissedOnlyInARace` is about steps: the request that posts
goes on to record, and leaves that point without an entry only if it dies, or if error
1020 meets it, which takes an entry opened since its snapshot.

*Tracker.* The invariant relates each timer to its log: one that is stopped has
exactly one, in its owner's Timesheet, and a call that is going to stop a timer has
either seen that nobody did, or will fail at its save; and for a careful user, that
what a start found (no timer) is still so, since only that user starts timers.

*Sync.* `SyncInv` carries the agreement through a whole batch: the snapshot is as
old as the last commit, and `SaveReady` says that an operation that passed the
comparison with `base_modified` will save over that very version, or not at all.

*Duplicates.* `GuardInv`: a transaction holds the locks of all it saved, so that no
other saves one with the same identifier before it has committed; what shares an
identifier with a record it saved was accepted by an override in its log; and a
record that is live without being so in its snapshot has moved since, which error
1020 notices where the look at the status does not. `NobodyWaitsInACircle` is
about the order in which locks are taken, and about requests at their first record
only: later ones start over in that order with locks in hand.

*Ledger.* `LedgerInv` says of each request what its reading is still worth: the
document it is about is a draft or is posted as it found it unless somebody saved
it, and what it is about to allocate to an invoice is outstanding as long as
nobody touched that invoice (`SubmitFits`, `CollectFits`). A posting or cancelling
marks the invoices it settles in every other request, error 1020, so that two
requests never both take the same rest. The allocation itself (`Spread`) never
gives an invoice more than its rest nor all invoices together more than the money.

*Returns.* A return that would still be posted knows what the lines have left
(`LeftFits`); `Take`, which fills the lines of an item in their order, takes in sum
what was asked if that is there, and from no line more than it has.

*Pool.* Everybody who asks was let in while less than the pool was allocated, but
does not count the others: `Allocated + Asked <= Most` is inductive, where `Asked`
sums over the requests under way. A late callback, without revival, never raises
what is allocated (`CallbackFits`).

*Journal, van, route.* What a request loaded as a draft is still so unless it was saved
since, which a save notices by `modified` and a delete, which does not look, by
the database (`LoadedAs`, `EntryMoves`). A replay under way is of a document its user
may have, and no step but a deletion takes a document, its owner or its being posted
back (`PapersStay`). A copy of a trip that
would still be saved has the sale of the stop (`CopyHolds`), which needs the
database, since the link does not move `modified`.

*Apps.* Until their defaults are stored, the fields of later releases hold nothing
(`StoredSoFar`); what the after_migrate adopts counts as asked for; every save under way writes, over the switches it does not mean
to change, what is there (`SavesWhatIsAsked`), or is refused.

*Gate.* `TheSiteKnowsItsEnd` is arithmetic over the dates: `Evaluate`, with its four
cases, equals the reference definition `RightsEnd`. For `NoEditAfterTheEnd` it is
enough that what a request works with is a subscription the site had when it began.

*Cache.* A copy that differs from the table was read before the last save ended and
was overlapped by it, so that it expires in time (`Outlived`), and so does what a
reader still holds (`ReadsAreKnown`). `OneHolds`: at most one request at a time has
saved a row and not yet ended, which is the lock on the row. A save that Redis never
hears of counts as an overlapped one.

*Names.* `Made` says that each name comes from its counter at a number not beyond
the counter; the counters a rule was compared with are those `series_prefix` found on
the day it was saved. The rest is arithmetic over any base: a number is determined by its
digits in whatever width (`DigitsTell`), and two names that are the same have the
same prefix and number, or the longer prefix is the shorter one and then only
digits, which is `CounterCollision` (`NamesTell`).

*Scheduled tasks.* `OnceInv`: every occurrence queued lies before the next one of the
row, and before what a tick, a "run now" or a form would write back if nobody has
saved the row since (`HoldsStill`). `FailInv` keeps only that a form that can still be
saved shows no third failure.

*Chat.* `ChatInv` is inductive whatever clients do: a turn that may run its tool has
spent a token that was issued for it (`IsFor`), which is `NothingRunsUnconfirmed`.
Where clients wait for their answers, a token is moreover carried by at most one turn,
waiting or running (`OneCarrier`), and has not run, which is `TokenOnce`.

*Sums and recursion.* `SumFunctionOnSet` of the community modules is a fold, whose
recursion the provers cannot look into, and the induction theorems of the library
cannot be instantiated. `LedgerProofs` shows instead, with a least counterexample
(`WFMin` over the natural numbers), that a recursive function satisfies its equation,
and that the sum is the cardinality of a set of pairs (`Units`); the theorems about
cardinalities give the rest. `Shifted` of `InvoiceNaming` is treated alike.

*One document.* The three refinements have one lemma per action: it makes, completes
undoes or deletes the document of one id, says "ok" of it, or leaves all four variables
of `OneDocument` as they are. For the returns that needs no regard to snapshots,
since a UNIQUE client id is read from what is committed. For a sale, whose payment
follows in a transaction of its own, it does, and for the van, where a deletion
looks at nothing again after its load.

*The sums.* A behaviour of `MCBackOffice` or `MCScheduled` is, for each part, either one
of that part's own specification or one in which the part rests (`TimersHold`,
`ChatHolds` and so on rest on a lemma `...InTheSum` each): the choice of `part` never
changes, and what the sum narrows, `LedgerPart` for instance, only leaves steps out.
Whatever is proved of the parts then holds of the sum, as the theorems say. The types
of the sums need neither snapshots nor careful clients: where the invariant of a part
rests on them, an inductive invariant about types alone (`LedgerTyped`, `KdsTyped`,
`RouteTyped`, `AppTyped`, `CreditsInv`) does without. That of the ledger is not only
types: a payment that is fresh to a request that posts or cancels it exists
(`Stands`), without which the save of a deleted payment would have no type.

**Only model-checked.** Liveness under fairness (`SaleIsAnswered`,
`StuckPlanIsReleased`) is out of the proof system's reach, as would be statements
about ENABLED, so the fairness of `MCScheduled` is not used in any proof. Beside the
theorems named here each module has the lemmas they rest on, with the types as the
first conjunct of each inductive invariant. No module declares a RECURSIVE operator.

## What is not modelled

The map covers about an eighth of the repository's implementation lines. The
rest is, for the most part, code without a protocol: print formats (HTML and CSS
in Python strings), Desk scripts and themes, reports and other reads, set-up, demo
data and one-time patches, field lists of DocTypes, model providers, prompts and
skills of the assistant, and the CRUD screens of administrators, which save one
document per call.

Within the modelled components:

- amounts, taxes, discounts and currencies beyond what is owed; item lists beyond
  quantities; names, notes, proof-of-delivery fields; reads and reports;
- `give_to_delivery` of the Resto POS: nothing in the code says what a second click
  should do (see above), so there is no property to check it against;
- permissions beyond ownership of a stop, a timer, a conversation or a document;
- in `DeliveryStops`, a score typed into the courier's form;
- in `DuplicateGuard`, the normalisation of identifiers and the similarity scores, rules
  that only warn, a check that fails and lets the save pass, lists of matches cut at
  `result_limit`, duplicates from before the rule, and that an override is used once;
- in `InvoiceNaming`, users that are blocked, amendments and rules switched off;
- in `ChatTurn`, streaming, memory, attachments, knowledge and the tools that only
  read: a turn may ask for any tool that writes;
- in `TrackerSession`, the org tree (ERPNext's nested set guards it), projects,
  reports and notifications;
- in `SyncBatch`, which fields are written, the duplicate checks on mobile numbers,
  tax numbers and barcodes (an operation they refuse leaves no trace), and the
  version of an attachment: an update that brings attachments only writes them
  without a look at `modified`;
- in `AppPlatform`, the Redis copy of the settings, the plugin registry, Desk
  entries, Module Defs and roles, and industries that require another (none that is
  registered does). A migrate runs with requests drained and Desk forms open, and
  a saved Single writes 0 for a Check field without a value;
- in `SettingsCache`, the registry of sections and the import of profiles.

The state of each component, and the reason where it is not modelled at all, is in
`PROJECT.json`.

## Plan

What would come next, in this order:

1. `give_to_delivery`, once it is decided what a second click means: a composition
   of `RestoCheckout` and `DeliveryStops` with the promise that an order is handed
   over once.
2. `Ledger`, `Journal` and `SyncBatch` as implementations of `OneDocument`, which
   leaves no trace of what their clients were told in the models so far.
3. What is left of `PoolHolds` with `Revives = TRUE`, as a theorem.
4. Several scheduled tasks at once in a run; the theorems hold for any number.
5. A client_id used for two orders (a second `KeysOf` of `RestoCheckout`).
6. The provisioning agent of ZatGo Space as a module of its own.
