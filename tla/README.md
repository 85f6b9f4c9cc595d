# A formal model of the Sanfaani store backend

TLA+ modules, TLC configurations and TLAPS proofs about the backend in `src/`:
an Express application over MongoDB that sells stock, takes payments and gives
refunds, runs repairs, procurement and customer services. Paths below are
relative to the repository; `services/x.js` stands for `src/services/x.js`.

## 1. The system

Every state of the backend is a MongoDB document; handlers are stateless.
Three things give it its concurrency: several server processes handle requests
at once, provider webhooks arrive in any order and any number of times, and
command line jobs (`src/scripts/`) run beside the server. Handlers that write
more than one document wrap their reads and writes in one `withTransaction`.

| Part | Source | State | Operations | What makes it correct |
|---|---|---|---|---|
| Stock reservations, fulfilment | `services/reservationService.js`, `models/StockReservation.js`, `models/Order.js`, `scripts/expire-reservations.js` | a reservation per order line, the order's status, units handed out | reserve, allocate, release, expire, cancel, dispatch, collect, confirm delivery | stock neither lost nor made; released once; nothing held by a cancelled order; goods leave only against money |
| Checkout | `controllers/checkoutController.js`, `services/orderService.js` | order, cart | checkout with idempotency key | all lines or none |
| Payments, refunds | `services/paymentTransitionService.js`, `models/Payment.js`, `models/Refund.js` | payment totals, refund states, provider event digests | attempt, charge callbacks, reserve refund, refund callbacks, cancel refund | at most one capture per order; totals are the refunds; settled refunds stay settled |
| Bank transfers | `services/manualPaymentService.js` | payment of provider `bank_transfer`, receipt evidence | attach evidence, verify | as above, on a second path to a capture |
| Financial documents | `services/financialDocumentService.js` | invoices, receipts | issue with capture or on demand | a receipt for every capture of an order that can be documented, and only then |
| Reconciliation | `services/reconciliationService.js` | cases, one per distinct disagreement | create or touch | contradictions leave a case |
| Inventory desk | `services/inventoryService.js` | `Variant.inStock`, ledger, units, counts, discrepancies | adjust, count, resolve, transition a unit | the ledger explains the stock |
| Evidence | `controllers/evidenceController.js`, `services/evidenceStorageService.js`, `services/evidenceCleanupService.js` | evidence documents, stored objects, cleanup tasks | upload, delete, clean up | no document without object, no object for ever without document |
| Notifications | `services/notificationService.js`, `services/notificationDeliveryService.js`, `services/pushDeviceService.js` | inbox, outbox deliveries | enqueue, claim, deliver, retry, dead-letter | bounded attempts, no delivery forgotten |
| Repair finance, quotes | `services/repairFinanceService.js`, `services/quoteService.js` | deposit gate, overrides, quote versions | quote, decide, evaluate gate, override | work starts only against a verified deposit or an override |
| Repair workflow | `services/repairService.js`, `services/repairTrackingService.js` | repair status, evidence, tracking tokens | book, diagnose, work, QC, hand over | only the documented moves |
| Guidance, tracking links | `services/guidanceService.js`, `services/repairTrackingService.js` | guidance sessions, questions to advisors, tracking tokens | recommend, ask, answer, archive, rotate | one question at a time, one open link |
| Sessions, staff identities | `services/authSessionService.js`, `services/tokenService.js`, `services/staffIdentityService.js` | sessions, refresh tokens, invitations | log in, rotate, log out, invite, activate, suspend | a refresh token is used once; a replay ends its session |
| Procurement | `services/procurementService.js` | suppliers, purchase orders, receipts | order, approve, receive | no line received beyond what was ordered |
| Customer procurement, conversion | `services/procurementCustomerService.js`, `services/procurementConversionService.js`, `services/organisationService.js` | requests, quotations, memberships | request, quote, decide, convert | a quotation becomes at most one order |
| Service execution, plans, customer services | `services/serviceExecutionService.js`, `services/maintenancePlanAdminService.js`, `services/customerServicesService.js` | versioned aggregates | book, execute, renew | no lost update; renewal once |
| Warranty, claims, returns, support | `services/warrantyCustomerService.js`, `controllers/claimController.js`, `controllers/returnController.js`, `controllers/supportTicketController.js`, `modules/customerOpsModule.js` | claims, returns, tickets | submit, inspect, decide, remedy | never more returned than bought |
| Content and policy | `services/contentService.js` | page and policy versions | draft, review, publish | one published version |
| Catalogue, cart | `controllers/productController.js`, `controllers/variantController.js`, `controllers/cartController.js`, `services/catalogue*.js` | products, variants, carts | edit, publish, fill the cart | only complete products are public |
| Audit, analytics, HTTP, configuration | `services/auditService.js`, `services/analyticsService.js`, `src/app.js`, `middleware/`, `routes/` | append-only records | - | - |

How they interact: checkout calls the reservation service in its transaction;
a charge callback calls reservation (allocate or release) and document service
in its transaction; a settled refund rewrites the status of the order that
dispatch and cancellation read later. An order and what hangs on it (lines,
stock, payments, refunds, documents) is therefore one component with many
actors. A repair with its quotes, deposits and overrides is another, and stock
with the receipts that fill it a third. What is left meets in single documents:
a policy version that a record accepts, a cart that a checkout closes, a
technician who may open the evidence of a repair.

## 2. Modules

`OrderCommerce` composes the first six parts, because their handlers write each
other's documents inside one transaction. Evidence, notifications and sessions
share no document with them that decides anything on either side, except the
receipt of a bank transfer, which `OrderCommerce` has; they are modules of their
own. So are the desks of the back office and of after-sales, each with the
documents its handlers decide on.

| Module | What it is |
|---|---|
| `Tally` | sums of weights, and of signed deltas, over a finite set, as the cardinalities of sets of pieces, so that sums can be proved about |
| `Ranking` | the elements of a finite set in an order, each placed by how many come before it, so that a sorted list can be proved about |
| `PaymentAccounts` | the money totals cached on a payment and the moves the payment service makes on them |
| `OrderCommerce` | the handlers over orders, reservations, stock, units, payments, refunds, financial documents and reconciliation cases; its properties |
| `StockShelf` | abstract: each line is taken with its whole order, given back or shipped, each once |
| `RefundLedger` | abstract: an order is captured once, refunds are promised out of the capture, and each ends once |
| `OrderClaims` | what documents and messages of the repository say and the code does not do |
| `NotificationOutbox` | notices, preferences, delivery records with leases, the worker processes that claim and complete them, push installations |
| `EvidenceStore` | uploads and deletions of private files over a document and an object, the tasks they leave behind, the cleanup jobs |
| `AuthSessions` | the sessions and refresh tokens of one staff account, and the changes administrators make to it |
| `RepairDesk` | one repair: workflow, quotes, deposits and refunds (with the moves of `PaymentAccounts`), overrides, the finance gates, the tracking page |
| `InventoryDesk` | the stock of a variant as the desk sees it: ledger, units, counts, discrepancies, idempotency keys |
| `Procurement` | suppliers, purchase orders and the receipts that write into `InventoryDesk` |
| `Quotations` | organisations, a procurement request, its quotations, decisions, conversion |
| `AfterSales` | claims of a warranty, returns of an order line, a support ticket |
| `ServiceDesk` | a service request with assessment, quotations and execution; maintenance plans |
| `ServiceLifecycle` | abstract: an execution only goes forward and leaves one history entry |
| `ContentDesk` | the versions of a policy and the records that accept them |
| `CartDesk` | the cart of a customer and the checkouts that end it |
| `CatalogueDesk` | a product, its variants and the check that precedes publication |
| `CatalogueSearch` | search: filters, sorts, pages |
| `AccessLinks` | invitations of staff and tracking links of repairs: rotation, use, removal by the TTL index |
| `StaffAuthority` | several administrators who change each other, and access tokens signed from accounts read before |
| `GuidanceDesk` | a guidance session, its questions and answers |
| `EvidenceAccess` | who may attach, open and remove evidence of which record, and the audit trail |
| `MCOrderCommerce`, `MCNotificationOutbox`, `MCEvidenceStore`, `MCAuthSessions` | instances for TLC |
| `BackOffice`, `Operations` | the desks of `back_office` and of `operations` composed, all at work at once, and the type of all their documents |
| `MCBackOffice`, `MCOperations` | instances of these two for TLC, one desk at work at a time |
| `Tally_proofs` | lemmas about the sums of `Tally` and the order of `Ranking` |
| `OrderCommerce_proofs` | theorems about `OrderCommerce`: its type, its stock and lines; its goods, captures and books |
| `NotificationOutbox_proofs`, `EvidenceStore_proofs`, `AuthSessions_proofs` | theorems about the module each is named after |
| `BackOffice_proofs` | theorems about `RepairDesk`, `Quotations`, `InventoryDesk`, `Procurement` and `BackOffice` |
| `Operations_proofs` | theorems about `EvidenceAccess`, `AfterSales`, `ServiceDesk`, `ContentDesk`, `CatalogueDesk`, `AccessLinks`, `StaffAuthority` and `GuidanceDesk`, a section each, and about `Operations` |
| `Shopping_proofs` | theorems about `CartDesk` and `CatalogueSearch` |

### How state and actions correspond to the code

`OrderCommerce`:

* One action is one handler: the reads, checks and writes inside its
  `withTransaction`. MongoDB transactions are snapshot isolated and abort on a
  write conflict; each pair of handlers that could invalidate each other's
  checks writes a common document (the order, a reservation, the variant or
  the payment), so they are serialised and a handler that lost is run again on
  fresh state. That is what an atomic action says.
* `reservation[o][v]` is the status of the one `StockReservation` that the
  unique index on order and variant allows; `lapsed` says which lines passed
  their own `expiresAt` (each line computes its own, so lines of one order may
  lapse apart).
* `order[o]` keeps status, payment status, method, whether the receipt both the
  order and its payment point to is active, and the serials handed out.
* `payment[p]` keeps the status, the four cached totals and the digests of
  provider events; `refund[r]` status, amount and digests. Currency, owner,
  purpose and quote version are bound once and compared for equality, so a
  callback either matches or is a mismatch (`PaymentMismatch`,
  `RefundEventRejected`), whichever field it is.
* Early returns that change nothing (a duplicate event, a repeated cancel or
  dispatch) and handlers that throw (the transaction aborts) are steps that do
  not happen.
* Provider callbacks are unordered, duplicated, delayed or lost: a callback
  about an existing document may be handled at any time, any number of times.
  Event identifiers come from the small set `EventIds`.
* `Documentable` are the orders whose amounts are whole minor units and add up
  (`canSnapshotFinancialOrder`): a callback captures the others without invoice
  and receipt, while a bank transfer for one is never verified.
* `CorrectStock` stands for what `InventoryDesk` and `Procurement` do to the
  stock, and for catalogue edits of `inStock`.
* The order's total is the amount of each of its payments, as the code derives
  it; quantities and totals are constants chosen per instance.
* Left out: audit rows (written in the same transactions, never read), the
  wording of documents, pay-on-pickup eligibility, the bound of 50 events in a
  payment's history. Repair deposits are in `RepairDesk`, the cart before the
  checkout in `CartDesk`.

`NotificationOutbox`:

* One recipient. `inbox` holds the notices created for their event keys,
  `delivery[n, channel]` the record the unique index allows, `device[i]` an
  installation with the token and the `Idempotency-Key` it last registered.
* `processNotificationOutbox` is not atomic, so a worker takes its steps one by
  one: `BeginBatch`, `ClaimOne` (one `findOneAndUpdate`), the lookup and the
  provider call with its answer (`NoRecipient`, `Sent`, `SendFails`,
  `SendRejected`), `InvalidateDevices`, `Complete`. `ResultLost` is an exception
  thrown by one of the writes inside the `try`, which the `catch` block treats
  as an unavailable provider. A worker may die between any two of them.
* The code computes `now` once per batch and writes leases and retry times from
  it. The model keeps that: `age` is how long ago the batch began, and a lease
  taken late in a batch is correspondingly short.
* The code claims the oldest due record; the model any due one, which includes
  the code's choice.
* A registration of an installation is no transaction either: it looks its key
  up, reads the installation and saves the paths that differ from what it read
  (`BeginRegistration`, `ReadDevice`, `SaveDevice` with `SavedDevice`), while
  workers report tokens, other registrations save and the owner revokes.
* Left out: the read marks of the inbox, texts and templates, the categories of
  `lastErrorCategory`.

`EvidenceStore`:

* `retention[f]` is the document (`ABSENT` before the upload commits), `objects`
  what the S3-compatible store holds, `task[kind, f]` the cleanup task that the
  unique `deduplicationKey` allows; `due` says that its retry time, or the five
  minutes after which a claim counts as stale, has passed.
* No transaction spans the two stores, so `uploadEvidence`, `deleteEvidence` and
  the job are programs with a step between any two calls, where they may die.
  Each call to the store may fail before or after it took effect, and each
  MongoDB transaction may abort.
* `PlaceHold` is an operator's write: the schema and the guards know
  `LEGAL_HOLD`, but no code in the repository sets it.
* Left out: the content checks of an upload, a commit whose acknowledgement is
  lost. Who may do what with a file is in `EvidenceAccess`.

`AuthSessions`:

* One account. `session[s]` is the `AuthSession` of a login with the generation
  `currentJti` stands for, `token[s][g]` the `RefreshToken` of generation `g` in
  its family; the account keeps status and `authVersion` (which moves with
  `adminVersion`).
* `createLoginSession` inserts session and token one after the other without a
  transaction, and `rotateRefreshSession` reads token, session and account
  before its transaction starts, so both take their steps one by one. `MayRotate`
  is the conjunction of the two filters inside the transaction.
* `mutateStaff` is one transaction, but under snapshot isolation it neither sees
  nor conflicts with what a login inserts meanwhile. `BeginChange` takes the
  snapshot and `CommitChange` writes what the snapshot showed, unless a document
  it writes was changed since. The other transactions read nothing a login could
  have decided on, so missing an insert is the same as coming before it.
* Left out: clocks (a token may be found expired at any time; documents are not
  removed by their TTL index), signatures and digests. Invitation documents are
  in `AccessLinks`, the authority of roles and access tokens in
  `StaffAuthority`.

The desks (`RepairDesk` to `EvidenceAccess`) follow one convention about
atomicity:

* A handler that runs in `withTransaction` and writes every document it decides
  on, or one update whose filter holds all its conditions, is one action.
* A transaction that reads a document it does not write (MongoDB's snapshot
  isolation does not protect the read) is two actions: a `Begin` that remembers
  what the snapshot showed and a `Commit` that is refused only if a document it
  writes was written since (`clean`, `Undisturbed`, `NoConflict`). `Abort` is
  the conflict, or the connection that is gone.
* A handler with no transaction takes a step per database call it decides on.
  Mongoose's `save` sends only the paths that changed and checks the version
  only if the document has `optimisticConcurrency` or an array was replaced;
  `RepairDesk!Saved`, `CartDesk!Unmoved` and `AfterSales!SaveReply` say which of
  these each handler does.
* An idempotency key that is looked up before a transaction is a step of its
  own (`BeginRequest`, `BeginReceipt`), after which only unique indexes help
  (`KeyFree`, `ReceiptIndexAdmits`, `Inserted`, `IndexesAdmit`).
* Time is a nondeterministic step: a quote lapses, a warranty or return window
  turns, a TTL index removes what has expired.

What each desk keeps of its documents:

* `RepairDesk`: `repair` with its status, the totals cached in `financial` and
  the newest and accepted quote version; `request` is a staff request that read
  the repair and did not save it. `FinanceGate` is `assertRepairFinanceGate`.
  `requiredDepositAmount` is set by no handler and therefore a constant.
* `InventoryDesk`, `Procurement`: `inStock` and the keyed `ledger` entries;
  entries without a key (sales and their reversals) are summed up in `sold`, and
  what was written past the ledger in `unrecorded`. Nothing in the repository
  writes `inspectionState`: `RecordInspection` is an operator's write.
  A purchase order keeps the key and the content of each of its receipts.
* `Quotations`: `createStaffQuotation` walks through `FindRequest`,
  `FindVersion`, `SupersedeActionable`, `CreateQuotation`,
  `SaveAwaitingDecision`, and may stop after any of them (`AbandonQuotation`).
* `AfterSales`: `updateClaimStatus` and `decideReturn` match on the status they
  read and statuses do not come back, so these are one action each. A return
  request compares each of its items with what remains of the line, and may name
  the line several times: the model keeps their sum, at most `MaxItems` times the
  remainder. A reply is read and saved (`ReadTicket`, `SaveReply`).
* `ServiceDesk`: two quotations at most; `history` counts the entries an
  execution leaves. Texts, prices and the deposit state are data.
* `CartDesk`: a line is a variant, a quantity and the price it was added at;
  `removeItem` pulls a line without moving the version, so a save that writes
  by position can hit another line, and `Written` does that.
* `CatalogueDesk`: of a product its status and whether its content is complete,
  of a variant what the publication check asks. `CatalogueSearch` has one
  shopper who walks through the pages.
* `EvidenceAccess`: `DomainConfig` is the table `DOMAIN_CONFIG`, all nine
  domains of it; a state has one of them. A deletion reads the document
  (`BeginDelete`), marks and records it (`MarkPending`), and ends it
  (`FinalizeDelete`) or leaves a task (`QueueCleanup`) that the cleanup job
  completes later in its own words (`CompleteTask`). Neither update looks at
  whether it matched, so a request that was overtaken is recorded as well.

`PROJECT.json` maps a step or a next-state relation to the controller, route or
validator that admits the inputs it quantifies over, and every other definition
to the code it translates. Definitions marked external stand for MongoDB (write
conflicts, TTL removal) or for writes of an operator.

## 3. Runs

| Run | Asks |
|---|---|
| `stock` | two orders compete for two variants; a provider attempt and a bank transfer race for the first, the second has an attempt of its own; cancellation, expiry of single lines, deletion of the receipt, dispatch with a serial number |
| `money` | one order of total 2, two refunds of 1 or 2, every order of callbacks, with dispatch and cancellation in between |
| `desk` | stock corrections under a shop order and an order converted from a quotation; unpaid reservations end |
| `outbox` | two workers whose batches outlive their leases over both channels of a notice, with lost answers, failing writes and a worker that dies |
| `delivery` | liveness of the outbox with one worker that may die; meanwhile three registrations of two installations share tokens and keys, while tokens are retired and the worker reports them late |
| `evidence` | an upload, two deletions of one file and two cleanup jobs, with every call failing before or after it took effect and two jobs dying; safety and liveness |
| `sessions` | two logins, two refreshes that present any token there is, logouts, and three changes of the account |
| `back_office` | three desks, one at work: repairs with two quotes, two deposit attempts, a refund, overrides and a stale staff request; stock and purchase receipts under two keys each, a unit and a count; quotations of two officers in five writes, with decisions and conversions |
| `operations` | fourteen desks, one at work: claims, returns, tickets, services, plans, policies, cart, catalogue, search, invitations, tracking links, staff, guidance, access to evidence |
| `late_failure` | a violation: see findings |
| `over_return` | a violation: see findings |
| `lost_retry` | a violation: see findings |

Bounds. Two orders are enough for every property that relates orders (stock,
serials): each compares two of them. The first order has two lines, so lines
can lapse apart and a checkout can fail at its second line; the second order
wants two of the variant of which the first takes one out of two, so they
cannot both be served. Three payments give two attempts racing for one order by
different paths and one beside them. Two refunds of an amount 2 exercise the
boundary (1+1, 2, 1 then 2 refused). Two event identifiers tell a duplicate
from a new event. No counter grows without bound: statuses move forward and
event sets are finite. `EventIds` carry no meaning and the two refunds of
`money` are alike, so the safety runs use symmetry over them; runs with a liveness
property use none.

In `outbox` two workers are what it takes for one to write under the other; a
batch may last two ticks against a lease of one, so leases end while a worker
still holds the record, and the longest delay is two. `delivery` has one worker and
one delivery, that of the push channel. Two registrations name one installation
with a token each, the third names another one with the first token and the second
key, so every unique index has something to refuse. In `evidence` one file
suffices, since keys are unique per upload and nothing reads a second file; two requests and two jobs
meet on it; three attempts leave a stale claim room to return a task that was
already exhausted. In `sessions` two refreshes race for a token,
two rotations give a family a past, and three changes suspend and reactivate
after the activation. `MaxCrashes`, `MaxAge`, `MaxGeneration`, `MaxChanges`,
`MaxAttempts` and `BatchLimit` are the counters' bounds; the last two are
constants of the code.

`back_office` and `operations` are unions, not products: `desk` and `running`
are chosen in the initial state and never change, and every property of a desk
reads only its own variables, so nothing is lost by keeping the others still.
A behaviour of `OneDeskSpec`, which these runs check, is one of `BackOfficeSpec`
or `OperationsSpec`, the conjunction of the desks' specifications, in which all
desks but one stutter; the theorems are about the conjunction. `Desks` names the
desks of a run: `operations` has all, `over_return` the one it is about.
Their bounds are named in the MC modules. Two requests in flight are what each
of these races takes; where three documents are needed (policy versions,
invitations whose predecessor was removed, plans with a successor's successor)
there are three. `RepairBound` lets two complications meet out of deposit
attempts, overrides and a stale request; two versions of a quote make an old
and a new one. `SupplyBound` and `QuotationsBound` allow two requests at once
over two units of stock and two quotations, a sale or a lapse counting as one of
the two. There is one purchase order, so that a key never serves two of
them is left to the theorem. `ContentBound` allows two requests at once over three
versions, so two publications may both archive the version in force.
`CartBound`, `CatalogueBound` and `ServiceBound` do the same for their desks, and
bound how often a price moves, a variant sells, an archived product is edited or a
quotation lapses. `SearchBound` lets the store change once while the shopper
walks. `EvidenceBound` allows two requests at once, one of them a download, for
the intake evidence of a repair, which most roles may see, and one for any other;
states with two records in the trail, three while a request is under way, are
continued, those with more are checked. Eight accounts cover every role that a
repair treats differently. Versions, requests over a cart and technicians are
interchangeable, and these bounds take them in one order: any other behaviour is
one of these with the names exchanged.
`MaxItems` is 2, so a request may name a line twice; in `over_return` it is 1,
so that the two requests alone make the violation.
`MaxEdits`, `MaxSold`, `MaxMoney`, `MaxWarranties`, `MaxVersion`, `MaxAtWork`,
`MaxOpenEdits`, `MaxCalls` and `MaxPending` bound counters and requests in the
guards. Keys, officers, cart variants and devices are interchangeable and the
properties safety properties, so both runs use symmetry over them.

`CHECK_DEADLOCK FALSE` is set in the runs of `OrderCommerce`, `EvidenceStore`
and the desks: once all orders are served, refunded or closed, all files
deleted, or a ticket closed, the system really may have nothing left to do. The outbox
always accepts a new preference and an account may always end its sessions, so the runs
of `NotificationOutbox` and `AuthSessions` check for deadlock.

Fairness. `HoldsEnd` assumes that clocks advance (`LineLapses`) and that the
expiry job is run again and again (`ExpireReservations`); `DeliveriesSettle`
that the clock ticks and each worker is started again and goes on while it
lives; `TasksFinish` that retry times and stale claims fall due and the cleanup
job is started again and again. `src/README.md` asks for all three jobs to be
operated so. Workers may die within the bound of `MaxCrashes`; nothing is
assumed of customers, staff, the payment provider, the mail and push providers
(which may fail for ever) or the object store.

## 4. Properties

Where several facts make one promise they are conjuncts of one property, each a
definition of its own. In an action property the conjuncts about one state are
primed: they hold where a step leads, and initially nothing has happened yet.
Several mutants per property in `PROJECT.json`, as a rule one per conjunct, show
that each of them can fail. `TypeOK`, `BackOfficeTypeOK` and `OperationsTypeOK`
say that documents keep to their schemas.

Checked by `stock`:

* `StockConserved`: shelf + held + taken = opening + corrections, per variant.
* `GoodsGoToPayers`: a cancelled order holds nothing (`CancelledHoldsNothing`),
  stock is allocated and leaves against captured money only
  (`StockGoesToPayers`), and no serial number goes to two orders (`UnitSoldOnce`).
* `CapturedOnce`: of the attempts and transfers for an order at most one is ever
  captured, and a receipt exists for exactly the captures of orders that can be
  documented (`AtMostOneCapture`, `ReceiptsMatchCaptures`).
* `ShelfSpec`: the store implements `StockShelf`.
* `ReservationsMoveForward`: no reservation moves but along its life cycle.

Checked by `money`:

* `BooksAgree`: the cached totals are exactly the refund documents
  (`PaymentTotalsExact`), so the "provider_database_disagreement" branch is dead
  (`NeverDisagrees`), and the order's payment status is the payment's
  (`OrderMirrorsPayments`).
* `LedgerSpec`: the store implements `RefundLedger`; in particular a refund that
  was settled stays settled, whatever callbacks follow.
* `ShipsOnlyFullyPaid`: the gate reads the order, the money is on the payment.

Checked by `desk`: `HoldsEnd`, every reservation that lapses is closed or paid.

Checked by `outbox` and `delivery`:

* `DeliveredWasAccepted`: no record says `DELIVERED` unless a provider took the
  message, even if workers hold it together and learn different things.
* `OutcomeIsFinal`: a slow worker never undoes an outcome.
* `ServedTokenStaysOn`: an installation that is saved as active with a token
  the provider serves is switched off by its owner alone, neither by a late
  report about a token it had before nor by a registration that read it earlier.
* `DeliveriesSettle`: no record is forgotten.

Checked by `evidence`:

* `ObjectsFollowDocuments`: `ActiveHasObject` and `DeletedHasNoObject`.
* `OrphansAreKnown`: an object without document has a task, unless its upload
  died or was refused by the store and stored all the same.
* `TaskOutcomeIsFinal`, and `TasksFinish`: no task is forgotten.

Checked by `sessions`:

* `OneLineOfTokens`: an open session has one token that can be rotated, the one
  it points to, although refreshes decide on reads that may be stale
  (`OneLiveToken`); nothing created beside a revocation survives it, but for the
  first token of a login that was overtaken, which has no successor
  (`RevokedFamilyIsDead`).

Checked by `back_office`:

* `DecisionsAreCurrent`: only the newest quote can be decided, work is approved
  on no other, whatever staff save late, and the tracking page never shows money
  beside a quote it does not belong to (`OneOpenQuote`,
  `ApprovedMeansCurrentQuote`, `TrackingAgrees`).
* `WorkIsPaidFor`: the totals cached on a repair are money its payments hold, so
  the gates that read them open only against money or an override, at the moment
  they are passed (`CreditIsBacked`, `StartedWorkIsPaid`,
  `HandoverNeedsClearance`).
* `StockIsExplained`: a raced, retried or reused key moves stock once, and stock
  is what the ledger says (`LedgerExplainsStock`, `UnitReleasedOnce`,
  `DiscrepancyAppliedOnce`).
* `OrdersAreReceived`: purchase orders, ledger and shelf agree on what arrived
  (`ReceiptsReachStock`, `EndsMatchReceipts`), the entries of an order are those
  of its receipts (`ReceiptsHaveEntries`), and a key serves one purchase order and
  there one receipt of loose goods (`KeysNameReceipts`).
* `QuotationsAgree`: one quotation to decide on, final decisions, one order,
  although issuing a quotation is five writes with no transaction
  (`OnlyLatestActionable`, `DecisionsAreFinal`, `OneOrderPerQuotation`).

Checked by `operations`:

* `CasesStayDecided`: the claim index looks at a flag, staff move a status, and
  the two never come apart (`OneClaimUnderWay`, `ReleasedStaysReleased`); a
  closed ticket takes only replies that were read before it was closed, and only
  one that read it open opens it again (`ClosedTakesOnlyLateReplies`).
* `ServiceIsAgreed`: `ScheduledWorkIsAgreed` and, for plans, `OneLiveTerm`.
* `ExecutionFollowsLifecycle`: the desk implements `ServiceLifecycle`.
* `PolicyStands`: two publications conflict on the version they both archive,
  and what a record accepted is deleted by no request but one that was already
  past its check when the record was written (`OneVersionInForce`,
  `AcceptedVersionStays`).
* `CartBecomesItsOrder`: whatever devices do to one cart at once, an order is
  made once, with each variant once, at the prices that were in the cart
  (`OneLinePerSku`, `CheckedOutOnce`, `ChargedAsShown`).
* `PublicationIsChecked`: an edit that nothing overlaps leaves an active product
  complete.
* `SearchIsTrue`: search and display compute availability by different code and
  agree; pages neither repeat nor skip (`FoundAsShown`, `PagesShowEachOnce`).
* `SecretsEnd`: a rotation or the only use ends a secret (`OneOpenLink`,
  `ActivatedOnce`).
* `AuthorityStands`: changes are made to the account that was shown, nobody
  whose own authority still stands takes away the last Super Administrator, and a
  token that is accepted speaks of the account as it is (`ChangedAsShown`,
  `SuperAdminRemains`, `AcceptedTokenIsTrue`). Two who demote each other at
  the same time are outside it: see the divergences.
* `QuestionsAreSettled`: `OneActiveEscalation`, `OneNoticePerQuestion`,
  `ArchiveEndsQuestions`.
* `AccessIsAccountable`: no link to a private file is handed out and no file is
  stored or removed unrecorded; what is gone has the record of a request and that
  the request, or the cleanup job for it, was carried out
  (`EveryAccessIsAudited`). On a repair, whoever attached, opened or removed a
  file, however late, is the owner with a category for customers, a technician who
  had the repair, the quality control for its own, the store for intake, custody
  and handover, or a manager (`DutiesStaySeparate`).

### Findings

* `late_failure`: `PAYMENT_TERMINAL` (`services/paymentTransitionService.js:16`)
  omits `PARTIALLY_REFUNDED`. A `charge.failed` with a new event identifier that
  arrives after a partial refund makes a captured payment `FAILED`, which also
  stops any further refund, and releases the reservations of its order.
* `lost_retry`: `queueEvidenceCleanup` leaves an existing task alone, also one
  that is exhausted, so a later deletion is answered 202 with nothing that will
  try again.
* `over_return`: `createCustomerReturn` counts what other returns took and inserts
  its own in one transaction, but two such transactions write no common
  document, so each commits on a snapshot without the other: two returns of a
  whole line are accepted. `src/docs/be-10-customer-domain-contracts.md:96` rests the
  accounting on that transaction.

Divergences that the models contain and no run is about:

* `src/README.md:117` and `:457` speak of five attempts, but `claimOne` and
  `claimTask` count each takeover of a stale lease and compare no count: five is
  the budget of one worker, not of the record.
* A full refund overwrites `dispatched` or `completed`, and
  `cancelOrderWithReservations` asks only the status, so an order whose goods
  left the store can be cancelled ("This fulfilled order cannot be cancelled",
  `services/reservationService.js:176`).
* `deleteEvidence` reads the state, marks with a filter on `ACTIVE`, and deletes
  the object without looking whether the mark took: a legal hold placed in
  between does not keep it (`src/README.md:448`).
* A login that read the account as active inserts its session after the snapshot
  of a suspension, which neither sees nor conflicts with it, and keeps its family
  (`src/README.md:700`). Access tokens are refused all the same, and the next
  refresh ends the family.
* `performQC` with a failure puts a repair `IN_REPAIR` from any status and without
  the gate (`services/repairService.js:290`, against `src/README.md:226`).
* One request that names a line twice takes back more of it than was bought, since
  `createCustomerReturn` compares every item with the remainder on its own
  (`services/warrantyCustomerService.js:286`, against the refusal in the next
  line). `over_return` leaves this out to show the race.
* Two different receipts of one purchase order that were looked up before either
  committed are both committed under one key, if at most one is of loose
  goods: the unique index over an array of receipts compares purchase orders, not
  the receipts of one. `services/procurementService.js:255` refuses a key that
  comes with other input.
* `replyToTicket` saves the ticket it read. A reply that overlaps the closing is
  saved into the closed ticket ("Closed tickets cannot receive replies",
  `controllers/supportTicketController.js:161`), and opens it again if it
  read it open.
* `claimTransitions` lets a rejected claim be closed, which
  `src/docs/be-10-customer-domain-contracts.md:95` calls terminal.
* A deletion of a policy version looks for references before its transaction, and
  a record reads the current version before it is written: the superseded version
  a record accepted meanwhile is deleted (`services/contentService.js:178`,
  against `src/README.md:752`).
* `updateProduct` checks the product it read and saves the changed paths, so of
  two edits that overlap one publishes and the other removes the images
  (`controllers/productController.js:78`, against `src/README.md:273`).
* Two Super Administrators who demote each other at the same time leave none.
* A registration with a new token that read the installation as active does not
  write `active` (`services/pushDeviceService.js:39`): if a report about the old
  token switches the installation off between the read and the save, the new
  token is left inactive.
* A charge callback captures an order whose amounts are no whole minor units, or
  do not add up, without invoice and receipt
  (`services/paymentTransitionService.js:249`).
* The answer of an advisor deactivates the question, and only active questions are
  looked up (`services/guidanceService.js:46`): no customer ever sees an answer.
  Two answers to one question overwrite each other if both read it active, and a
  question asked while the session is archived may be created all the same.
* The evidence purpose `dispatch`, which `DOMAIN_CONFIG` and `src/README.md:523`
  allow, is missing from the enum of `Evidence.purpose`, so its upload always
  fails.

One more thing met while reading, which no run is about: `register`
(`controllers/authController.js:50`) uses `user` before its declaration at
line 84, so it always throws.

## 5. Proofs

Each theorem is about the specification of one module, for every value of its
constants that satisfies the assumption the module declares. `TypeCorrect`
stands for `Spec => []TypeOK` in each of the modules that have it. A proof of
an invariant has three parts: the initial states have it, each action keeps it
(one step or lemma per action), and it implies what the run checks. An action
property or a refinement follows from the same invariant, step by step.

### Orders, stock and money

For every value of the constants that satisfies `CommerceAssumption`
(`OrderCommerce_proofs`):

* `TypeCorrect`. The type invariant is inductive; its only arithmetic is that a
  checkout subtracts what it found on the shelf and a release adds a natural
  number.
* `StockIsConserved` (`Spec => []StockConserved`). The
  invariant is not inductive alone: a checkout overwrites the lines of its
  order, so `StockInv` adds `NothingHeldUnplaced`, that an order nobody placed
  has no lines. A checkout adds one order to those that hold a variant and
  takes its quantity off the shelf (`CheckoutConserves`); closing lines removes
  a set of orders and puts back their sum (`ReturnConserves`); allocation and
  dispatch move lines within the held states (`SameHeldConserves`).
* `LinesMoveForward` (`Spec => ReservationsMoveForward`) and `StoreKeepsTheShelf`
  (`Spec => ShelfSpec`, the refinement of `StockShelf`), from `StockInv`.

The last two, and all of the money, rest on `StepKinds`: every step of the
store is one of a dozen kinds (a checkout, a cancellation, a fulfilment, a
capture, a failed attempt, an expiry, a write to a refund, a move of a unit,
a correction by the desk, or paperwork that touches neither lines nor totals).
The twenty-odd handlers are taken apart once, there; the proofs that follow
split on the kinds.

The money, over the same assumption (which says of `Documentable` only that
these are orders):

* `OnlyPayersGetGoods` (`Spec => []GoodsGoToPayers`), `OrdersAreCapturedOnce`
  (`Spec => []CapturedOnce`) and `BooksAlwaysAgree` (`Spec => []BooksAgree`).
  None of the three is inductive without the others: a capture is the first of
  its order because the order says "pending" (`BooksAgree`), an order that holds
  allocated stock is the one that was captured (`GoodsGoToPayers`), and a
  refund turns the right order because there is one capture (`CapturedOnce`).
  `MoneyInv` is their conjunction with four facts the handlers rely on silently:
  an order is payable only between its checkout and its cancellation
  (`PayableWhilePlaced`), a payment takes its order's whole total
  (`CapturedWhole`), no refund is of nothing (`RefundsPositive`), and a unit
  given to an order is no longer for sale (`SoldUnitsGone`). Sums of refunds
  move by the share of the one refund that is written (`Share`, `Rebalanced`).
* `ShippedGoodsArePaid` (`Spec => ShipsOnlyFullyPaid`): dispatch reads the order
  and never the payment; that is enough because of `BooksAgree`.
* `StoreKeepsTheLedger` (`Spec => LedgerSpec`, the refinement of
  `RefundLedger`).

`Tally_proofs` has the facts about sums these rest on: type, empty, one
element, congruence, disjoint union, a part and the whole; and, for the stock
ledger, what one new signed entry does to the sum of the others (`NetAdd`). It
also has what `Ranking` promises: everything has one place and comes after what
comes before it (`RankedInOrder`), by the number of predecessors, which rises
along the order (`PlacesRise`); that numbers have a least one, by
well-foundedness (`LeastNumber`), and bounded ones a greatest (`GreatestNumber`);
and that a sum is at most the number of its terms times the largest of them
(`TotalBounded`).

### Notifications

For every value of the constants that satisfies `OutboxAssumption`
(`NotificationOutbox_proofs`):

* `TypeCorrect`, `DeliveriesAreHonest` (`Spec => []DeliveredWasAccepted`) and
  `OutcomesAreFinal` (`Spec => OutcomeIsFinal`), from one invariant,
  `OutboxInv`. It adds to the type that a worker with a record in its hands
  knows an attempt it may compute a delay for, that a worker that was told
  "sent" holds a record some provider accepted, and that records exist only for
  notices that were created. The last is what makes an outcome final: the
  transaction that creates a notice resets its records.
* `TokensAreSpared` (`Spec => ServedTokenStaysOn`): the report a worker holds only
  names tokens the provider has retired (`ReportsAreTrue`), and a retired token
  is never served again, however old the report; and a registration that saves
  leaves an active installation active, whatever it read.

### Evidence

For every value of the constants that satisfies `EvidenceAssumption`
(`EvidenceStore_proofs`):

* `TypeCorrect` and `EvidenceIsBacked` (`Spec => []ObjectsFollowDocuments`), that
  is `ActiveHasObject` and `DeletedHasNoObject`. Neither conjunct is
  inductive. `ObjectInv` adds that an upload which has not ended owns its file
  alone, and that requests past their mark and all tasks and jobs are about
  files that are closed: their upload ended and they are not `ACTIVE`. Since a
  closed file never becomes active again, whoever deletes its object, however
  late, deletes nothing that can be downloaded.
* `OutcomesAreFinal` (`Spec => TaskOutcomeIsFinal`), from `WorkersOwnTasks` in
  `ObjectInv`.
* `OrphansHaveTasks` (`Spec => []OrphansAreKnown`). `OrphanInv` adds that nothing
  is stored before the put (`NothingBeforePut`); `NewOrphans` shows that only
  the step that queues a removal can leave an orphan that was none before.

For every value of the constants that satisfies `AccessAssumption`
(`Operations_proofs`):

* `TypeCorrect` and `AccessIsAnswered` (`EvidenceAccessSpec =>
  []AccessIsAccountable`), that is `EveryAccessIsAudited` and
  `DutiesStaySeparate`. `AccessInv` adds that the present technician is among
  those the repair was given to (`TechnicianKnown`); that a file on its way in
  was let in for a purpose its uploader is entitled to, and a cleanup task was
  created by somebody whose request is on record (`FilesAccounted`); and that
  downloads and deletions under way were entitled when they were checked
  (`RequestsEntitled`): they are carried out later, when the repair may belong to
  somebody else. None of this is ever taken back (`Grows`, `StillSo`), so a
  step accounts for what is new only (`NewAccounted`).

### Sessions

For every value of the constants that satisfies `SessionsAssumption`
(`AuthSessions_proofs`):

* `TypeCorrect` and `FamiliesAreSound` (`Spec => []OneLineOfTokens`), that is
  `OneLiveToken` and `RevokedFamilyIsDead`. The invariant adds that
  sessions exist before their tokens (`SessionsFirst`), that the generations of
  a family up to the current one exist and all but that one are used up
  (`Lineage`), and that the transaction of a change saw every token of a family
  that had been rotated when it began (`Snapshots`), without which a suspension
  could leave a rotated token behind. `RotateSafe` is the heart of it: the two
  filters of the rotation are just enough.

### The back office

For every value of the constants that satisfies `DeskAssumption`
(`BackOffice_proofs`):

* `OneQuoteCounts` (`Spec => []DecisionsAreCurrent`), that is `OneOpenQuote`,
  `ApprovedMeansCurrentQuote` and `TrackingAgrees`. `DeskInv` adds that the
  counter of the repair numbers the quotes issued (`Numbered`), so that the
  tracked version is the newest; that only older quotes are superseded
  (`NewestStands`); and that the quote the repair accepted, and the one each
  deposit was made for, stay accepted (`AcceptedStands`,
  `DepositsFollowAcceptance`), so that a newer quote is shown without the money
  of an older one. `DeskShape` is a weaker type than `TypeOK`: it leaves out the
  bounds of the sums, which the quotes do not need (`RepairTypeCorrect` has
  them). `QuotesAloneSafe` covers
  every step that leaves the quotes alone, the late saves of staff requests
  among them; `Closed` covers those that close an open quote.
* `WorkNeedsMoney` (`Spec => WorkIsPaidFor`), from `CreditInv`: the credit shown
  on the repair is covered by what the deposits of one accepted version hold
  (`CreditIsBacked`). It needs that a deposit is bound to its version once
  and for all (`Bound`) and that refunds have payments (`RefundsHavePayments`).

For every value of the constants that satisfies `QuotationsAssumption` (same
module):

* `QuotationsStand` (`QuotationsSpec => QuotationsAgree`). `QuotesInOrder(n)`
  says that the versions issued are 1 to n and only the last may be decided on;
  `IssuesInOrder(n)` what each of the officers who are issuing one at the same
  time knows of n; `OrdersInOrder` that an order names an approved version, as
  does whoever is about to convert one. The highest version (`Latest`, what
  `sort({version: -1})` finds) is n by `LatestIsLast`.

For every value of the constants that satisfies `InventoryAssumption`,
`RequestAssumption` and `ProcurementAssumption` (same module):

* `StockHasItsEntries` (`SupplySpec => []StockIsExplained`) and `ReceiptsAreKept`
  (`SupplySpec => []OrdersAreReceived`), from `SupplyInv`, their conjunction with
  the type and three facts: the ledger is finite, so that its deltas have a sum;
  what was reconciled is not open any more, for any later request
  (`ReconciledOnce`); a purchase order that has received nothing has no receipts
  (`ReceiptsCount`), which is what a cancellation goes by. A step writes no
  entry (`NoEntrySafe`), one (`EntrySafe`: the stock, and the unit, count or order
  that its request names, move with it), or, for a receipt of serialised
  units, one of no stock for each unit (`SerialsSafe`). A retried or raced key adds
  nothing because the entry is written only if no entry has the key
  (`MovementAdds`). `InventoryAssumption` says that there are finitely many
  units: a receipt counts those it names. The entries of receipts and their keys
  have an invariant of their own, `EntriesInv`: the ledger has no two entries with
  one key, the entries of a purchase order are those of its receipts, and no key
  serves two purchase orders (`KeysStayApart`). That two receipts of loose
  goods under one key are one then follows from their entries.

### The desks

`Operations_proofs`, each for every value of the constants of its desk. All of
these are about requests that read, are overtaken, and commit; the invariant
says in each case what a transaction that can still commit knows to be true.

* `CasesAreKept` (`AfterSalesSpec => CasesStayDecided`): the flag `active` of a
  claim is what its status says (`ClaimsInOrder`), so that the unique index on
  it holds back the second; a return that is being submitted has no document
  (`ReturnsInOrder`); a step from a closed ticket saves or drops a reply
  that was under way (`ClosedStays`).
* `ServicesAreAgreed` (`DeskSpec => ServiceIsAgreed`): whoever can still commit a
  schedule has read an approved quotation and a compatible request, and both are
  unchanged (`SchedulingInOrder`); a plan that has a successor expired, and
  has the one (`TermsInOrder`). `ServicesGoForward` is the refinement of
  `ServiceLifecycle`.
* `PoliciesAreKept` (`ContentSpec => PolicyStands`): a publication that can still
  commit has seen the version in force and supersedes it, and nobody supersedes
  what they publish (`EditionsInOrder`, `Publication`). The number of a version
  is left open, it has an invariant of its own (`VersionsInOrder`).
* `PublicationsAreChecked` (`CatalogueSpec => PublicationIsChecked`): who has been
  alone remembers the aggregate as it is, and passed the check on that
  (`Remembers`).
* `LinksAreEnded` (`AccessSpec => SecretsEnd`): a rotation that can still commit
  has seen every open secret as long as the TTL index removed none
  (`OneInvitation`, `OneLink`), and in any case only open ones; an acceptance
  that can still commit is the first (`InvitesInOrder`).
* `AuthorityHolds` (`StaffSpec => AuthorityStands`): who has seen the version an
  account has, has seen that account (`Shown`, `Signed`), and a change that can
  still commit was allowed on what the account is (`Allowed`).
* `QuestionsSettle` (`GuidanceSpec => QuestionsAreSettled`): `QuestionsAreNew`,
  `AnswersHaveQuestions`, `AnswersStay` and `OneWaits`.

`GuidanceAssumption`, `ServiceAssumption` and `CatalogueAssumption` say that the
value "none", which stands for a reference that is not set, is no document.

### The cart and the search

`Shopping_proofs`. The lists of these two are written without recursion for the
sake of the proofs: a removal and a search list what they keep by `Ranking`, a
merge changes the lines it finds and appends the others, and the quantity of a
variant is a sum of `Tally`.

For every value of the constants that satisfies `CartAssumption`:

* `CartEndsAsItsOrder` (`CartSpec => [](CartTypeOK /\ CartBecomesItsOrder)`), from
  `CartInv`. It adds what a request that loaded the cart knows until it writes
  (`Underway`): as long as the cart has the version it loaded, a variant it found
  no line of still has none, although removals do not count as a version, so it
  may append one. A payment whose snapshot nothing wrote to has the cart's
  lines at the shop's prices (`SnapshotHolds`), the orders there are, are of
  carts that are gone (`OrdersBehind`), and a cart was written at most once by
  each request (`WritesCounted`), which bounds its version and generation.

For every value of the constants that satisfies `SearchAssumption`:

* `SearchShowsWhatIsTrue` (`SearchSpec => SearchIsTrue`), from `SearchInv`: as long
  as the store is unchanged, what the shopper was shown is the beginning of the
  one sorted list (`ShownSoFar`). `SortedSearch` says that this list has
  everything that matches, once, in order; `AvailableAsShown` that the filter and
  the label, computed by different code, agree; `PageContinues` that one more page
  continues the list and that the last page, by `Pages`, ends it.

### The schemas of the desks

* `OperationsTypeCorrect` (`OperationsSpec => []OperationsTypeOK`), for every value
  of the constants that satisfies the assumptions of the ten desks, and
  `BackOfficeTypeCorrect` (`BackOfficeSpec => []BackOfficeTypeOK`), for those of
  the three. Each is put together from one lemma per desk (`CasesTypeCorrect`,
  `ContentTypeCorrect`, `RepairTypeCorrect` and so on), because the desks share
  no variable. For most desks the type follows from the invariant above and a
  small one for the parts no other property needs (`TicketInOrder`,
  `WorkInOrder`, `RequestsInOrder`). Four needed more:
  * Policies. No two versions that are kept share a number, although each
    takes the highest there is plus one and the highest may be deleted. `VersionsInOrder` bounds the
    numbers by the count of versions made, so that the next is new
    (`NextVersionIsNew`), and adds that a publication that can still commit
    writes only versions that are kept: otherwise it would bring a deleted one,
    number and all, back. `ContentAssumption` says that there are finitely many
    versions, or there might be no highest.
  * Links. Only an account that was activated has a used invitation, and a
    tracking link is never used up (`SecretsInOrder`); rotations
    (`RotationsUseNone`) and the passing of time use no secret.
  * Guidance. An archived session is revoked (`ArchivesInOrder`): no other
    handler, however late, writes the status or takes the revocation back.
  * Repairs. What a payment captured, refunded and nets stays within the
    deposit (`Within`, kept by every move on the money: `MovesStayWithin`), and the
    credit cached on the repair within `MaxMoney` (`CreditBounded`). The latter is a
    bound of the model, and `DeskAssumption` says that it is large enough for all
    deposits there can be.

### What is model-checked only

* Liveness under fairness (`HoldsEnd`, `TasksFinish`, `DeliveriesSettle`), which
  the prover cannot do.
* What the violation runs refute.

Every invariant and every safety property of a step that a passing run checks
is stated by a theorem.

## 6. Plan

1. This core (done): `OrderCommerce` with its abstractions and first theorems.
2. `NotificationOutbox` (done): claims with leases, retries, dead letters,
   crashes, with its invariant proved.
3. `EvidenceStore` (done): object and document in two stores, compensation,
   cleanup, with its invariant proved.
4. `AuthSessions` (done), with its invariant proved.
5. `RepairDesk`, `InventoryDesk`, `Procurement`, `Quotations` (done), composed in
   `BackOffice`.
6. `AfterSales`, `ServiceDesk`, `ContentDesk`, `CartDesk`, `CatalogueDesk`,
   `CatalogueSearch`, `AccessLinks`, `StaffAuthority`, `GuidanceDesk`,
   `EvidenceAccess` (done), composed in `Operations`.

Not modelled: HTTP routing, rate limits, configuration, the API document, the
one-off migrations other than that of the opening stock, reports and dashboards,
which keep no state of their own or only read; the payment provider's own side of
the money; PDF and mail texts; `updatePlan`, which replaces text under a version
check.

`src/server.js`, `migrate-inventory.js`, `process-notification-outbox.js`,
`cleanup-orphaned-evidence.js` and all but two of the `test-*.js` in
`src/src/scripts/` carry obfuscated code, appended to their last line
after a long run of spaces. Nothing in the repository describes it and it is not
modelled; the models of the jobs and of the migration are of the readable code.

Theorems (done): the safety properties and the types of all runs; section 5 says
which rest on which invariant. Liveness stays with TLC.
