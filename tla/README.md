# Raffia Weave Flow: verification of the back end

The back end is a NestJS application (`src/`, TypeScript) over one PostgreSQL
database reached through Prisma (`prisma/schema.prisma`), with an object store
(MinIO) for files and a socket gateway for notifications. It runs the office of a
raffia workshop: quotes and orders, production, stock, purchases, deliveries,
invoices and payments. Paths below are relative to the root of the repository.

## What is hard in this system

Every HTTP call is an `async` handler. Between two `await`s the Node process
serves other calls, so each database round trip of one call may be followed by any
number of round trips of others; there is no in-process lock. Three shapes of
handler occur everywhere:

1. *check then write*: a row is read, tested in JavaScript, and then updated by id
   alone (`updateStatus`, `updateProgress`, `approveQuality`, `markDelivered`,
   `recordPayment`). What was tested may no longer hold.
2. *interactive transaction* (`prisma.$transaction(async tx => ...)`) at READ
   COMMITTED: plain reads inside take no lock, row locks come from updates and from
   the one `SELECT ... FOR UPDATE` of the code, a throw rolls everything back, and
   Prisma aborts the transaction after its timeout.
3. *follow-up*: after the commit of one document another is changed in a call of
   its own, and a refusal is swallowed (`.catch(() => undefined)`).

The models keep these steps: one action per round trip, wherever another call in
progress could tell. Where several round trips are one action, the section of the module
says so: the transactions and most of the pages of `Treasury`, the first transaction of a
write of `CompanySettings`, the edits by an administrator in `Shop` and
`DocumentTemplates`, and everything a refused call reads before its refusal.


## Components

| Component | State | Operations | What must hold | Modelled in |
|---|---|---|---|---|
| Material stock (`production-orders`, `components`, `bom-items`, `common/stock`) | `Component.stockQty`, BOM lines, `materialsConsumedAt` | consume materials, edit/delete component, create/edit/delete BOM line | stock is the sum of its movements, never negative, one debit per production order, every call is answered | `Materials` |
| Purchase orders | status, lines, `paidAmount`, number | mark received, PATCH, record payment, create | received once per opening, never shown as paid beyond what was paid | `Materials`, `Treasury`, `DocumentNumbers` (partly) |
| Invoice payments | status, `paidAmount`, `paidAt`, payment and ledger rows | record payment, mark paid | the columns agree, nothing paid beyond the total or without a payment | `InvoicePayments`, `InvoiceAccount`, `Treasury` |
| Invoices | type, status, amounts, number | create, PATCH | number follows the type, lines follow the number | `InvoicePayments`, `OrderWorkflow`, `DocumentNumbers` (partly) |
| Sales orders | status, BAT, items, prices, number | create, PATCH, change status, send and approve BAT, upload BAT | BAT before production, prices as quoted | `OrderWorkflow`, `Shop`, `DocumentNumbers`, `StoredFiles` (partly) |
| Production orders | status, progress, dates, stages, quality, number | create, PATCH, progress, stages, approve quality, consume, planning page | completed work is reopened by its PATCH only, the planning covers the orders | `OrderWorkflow`, `Materials`, `DocumentNumbers`, `ProductionPlanning` (partly) |
| Deliveries | status, number | create, PATCH, mark delivered, delete | ship only what was checked and is still approved | `OrderWorkflow`, `DocumentNumbers` |
| Document references (`common/document-reference`) | one counter for all documents | allocate next level, parse, build | no level lost, numbers unique, a number finds its document | `DocumentNumbers`, `NumberRegister`, `DossierSearch` |
| Catalogue shares | status, limit, views, products | create, edit, replace products, public view | views near the limit, only products of the company shown | `Catalogue`, `Shop` |
| Products | reference, owner, price, variants, images, sheet | create, edit, delete, upload | references drawn once, a sheet of one save | `Catalogue`, `Shop`, `TechnicalSheets`, `StoredFiles` |
| Categories | code, next number | edit, delete | the counter stays ahead | `Catalogue` |
| Clients | type, price per variant, fiscal cards | edit, agree and remove prices, quote | quotation and order agree | `Shop`, `StoredFiles` (partly) |
| Company settings | settings row, profiles, logos and their objects, cached response | edit settings, profiles, logos; read | one default mirrored in the settings, logos stored, responses fresh in the end, also when a statement fails | `CompanySettings` |
| Invoice documents and templates | defaults per scope, signed documents | create, edit, set default, delete, preview, upload | one layout, the heading of one company | `DocumentTemplates`, `CompanySettings`, `StoredFiles` |
| Stored files (`common/storage`) | objects beside rows | put, replace, delete, download | listed means stored, nothing left over | `StoredFiles` |
| Financial tracking | ledger, categories, budgets | entries, budgets, overview, alerts, reminders | pages agree with the ledger up to their limits, no debt forgotten | `Treasury`, `TreasuryPages` |
| Authentication and users | rows, sessions, failed attempts | log in, refresh, log out, create, edit, remove users | a lock follows failures, a session has current rights | `Accounts`, `StaffSessions` |
| Notifications | sockets, rooms, registered clients | connect, authenticate, disconnect, send | a role reaches its sockets | `NotificationRooms`, `StaffSessions` |
| Dashboard, search and lookup | cached dashboard and queue | read-only queries | numbers found, amounts to collect complete, late work shown within the age of the caches | `DossierSearch`, `TreasuryPages`, `WorkshopBoard` (partly) |
| Audit log | append-only rows | log | written on a connection of its own | only that, in `InvoicePayments` |
| Suppliers, colours, HTTP pipeline, Prisma and PostgreSQL | | | | not modelled (see below) |

How they interact: `ProductionOrdersService`, `DeliveriesService` and
`InvoicesService` call `SalesOrdersService.updateStatus` after their own commit;
`consumeMaterials` and `markReceived` meet on the rows of `Component`;
`consumeMaterials` and `updateProgress` meet on the row of the production order;
deliveries read the production orders of their sales order; payments of one side
meet on the row of the ledger category that they all upsert, then on their document;
every creation of a document meets the others on the row of the one counter, and
writes the level of an old sales order; a product's owner decides what a shared
catalogue shows and what an order line may name; the default profile is copied to the
settings row, whose response a process keeps and previews of documents read; a socket
lives on the token of a session; files hang on invoices, clients, products and orders.

## Modules

Who uses whom:

- `Materials` (`MCMaterials`); `InvoicePayments` implements `InvoiceAccount`
  (`MCInvoicePayments`); `OrderWorkflow` (`MCOrderWorkflow`);
- `DocumentNumbers` implements `NumberRegister`; `DossierSearch` extends it with the
  queries that find documents (`MCDocumentNumbers`);
- `Catalogue`, extended with prices and quotations by `Shop` (`MCShop`);
- `Accounts`, composed with an instance of `NotificationRooms` in `StaffSessions`
  (`MCStaffSessions`);
- `DocumentTemplates`, extended by `CompanySettings` (`MCCompanySettings`);
- `TechnicalSheets`, extended by `StoredFiles` (`MCStoredFiles`);
- `Treasury`, extended with what is computed from it by `TreasuryPages` (`MCTreasury`);
- `ProductionPlanning`, extended with the dashboard and its caches by `WorkshopBoard`
  (`MCWorkshopBoard`).

A definition commented "Mutant" is a plausible error in the definition below it; no
specification uses it. It is there to see that the properties notice the error.

### `Materials`

`stock`, `bom`, `consumed`, `orderStatus` and `purchaseStatus` are the columns the
stock movements read and write; `rowLock` and `purchaseLock` are PostgreSQL's row
locks; `delta` is what a transaction has changed and not committed. A `Request` is
one HTTP call, whose `pc` names the next round trip:

| `pc` | consumeMaterials | markReceived |
|---|---|---|
| `new` | `StartConsume`: read the order, its product and BOM, refuse | `StartReceive`: read the purchase order and lines, refuse |
| `claim` | | `ClaimPurchase`: the conditional `updateMany` |
| `rows` | `LockRow`, `AllRowsLocked`: `lockComponentsForUpdate` | the same |
| `check` | `CheckShortages` | |
| `write` | `DebitLine`, `CommitConsume` | `CreditLine`, `CommitReceive` |

The statement `SELECT ... FOR UPDATE` has no `ORDER BY`: it locks its rows in the
order of the scan. `ScanPlan` holds the orders in which a scan may visit the
components, and each request has one. `DeadlockVictim` is PostgreSQL's detector,
`Abort` the timeout, a lost connection or a crash. Edits of components, BOM lines
and documents are single statements and single actions; they wait for the row
locks that PostgreSQL would make them wait for.

Abstracted: quantities are whole numbers (the database has three or four decimals),
the purchase statuses no handler tells apart are one (`OPEN`), variants and colours
of BOM lines are part of the line's identity. `opening` is a history variable: the
stock last set by hand less the movements answered by then. The stock of a component
whose movements are rolled back is untouched because `delta` is dropped.

### `InvoicePayments` and `InvoiceAccount`

`recordPayment` is six actions: `ReadForPayment` (outside the transaction),
`OpenCollection` (payment row, ledger category and entry: the upsert locks the
category's row and so puts all payments in a row), `WriteInvoice`, `AuditPayment`
(another connection: committed at once), `CommitPayment`, `AbortPayment`. `markPaid`
and `markPaidWithAudit` differ in the audit only and are `ReadForMark` and
`WriteMark`. The PATCH is `ReadForEdit` and `WriteEdit`, which writes back the type
that was read. Amounts are whole numbers; the five invoice types are told apart as
credit note or not. `POST /invoices` takes any status (`dto.status ?? ISSUED`) with nothing
paid, so an invoice may be created PAID or OVERDUE: `InitialStatus` is what a run lets it
be, all seven in `invoice_overlap`. `typed` remembers the invoices whose status was last
set by a POST or a PATCH, which compute nothing: `StatusMatchesAmount` speaks of the
status of the others, and of amount and date of all.

`InvoiceAccount` says what the routes promise: an invoice is collected in
instalments that never pass its total and are all booked, or declared paid.
`ImplementsAccounts` instantiates it with the identity on `paid` and `booked`.

### `OrderWorkflow`

One sales order with its production orders and deliveries. A `Call` is a slot in
which HTTP calls follow one another, so the number of slots is the number of calls
in progress at once; `call[r]` remembers the next step, the document, the status and
progress it will write and the status it has read. Reads whose refusal changes
nothing are guards: a refused call leaves the slot free. `FollowUp` is
`updateStatus` called after the commit of a production order, a delivery or a final
invoice, with its refusal swallowed. `Abort` in the middle leaves the first document
committed and the sales order unchanged, as a crash does.

Each of `EditStatus`, `EditBat`, `EditOf`, `EditLink` and `EditDeliveryTo` is what the
general PATCH (or create) routes may write; an empty set says that the route is not
used for that field. `POST /sales-orders` takes any status and any BAT requirement, with
no approved BAT (`InitialStatus`). `typed` remembers which of the two columns a POST or a
PATCH has set unchecked: `BatGate` answers for a status that one of the checked routes
set (they take it out of `typed`), while a PATCH of another column, status or requirement
may fall anywhere between their check and their write. `vetted` are the production orders
a quality check has covered. Abstracted: the stages of a production order are the single
question `canApproveQualityFromStages` asks of them (`inspected`); dates, numbers,
prices and items are left out; material consumption is kept as what it does to the
status (its stock is `Materials`). A delivery stays with its sales order; production
orders may be moved to and from it (`linked`). `DELETE /production-orders/:id` is not
an action: creation always adds stages, whose foreign key restricts the deletion.
`DELETE /sales-orders/:id` is restricted by its items in the same way.

### `DocumentNumbers`, `NumberRegister` and `DossierSearch`

`row` holds the documents of the five kinds: the number shown is a prefix and a level,
`level` is `referenceLevel`, `lines` the level copied to the lines. A creation is
`BeginCreate` (read the sales order), `Allocate` (increment of the counter, whose row
stays locked: `holder`) and `Insert`, which is also the commit and where the unique
indexes decide; `Abort` rolls the increment back. A PATCH is `ReadForEdit` and
`WriteEdit`; one of a sales or purchase order is the single `Renumber`. The history
variables `typed` and `carried` remember levels entered by hand and levels that were
drawn and committed. `Legacy` orders have no level until a document created for them
draws one. `NumberRegister` is the promise: no two documents show one number; it is
implemented with `shown` read off the rows. `DossierSearch` translates the header's
search and the lookup of a reference.

### `Catalogue` and `Shop`

Creating a product draws from the counter of its category until a number is free:
`Draw` (increment, locks the category), `Probe` (`findUnique`), `Insert` (the unique
index decides, and commits); a typed reference skips the first two. `ReadEdit` and
`WriteEdit` are the PATCH. A shared catalogue checks its products in `ReadShare` and
writes them in `WriteShare`, or in the transaction of `replaceProducts`: `WipeShare` deletes
the products it sees and `WriteReplacement` inserts its own, with no lock on the share,
so that of two overlapping replacements the `Survivors` of one stay beside the other's
(`unseen`), or the unique index refuses; the public page reads in `ReadView`
and counts in `CountView`. `CLOSED` stands for revoked and for expired. `Shop` adds
base prices, variants (replaced as a whole by a PATCH) and prices agreed with clients,
and translates the two functions that price a variant: `Quote`
(`ClientsService.resolvePrice`) and `OrderLine`
(`SalesOrdersService.prepareOrderItems`).

### `TechnicalSheets` and `StoredFiles`

Four services keep files with the same protocol, each in its own copy of the code: an
upload is `PutObject` then `CreateRow`, a deletion `RemoveStoredObject` then
`DeleteRow`, a download `Fetch` after the row. No transaction covers store and
database, so `Fail` and `Restart` may cut a call anywhere; a restart may also change
the store that is in use (`MINIO_*` environment). Bytes are plain or compressed, which
is all the compression is about. `TechnicalSheets` is the save of a technical sheet,
row by row at READ COMMITTED.

### `DocumentTemplates` and `CompanySettings`

A write of the administrator is a first transaction and the list `todo` of its later
statements (put and remove objects, point the row of the logo, copy the default
profile, empty the cache), between which readers take their three reads, fill the
cache or preview a document. `FailStep` is the error of any of these statements: the
request ends there, so that after an object that MinIO refuses to remove neither
`syncDefaultProfile` nor the invalidation follows (`deleteProfile`), and a logo whose
object is removed keeps its row (`upsertLogo`). Writes do not overlap: one administrator
at a time is an assumption of these two modules. `quiet`, `settings.apart` and `harmed`
are history: whether a reading was disturbed by a write, whether the settings row was
edited by itself or not copied because its write failed, and which logos a failed write
has lost or left in the store. `Current` and `OneCompany` say what a response and the
heading made of it (`Heading`) should show; `Responses` are those in the cache and those
just given, whoever filled the cache and whenever.

### `Treasury` and `TreasuryPages`

Payments of invoices and of purchase orders (`ReadForPayment`, then `Collect` or
`Payout`: document, payment and ledger entry in one transaction), the mark as paid,
the edits of status, due date and type, entries, categories and budgets written by hand, and
the passing days. A transaction is one action here because the row of the ledger
category puts all of one kind in a row; its inner steps are in `InvoicePayments`.
`TreasuryPages` holds what is computed: overview, page of a client, list of budgets,
alerts, reminders, and the lane "to collect" of the dashboard. Amounts are in cents,
dates in days; a due date is the midnight that begins its day, so that what is due today
is overdue for the overview, whose threshold is `now`, and not for the board, whose
threshold is that midnight.

The overview awaits its eight queries together (`Promise.all`, no transaction), and the
projected balance adds up three of them: `OpenOverview` takes the time, `AnswerQuery` is
the answer of one of the three, in any order, with the steps of `Treasury` in between,
`CloseOverview` the end (`PagesSpec`). `asked`, `moved` and `steady` are history: what
the answers would have been at the request, what was written to the ledger since, and
whether only payments have touched the documents. Each other figure that a property
names comes from one query, or is compared with what the ledger shows at that moment,
and is an operator on one state; the budgets of the list and of the alerts are read by
two queries, which are taken together.

Each page shows a limited number of rows: 20 budgets in an alert, 20 reminders, 8 rows
of the board, 10 overdue invoices of the overview. The limits are constants. An operator
of a limited page is the set of the pages it may be: rows that the order of the query
does not tell apart (a due date, an overrun) come in any order, which for the reminders
is more than the code allows, since it goes on by the date of creation. Invoices without
a due date are not in the model: no page but the board lists them, last.

### `Accounts`, `NotificationRooms` and `StaffSessions`

A login is `ReadLogin`, then `WriteFailure`, or `WriteReset` and `WriteSession`; a
refresh `ReadRefresh` and `WriteSession`. Whether a password matches is a choice.
Users are created and edited in a read (is the email taken) and a write (the unique
index). `NotificationRooms` is the socket gateway, whose handlers run without an
interruption; `StaffSessions` connects its sockets with the tokens of `Accounts`.

### `ProductionPlanning` and `WorkshopBoard`

`order` holds the dates of production orders and the planned dates of their stages;
`Create` cuts the period of an order into equal stages, `Update` and `UpsertStage` are
the PATCH and the planning of a stage, and `Load` and `ProductionEvents` the two pages
computed from them. Time is in ticks of the server, `DayLength` to a day, so that the
ends of a day (`23:59:59.999`) and a stage that begins within a day are told apart;
`Offset` is the time zone, which the calendar crosses when it reads a date as UTC.

`WorkshopBoard` adds deliveries and invoices (`doc`: whether the status is one of the
lane, and the due date), the clock and the two routes. A `request` is a set of reads
still awaited (`Promise.all`: any order), the `today` it computed at its start, and what
it has read so far; `OpenQueue` looks into the cache of the queue, `FillQueue` and
`FillDashboard` write the caches. `Restart` drops the requests, and the caches unless
Redis keeps them. `unedited` and `unlate` are history. A lane of an empty table is left
out of an instance.

## Runs

| Run | Instance | Shows |
|---|---|---|
| `materials_stock` | 2 components, 1 production order, 1 purchase order, 3 overlapping calls, any scan order, edits of stock, BOM and documents, weak fairness | `StockConservation`, `NonNegativeStock`, `ReceivedAtMostOncePerOpening`, `EveryCallIsAnswered` |
| `materials_serial` | 2 production orders, BOM lines that name a component twice, 4 calls in turn, PATCH to PLANNED and CANCELLED | `DebitedOnce` |
| `invoice_overlap` | 1 invoice of 3 units, created with any status, payments of 1 and 2, PATCH to ISSUED, PAID and credit note, 4 calls, 3 at a time | `PaidWithinTotal`, `PaidIsBacked`, `StatusMatchesAmount` |
| `invoice_serial` | 2 invoices, created ISSUED or OVERDUE, 4 calls in turn, PATCH to SENT and CANCELLED | `ImplementsAccounts` |
| `order_overlap` | 1 production order, 1 delivery, 2 overlapping slots of calls without end, orders created TO_PROCESS or IN_PRODUCTION with or without a BAT, PATCHes of status, BAT, production order (status and link) and delivery | `BatGate`, `QualityGate`, `CompletedIsLocked` |
| `numbers_overlap` | 3 documents, one of them an old order, 2 slots without end, orders, deliveries and two types of invoices, levels up to 2, one typed ahead | `LevelsWithoutGaps`, `AutomaticLevelIsFree`, `LinesFollowNumber`, `FoundByNumber`, `ImplementsRegister` |
| `staff_sessions` | 2 users, 2 emails, 2 roles, 2 slots without end, a limit of 2 failures, 1 valid token, 1 socket | `LockedAfterEnoughFailures`, `SessionHasCurrentRights`, `RolesReachTheirSockets` |
| `shop_overlap` | 2 products, 2 categories, 2 prefixes and 2 numbers, 1 share of limit 1, 1 client, 2 variants, 2 prices, 3 calls, 2 at a time | `CounterPassesDrawn`, `DrawnRefIsFree`, `ViewsNearLimit`, `QuoteAgreesWithOrder` |
| `settings_readers` | 3 writes, any statement of which may fail, up to 2 profiles, 2 names, 2 kinds of logos, 2 templates, 1 reader without end, weak fairness | `DefaultIsMirrored`, `LogosMatchObjects`, `CacheIsFresh`, `OneLayout`, `ResponsesCatchUp` |
| `files_faults` | 1 owner of each of 4 kinds, 3 calls, failures and restarts anywhere, 2 stores | `ListedMeansStored`, `NothingLeftOver`, `SheetOfOneSave`, `DownloadsAreOriginal` |
| `treasury_overlap` | 2 invoices, one of them perhaps a credit note, and 1 purchase order of 2 cents, 2 calls, 2 days, an overview at a time, pages of 1 row | `SupplierPaidIsBacked`, `OverviewError`, `ClientBalanceAgrees`, `AlertsFollowTheLedger`, `DebtIsReminded` |
| `board_overlap` | 1 production order in 3 stages, 2 deliveries, lanes of 1 row, days of 2 ticks, caches of the tick, 1 request after another without end, an edit, restarts | `PlanningCoversOrders`, `DashboardFollowsTheWorkshop` |

**Where the code and its own words part**, most of them a change of constants away (no
run is kept for them):

- `docs/financial-tracking/README.md:41` says that budgets compare the actual amounts of
  the ledger. The overview (`financial-overview.service.ts:62`) reads its entries without
  date, client and supplier, and then asks `matchesBudgetEntry` to compare all three
  (`MatchesUndated`): a budget tied to a client or to a supplier shows nothing there,
  while the list of budgets shows the right amount. `AlertsFollowTheLedger` therefore
  speaks of the overview only for budgets tied to neither.
- `DebitedOnce` fails as soon as two consumptions overlap: both pass the unlocked test
  of `materialsConsumedAt`. `ImplementsAccounts` fails for overlapping calls in the same
  way: of two overlapping payments one can disappear from `paidAmount`. These two
  properties are run with `Concurrency = 1`, which shows that the code is right when
  calls come in turn and nothing more; nothing of the server makes them come in turn.
- Two overlapping status changes can leave the matrix of `updateStatus`, a production
  order linked or created after the quality check of a delivery ships unapproved with
  it, and a completed or approved production order is reopened by its PATCH, or by a
  progress or a consumption that read it before it was completed. `QualityGate` and
  `CompletedIsLocked` say exactly this much and hold under every overlap; without the
  clause on `vetted`, or without the two exceptions, they are false.
- `NonNegativeStock` fails when a BOM names a component twice: its lines pass one by
  one, not together.
- POST and PATCH write any status of a sales order and its BAT requirement, a PATCH any
  status of a production order: without `typed = {}` in its premise, `BatGate` is false
  of the first order created IN_PRODUCTION with `batRequired`.
- An invoice created PAID or PARTIALLY_PAID shows nothing as paid and has no date of
  payment: `StatusMatchesAmount` leaves the status of such an invoice out until a payment
  or a mark computes it.
- Two movements can wait for each other: `stock-lock.util.ts` sorts the ids of its `IN`
  list "to avoid deadlocks", but the `SELECT ... FOR UPDATE` has no `ORDER BY`.
  `materials_stock` has two scan orders and shows what it costs: an aborted call, never
  a stuck one.
- A failure after the first transaction of a write of the company leaves the settings
  with the name of a deleted profile, a logo that is listed but gone, or an object
  nobody lists, and the cached response in place to the end of its two minutes.
- A payment committed while an overview is being read is counted twice or not at all in
  its projected balance (`financial-overview.service.ts:49`).
- A sales order that is renumbered leaves its deliveries, production orders and
  invoices with the old level, where `docs/flows/livraisons.md:5`,
  `ordres-production.md:73` and `factures.md:32` describe one level for the whole file.
- `docs/flows/factures.md` says that the creation of an invoice changes no sales
  order; a FINAL one moves it to INVOICED (`CreateFinalInvoice`, then `FollowUp`).

**Bounds.** `Request`, `Call` and `Task` bound the calls of a behaviour in `Materials`,
`InvoicePayments`, `Treasury` and `StoredFiles`, and only the overlapping ones in
`OrderWorkflow`, `DocumentNumbers` and `Accounts`, whose slots serve calls without end;
`MaxCalls` bounds them in `Catalogue` and `DocumentTemplates`; `Concurrency` those in
progress at once. `Full` is the grain of progress, `MaxLevel`, `MaxNumber` and
`MaxTries` the range of numbers and retries, `MaxTokens` the pairs of tokens that are
valid together, `MaxProfile` the profiles ever created, `LastDay` the dates, `Recent`
the length of a client's page (20 in the code), and `AlertLimit`, `ReminderLimit`, `QueueItemLimit` and `OverdueLimit`
those of the other pages. With pages of one row, the second of two invoices is the one
that does not fit, and a third would be the same; two days give a date before, on and
after the present one as the day passes. In `treasury_overlap` documents are created
ISSUED and CONFIRMED, and each other status, credit note and date comes by an edit or
from the initial states; the theorems cover any creation. In `settings_readers` three
writes are the least that let a write fail, another leave a stale response behind and a
third change what it lists. In `WorkshopBoard`, `LastCreation` and
`MaxEdits` bound what is written, `MaxDuration` how long a request takes: the age it
adds to what is shown is part of the property, and one tick less makes the property
fail. A cache entry lives to the end of its tick (`Ttl = 0`: half a minute against half
a day), long enough to be found by a later call and to be taken into a dashboard that is
itself cached; midnight may pass between the reads of a call. One row per lane leaves
one of two late deliveries out. Two overlapping calls already show every
check-then-write race, three add the chains of waits behind a lock and a third party
between two others. Two components and two scan orders give the smallest lock cycle; a
total of 3 with instalments of 1 and 2 settles exactly, falls short and exceeds; a level
typed ahead of a counter that reaches it, and a number that collides and is drawn again,
need levels and numbers up to 2; a lock after 2 failures is the smallest that
distinguishes the count from the limit; two profiles suffice for the default to change
hands and for its holder to be deleted. Calls and identities are interchangeable, and symmetric in the runs without
liveness. `CHECK_DEADLOCK FALSE` is set because bounded calls end: a system that has
answered all of them stops.

**Fairness.** Two runs assume any. `materials_stock` has weak fairness of `Continues`,
the next step of each call that is running. The event loop resumes a handler when the
database answers; the database answers a statement that need not wait and, by its
detector, one that waits in a cycle. `settings_readers` has weak fairness of the next
step of a write under way, which is done or fails, of each request that has begun, and of
the expiry of the cached response (`CACHE_TTL_MS.companySettings`, two minutes). Starting,
editing and aborting are not fair: no call must arrive, and none is helped by a timeout.

## Proofs

TLAPS proves the following for every value of the constants that satisfies the
assumptions named in each module (the domains of the inputs, finite nowhere unless
stated). Each module with proofs also proves type correctness. The invariants below
are inductive; the property alone never is.

**`MaterialsProofs`.** `TypeInv` is type correctness with "a running call knows its
document". `OpenWhenReceived` needs `ClaimHeld`: from the claim to the end, the call
holds the row of its purchase order and that row is open, since PATCH waits for it.
`StockNeverNegative` assumes `[]OneLinePerComponent` (no BOM, at any time, names a
component twice: without it the statement is false). Its invariant has `LockInv` (who
has checked a line holds the row, and what it has changed is only on rows it holds) and
`StockInv` (what a consumption still has to debit is covered by the stock it has
locked): nobody else writes a locked row, so the check stays true.

`StockIsConserved` assumes finitely many calls and BOM lines and nothing else. A sum
over a set that changes by one element is not computed by induction over a fold (out of
reach, see below) but by its axiom for one element, from `Sums`. `ConservationInv` says
where each unit of a component is: `Accounted` (a running call has changed each component
by the lines it has written, in its `delta`) and `Conserved` (the committed stock is
`opening` plus the lines of the movements answered). A commit turns the first into the
second; an abort drops `delta` and moves nothing.

`ReceivedOnce`, for any overlap of finitely many calls: by `ClaimHeld` and
`OpeningSpent` (each commit of a reception uses up the opening it found) the receptions
never outnumber the openings; the count of a set of calls that changes one call at a
time is a lemma.

**`Sums`** has the lemmas that several proofs share. A set of naturals has a least
element (`LeastNatural`). Of sums over finite sets: what one more element adds, that
equal summands give equal sums, that a larger summand gives a larger sum; of the first
elements of a finite set, that one left out has as many before it as fit (`KeptOfMany`).
Their induction over subsets is first order: a set of subsets closed under adding an
element contains the whole set (`SubsetInduction`), with the closed set given by a set
comprehension at each use, so that no operator parameter is needed.

**`InvoicePaymentsProofs`.** No amount can be bounded from the columns alone, because a
payment writes what it computed long before. `AmountInv` therefore also bounds the calls
in flight: what they will write is within the total (no route changes it) and backed by
payments (which are never removed). From it `NeverOverpaid` and `NothingInvented`.
`ColumnsAgree` needs no assumption on what a POST or a PATCH may set: each write of a
payment or of a mark sets the three columns together, from a positive amount within the
total (`AmountInv`), whatever it overwrites; a PATCH touches the status only, and puts the
invoice into `typed`.

**`WorkshopProofs`**, first part (`OrderWorkflow`). All three hold for any
overlap and any PATCH. `CheckedInv` says what each call in flight has checked and what no
other call can undo: a call about to write IN_PRODUCTION found the BAT approved, unless a
PATCH has set the requirement since (`typed`); what a call has `vetted` is approved, since
no route takes an approval back; a call about to write a progress or a consumption over a
completed order has not read it as completed. The columns this rests on only move one way
(`Holds`). `BatGateHolds`, `QualityGateHolds` and `CompletedOrdersAreLocked` follow, the
last two as action properties of the step that writes.

Second part (`ProductionPlanning`, `WorkshopBoard`). `PlanningCovers`, for any number of
stages, any length of a day and any period: the segments of `DistributeStageDates` stay
within the period, grow and meet, so that of the segments that end on a day or later the
first (`LeastNatural`) contains it; a stage that overlaps a day overlaps every range
with that day, so that all ranges agree. It assumes that local time is not behind UTC
(`Offset \in Nat`, the case of Madagascar): where it is, `parseDateOnly` reads a date as
the day before, and the calendar shows an order on the wrong days, while ranges agree
everywhere (`RangesAgree`). `DashboardIsFollowed`, for any number of items and requests,
any edits, times to live and durations: two sets are attached to a moment `t`, the items
late and unedited since `t` (`LateSince`) and those late at some moment since
(`LateAfter`). No step adds to the first or takes from the second (`StepEvolves`), so
what a value `Tells` about `t` stays true while it waits in a request or in a cache.
`RequestOK` says it of every partial answer, with the start of the request for `t` and
the lanes whose reads have returned; `QueueEntryOK` and `BoardEntryOK` of the caches,
with the age of an entry and of the request that filled it. That the rows of a lane
leave a late item out only when all of them are late is `FirstAreLate`. Assumptions
(`BoardAssumption`): the tables are finite, and `Null` is not a value.

**`DocumentsProofs`**, first part (`DocumentNumbers`, `DossierSearch`). `NoLevelIsLost`:
the holder of the counter is the only call with a fresh level, and commits the counter
with its document. `OnlyTypedLevelsCollide` strengthens this to "every level of a
document was typed or carried" (`LevelsKnown`, also of what calls remember).
`NumbersAreRegistered` is the refinement of `NumberRegister`, by the unique index at
each write. `LinesAgree` needs that an edit keeps its document among the invoices.
`NumbersFindDocuments` adds `RowsFindable` (but for old orders, the level of a row is the
level its number shows), `OldOrderWaits` (only an old order waits for a level from the
counter, so no other row is given one apart from its number) and `NumbersDiffer`; a
search by number is then the search by level or by reference, case by case.

Second part (`StoredFiles`, `TechnicalSheets`). `FilesInv` relates the three places where
a file is: the step a task has reached, its object and its row (`Stored` from the
put on, a row only after the object, the object taken away by a deletion only).
`DownloadsGiveTheOriginal` needs that a row tells how its object was compressed
although the environment of the process may have changed since. `SheetsInv` says that a
save that has written its row holds it to its end and that what it deletes is all there
is: at READ COMMITTED a deletion sees every element of the saves committed before it got
the row. Assumption: `None` is not a task (`SheetsAssumption`).

**`TreasuryProofs`.** `SupplierNeverOverpaid` from `PayoutInv`: what each payment in
flight has read is within what has been booked, and what it will write within the total.
`DebtsAreReminded` from `DebtInv`: the calls in flight and the columns never show more
of an invoice as paid than was booked; the page of a client is then a sum that contains
the rest of the invoice, and of a page of limited length `ShownOrCrowded` says that an
invoice left out has as many documents due no later before it as the page has rows.
`ClientPagesAgree` rests on the fact that the latest entries of a client with few are
all of them. `AlertsAreTrue` rests on `BudgetsRun` (a budget ends after it begins) and
finitely many budgets to begin with: then each period has finitely many overruns, and the
worst of them are found by `KeptOfMany`.

`OverviewIsClose`: while the overview is read, `OverviewInv` bounds the error a reader
would find if the missing answers came now by the entries written since the request, in
both directions. An answer does not change this error. A payment changes what is tracked
by its amount, and what is expected or committed by the same amount the other way; each of
the two counts only while its query is to be answered, and if its date or its document is
in the range asked, so the error moves by the amount or not at all. Any other change of a document ends `steady`. `PagesOnlyRead` carries the
invariants of `Treasury` over to `PagesSpec`. These theorems assume finitely many
documents.

**`AdministrationProofs`**, first part (`Accounts`, `StaffSessions`). `NoLockIsInvented`
(`FailInv`: the count a login has read is within the failures there were),
`SessionRightsAreCurrent` (`RightsHeld`: what a login or refresh carries was the user's
right after it began), `EmailsIdentify` (`EmailInv`), `RolesAreReached` (`Registered`: a
registered socket is connected and in its role's room), `StaffTypesAreKept`.

Second part (`CompanySettings`, `DocumentTemplates`). `LayoutIsDetermined` is inductive
as it stands once rows are typed. The others speak of the moments between two writes, so
the invariant must say what holds while one is under way. `StoreInv` lists the four
shapes that the rest `todo` of a write can have, and for each how the stored objects
differ from those the rows name: nothing left but to copy and to empty the cache
(`Closing`), a replaced object still to be removed (`Removing`), a new one put and not
pointed to (`Uploading`), one removed whose row is still there (`Erasing`). New paths
are larger than every path named before, so that the new object is none of the old ones.
A failure stops at any of these shapes, and each differs from what the rows say by logos
of the one it was about, which `Harm` puts into `harmed` (`NoOtherLogoIsHarmed`).
`RowsSound` says that exactly one profile is the default, and `StoreInv` that the
settings `Agree` with it unless the next steps copy it there or `apart` says why not.
`ReadInv` gives `CachedResponseIsCurrent`: a reader that is still `quiet` has seen no
write begin since its first read, and what it has read so far is what the rows say. Assumptions (`SettingsAssumption`): the primary kind is a kind, a profile may
be created, and `None` is neither a Boolean nor the key of a logo.

**`ShopProofs`.** `CountersStayAhead` and `CollisionsHaveASource` rest on `LockHeld` (a
call that draws holds its category, and numbers from the counter on), `Sourced` (every
reference of a product, now or to be written, was typed or drawn) and `FreeWhenDrawn`.
`ViewsPassTheLimitByCalls` assumes finitely many calls, at least one: `PeakInv` bounds
limits by the peak, `ViewInv` counts views together with those in flight.
`PublicSeesNoModel` and `QuotesAreKept` (with `PricesTyped`) follow from types.

`StaffTypeOK`, `ShopTypeOK`, the `TypeOK`s, `PublicSeesCompanyProducts`,
`ReceivesAnOpenPurchase` and `EmailsDistinct` are proved and not run again.

Only model-checked: `EveryCallIsAnswered` and `ResponsesCatchUp` (liveness under fairness
is out of the prover's reach), and `DebitedOnce` and `ImplementsAccounts`, which are true
of calls in turn only: a proof for every number of calls would rest on an assumption the
server does not give. What a fold computes is
proved only through its axiom for one element (`Sums`), never by induction over a
sequence.

## Not modelled

- Suppliers and colours: plain rows without rules of their own. The audit log:
  append-only rows. The HTTP pipeline (guards, pipes, filters, interceptors): no state.
  Prisma and PostgreSQL are external; the models contain the transactions, row locks,
  unique and foreign keys and the deadlock detector where the services rely on them.
- Totals, discounts and rounding of orders and invoices, and credit notes: sequential
  arithmetic on one request. Margins of production orders, the
  charts, indicators and undated lanes of the dashboard, the deliveries and purchases of
  its calendar, list filters, exports and the layout of PDF
  documents: read-only or wording.
- Overlapping writes of two administrators on company settings and templates: the
  two modules assume they do not, and say nothing about two profiles deleted at once
  or two first reads of an empty base.
- Seeds, migrations and scripts.

What the reader of these modules should know of the code, and no property states:

- Consumption debits the BOM lines of all variants of a product, while the margin
  counts the generic ones and those of the ordered variant.
- Documents of one sales order share its level and numbers are unique per table, so a
  second delivery, production order or invoice of one type for the same order is
  refused as a duplicate. The PATCH of a production order's number leaves
  `ProductionStep.referenceLevel`; two overlapping PATCHes of an invoice can leave a
  type and a prefix that differ.
- The client's page computes its balance from the 20 latest entries and is wrong for a
  client with more (`ClientBalanceAgrees` says when it is the balance), the overview sums
  only the 10 invoices it shows as overdue, and reminders apply their `limit` before the
  minimum amount: twenty small old debts hide a large one.
- An order whose dates are equal or inverted has stages without dates. A PATCH of its
  dates leaves the stages as they were, and two accepted plannings of a stage, one of
  each date, can leave it ending before it begins: it then counts on no day, or on one.
- The calendar lists an order at its beginning when only its end lies in the range asked,
  and not at all when the range lies within its period; the `from` and `to` it returns are
  days of UTC. The queue calls an order late from the day after its end, the alert from
  the moment of its end.
- A notification to one user reaches one of the user's sockets.
- The change shown for a treasury indicator of the dashboard is always 0, and a
  percentage of change inverts its sign for a negative previous value.
