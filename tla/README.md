# Verification of the POS and inventory system

This directory holds TLA+ models of the repository (a NestJS backend under
`backend/src` over PostgreSQL through Prisma, a Next.js front end under
`frontend/src`), the TLC configurations that check them on small instances, and
TLAPS proofs of the properties that matter most. The code is the reference: each
definition names, in `PROJECT.json` under `map`, the lines it stands for.

    tlc -workers 2 -config MCStock.cfg MCStock.tla     # and so on, see "Runs"
    tlapm StockProofs.tla                              # and so on, see "Proofs"

## The system

The front end calls the backend over REST. The backend keeps all its state in
PostgreSQL and none in memory, so its components interact in two ways: a service
calls another with the Prisma transaction it is in (`adjustStock(input, tx)`,
`recomputeWeightedAverageCost(tx, ...)`), and requests meet in the rows of the
database. Every request handler may interleave with every other at each of its
`await`s, that is, at each SQL statement. In the browser, the tabs of a user
share cookies, and each tab is single-threaded: callbacks interleave only where
they wait for an answer.

| component | state | operations | what makes it correct | modules |
|---|---|---|---|---|
| Inventory (`inventory/`) | `InventoryLevel.quantity` by (store, variant), the ledger of `StockMovement` | `adjustStock` (called by all below and by `manualAdjust`), `recordCount`, `setReorder` | never negative; a level is the sum of its movements; a request is all or nothing; every request ends | `Stock`, `AtomicLedger`, `StockRefinement`, `StockProofs` |
| Checkout (`orders/` `create`) | `Order`, `Store.receiptCounter`, `Discount.usageCount` | `create` | receipts gapless; sales take turns; stock follows orders | `Sales`, `OrdersProofs` |
| Returns, exchanges, voids (`orders/`) | `OrderAdjustment`, `Order.refundedTotal`, `Order.status` | `createAdjustment`, `voidOrder` | a unit comes back once; status follows refunds but for roundings; a cancelled order is final | `Orders`, `OrdersProofs` |
| Reports (`reports/`) | none | `summary`, six breakdowns, stock value | every breakdown adds up to the summary, but for roundings that are named; cost and stock value balance as costs change | `Reports`, `OrdersProofs` |
| Transfers (`transfers/`) | `StockTransfer` and its lines | `create`, `ship`, `receive`, `cancel` | status and goods agree; nothing arrives that was not shipped; numbers unique | `Documents`, `Transfers`, `DocumentsProofs`, `TransfersProofs` |
| Purchase orders (`purchase-orders/`, `shared/utils/wac.util.ts`) | `PurchaseOrder` and its lines, `ProductVariant.cost` | `create`, `submit`, `cancel`, `receive` | status and goods agree; the cost is the weighted average of what was paid | `Documents`, `PurchaseOrders`, `DocumentsProofs`, `PurchasesProofs` |
| Compensation (`compensation/`) | payout snapshots | breakdown, create, edit | totals add up; one active snapshot of a period; nothing returned before a payout was asked for is paid | `Payouts`, `UserProofs` |
| Categories, attributes, products, variants, discounts | the tree, values, SKUs and barcodes, target variants | create, update, archive, add, remove | no cycle; no variant with a deleted value; the checks prevent the conflicts | `Catalog`, `CatalogProofs` |
| Login and tokens (`auth/`, guards; `frontend/src/lib/api.ts`, `store/auth-store.ts`, `proxy.ts`) | the cookies, `isRefreshing` and `failedQueue` of each tab, the user's row | login, refresh, logout, both interceptors | every request settles; signing out lasts | `Session`, `UserProofs` |
| Till (`frontend/src/hooks/pos`, `lib/pos-engine.ts`, `lib/money.ts`, `components/pos`) | the cart, its discounts and payment, the barcode field, the checkout in flight | add, scan, discount, pay, charge | what is displayed is what the server charges; no unit is lost or sold twice | `Till`, `UserProofs` |
| Pages and query cache (`frontend/src/hooks`, `components`, `app`, `lib/route-access.ts`, `lib/providers.tsx`) | the entries of the cache, the screen | visit, fetch, change, invalidate | pages send only what their role is served; own changes show | `Api`, `Hooks`, `Pages`, `Screens`, `UserProofs` |
| Users, stores, suppliers, customers, brands, tax rates | single rows | create, read, update, archive | uniqueness | as table changes in `Api` only |
| Forms, printing, filters and pipes | none | rendering | | not modelled |

Hard behaviours, each at its line under `hazards` in `PROJECT.json`: statements
of two transactions in every order, values read without a lock and written
back, row locks taken in the order a client lists its lines, rollback after
part of a request, numbers counted without a lock, status checks outside the
transaction of the update, a token refresh other requests wait for, answers that
arrive after the cart or the screen has changed, answers that never arrive.
Nothing of the backend is cached or persisted outside the database, so a crash
of the server is the loss of its open transactions (action `Fail`).

## How a handler becomes actions

PostgreSQL runs at its default isolation, READ COMMITTED; no call of the
backend asks for another. From that follow the rules the modules of the stock
share (`Stock`, `Sales`, `Orders`, `Documents`, `Transfers`, `PurchaseOrders`):

* A transaction `t \in Tx` serves one request. An action is one SQL statement
  (`Stock.Statement`); a handler's variables are state (`basis`, `snap`,
  `seen`, `basisOf`).
* A plain read sees the committed row, or the transaction's own write
  (`Sees`), and takes no lock. An INSERT or UPDATE takes the row lock until the
  transaction ends, and waits for another holder (`Free`, `StoreFree`,
  `LineFree`, `VariantFree`). `inventoryLevel.upsert` with `update: {}` is a
  SELECT, and an INSERT only if it found nothing.
* COMMIT publishes all writes and releases all locks; an exception, a unique
  violation, a lost connection, Prisma's time limit or the deadlock detector
  discards them (`Rollback`, `Fail`, `DeadlockAbort`).
* Statements that write a row after which only the commit follows (the status
  of a document, the usage count of discounts, `refundedTotal`, the inserted
  order) are merged with the commit: no other statement runs while their lock
  is held, except that an adjustment counts discounts just before it writes
  the order, where no cycle of waits can arise because the order row is the
  last one anybody takes.
* `TakeReceipt` keeps the counter it wrote (`held[t].counter`), and the order
  gets that number at the commit: what makes it unique is the lock, which the
  mutant of `ReceiptsGapless` drops.
* The `updateMany` of several discounts visits them in one order, so it adds no
  cycle of waits.
* The read of a row with its items (`include`) is one action. Existence checks
  of constants (store, variant, customer) are the `valid` field of a request,
  or part of the types.
* Requests satisfy their DTOs (positive quantities, non-negative counts).
  User scope is `ActsFor`: the stores of an ADMIN are all, of others their own.

Compensation and the catalog use no transaction around their checks. In
`Payouts` every query is a step; in `Catalog` the reads before the writes are a
step, every later read is one, and the writes are the step that commits or
meets a unique index or foreign key.

History variables: `overlapped` becomes TRUE once a call begins while another
is open; `stale` and `raced` collect the rows written from an outdated read,
uncommitted and committed; `revived` that an edit took a cancelled payout back;
`outdated` that an adjustment wrote over an order that had changed since it read
it, and `asked` what was refunded or voided when a payout was asked for;
`Session.raced` that a refresh was on its way when the user signed out;
`crossed` that the cart changed under a scan or a checkout. They are read by
properties only.

Much of the code is right only when requests do not overlap. Such properties
are stated `~overlapped => ...`, in runs in which requests do overlap, next to
the ones that hold of every interleaving. `Orderly` adds that no request names
the same line twice, which no handler checks either.

## Modules

* `Stock`: `UpsertFound`/`UpsertMissing`/`UpsertInsert`/`UpsertConflict` are the
  upsert of `adjustStock` (inventory.service.ts:52-56), `AdjustWrite` its
  absolute update and its movement (58-81), `CountCompare` the delta of
  `recordCount`, `SetReorder` the upsert of the thresholds. `moved[r]` is the
  sum of the movements of `r`.
* `AtomicLedger`, `StockRefinement`: what a request promises of the ledger
  (all its movements at one point, or none), and the mapping of `Stock` to it
  (`books <- moved`, the open phases to "open").
* `Sales` (EXTENDS `Stock`): `OpenSale`, `RejectSale`, `TakeReceipt` (locks the
  store), the statements of `adjustStock`, `CommitSale`. It is checked in
  `MCOrders`, whose sales run beside returns and voids. An order has lines with
  a subtotal and a tax, and one discount over all of them.
* `Orders` (EXTENDS `Sales`): `OpenAdjust` reads the order, `ReadReturns` reads
  what was returned and decides, `CommitAdjust` writes `refundedTotal` and
  status from the snapshot; `OpenVoid`, `ReadRestores`, `CommitVoid`. Money is
  computed in ticks, `Cent` to the cent: `EffectiveUnit` is
  computeEffectiveUnitRefundMap (orders.service.ts:496-528), the order's
  discounts allocated by subtotal and a rounded quotient by quantity, `Refund`
  the sum the code compares with the total before anything rounds it
  (`StatusAfter`), and `ToCents` what a `Decimal(12, 2)` column does to it.
* `Reports` (EXTENDS `Orders`): every report as a function of the tables
  `Orders` writes, over a range of ids instead of dates. Beside them it keeps
  `cost`, ProductVariant.cost, which `SetCost` changes at any time as edits and
  receipts do, and `costAt`, the cost a request read and its items keep as
  `unitCostSnapshot` (`OrdersStep`). Returned items carry the rounded column
  `subtotal`, adjustments the column `refundAmount`, rounded once; the items of a
  group are allocated exactly and rounded once (`ItemReport`).
* `Documents` (EXTENDS `Stock`): what transfers and purchase orders share: who
  may call for which store, a call with its draft or delivery (`Raise`, `Call`),
  the numbering and the receive loop with its line locks. `Transfers` and
  `PurchaseOrders` extend it with their own handlers; `PurchaseOrders` puts
  `ReadCost`, `ReadOnHand` and `WriteCost` between a line and its adjustment.
* `Payouts`: `AskSnapshot`, `ReadEmployee`, `ReadOrders`, `ReadAdjustments`,
  `CheckActive`, `InsertPayout` are createPayoutSnapshot; `AskEdit`,
  `FindPayout`, `UpdatePayout` are updatePayout, which adds to the total it
  read. Around them `Sell`, `OpenAmend` and `CommitAmend` (an adjustment commits
  what it computed from the order it read, however much others refunded
  meanwhile), `VoidOrder` and `UpdateUser` change what the queries read.
* `Catalog`: calls are processes with a program counter (`at`) and what they
  have prepared (`mem`). `MoveCategory`, `Walk`, `PlaceCategory` are update with
  assertNoCycle parent by parent; `CreateProduct`, `UpdateProduct`, `AddVariant`,
  `PrepareVariant` (one SKU at a time), `CommitVariants`; `UpdateVariant`,
  `WriteVariant`; `RemoveValues` counts the uses and `DeleteValues` deletes;
  `CreateDiscount`, `UpdateDiscount`, `WriteDiscount`.
* `Session`: per tab `isRefreshing`, `failedQueue`, the request that refreshes
  (`refresher`) and the refresh token it presented. `Send`, `Answer`, `GiveUp`,
  `Wait`, `StartRefresh`, `NothingToRefresh` are the branches of the response
  interceptor; `RefreshSucceeds`, `RefreshFails`, `PageGone`; `Logout`, `Login`,
  `PassProxy`. Tokens are valid or expired.
* `Till`: the cart of useCart with picked and running discounts, the stacking,
  capping and splitting of pos-engine, scans of the barcode field that resolve
  later, and `Checkout` against the checks of OrdersService.create
  (`Accepts`), whose answer may be lost.
* `Api`: the handlers of every controller: roles, tables read, tables changed.
  `Hooks`: the query hooks with key and calls, the mutation hooks with the keys
  they invalidate. `Pages`: which components a role finds on which route.
  `Screens`: one tab and one entry of its cache; the data of an entry is the
  clock of its tables at the time it was read, so that older means stale.
* `MC*`: the instances. `Sums` and `*Proofs`: the theorems.

## Runs

| run | instance | asks |
|---|---|---|
| `stock` | 2 transactions, 2 rows (one may not exist), 14 requests of 1 or 2 steps, fairness; 31 000 states | `NeverNegative`, `BooksBalance`, `SerialRequestsNeverRace`; the refinement `RequestsAreAllOrNothing`; `RequestsEnd` |
| `orders` | 3 sales, adjustments or voids, 2 stores, 3 rows, an earlier order of 4 units and a discount that does not divide evenly, 4 sales (two lock rows in opposite orders, one is discounted beyond its total), requests that link a discount twice; 360 000 states | sales (`ReceiptsGapless`, `TurnsUntilAmended`), units, money and status (`UnitsComeBackOnce`, `CancelledOrdersComeBack`, `StatusFollowsRefunds`, `RefundsNeverOverstated`, `CancelledIsFinal`), discount uses (`UsageCountsDocuments`), the ledger (`LedgerFollowsDocuments`) |
| `reports` | 2 requests around such an order, a sale with a discount of a cent over two products, a variant whose cost differs now, when the order was placed and after an edit; 49 000 states | `BreakdownsReconcile`, `CostBalancesStock` |
| `transfers` | 3 calls, 2 users, a draft, a transfer on its way, new ones; 240 000 states | `StatusFollowsGoods`, `ArrivedWithinShipped`, `NumbersGapless`, `ReceivedNeverOverstated`, `LedgerFollowsTransfers` |
| `purchases` | 2 calls, 2 orders and new ones, 2 variants, fairness; 49 000 states | `StatusFollowsReceipts`, `CostWithinPrices`, `ReceiptAddsItsValue`, `PurchasesEnd` |
| `payouts` | 3 calls, a salesperson that becomes an ADMIN and one that is, 2 orders of 2 days, an adjustment in two steps, edits of one field and of both; 1 012 000 states | `TotalAddsUp`, `OneActivePayout`, `NothingReturnedIsPaid` |
| `session` | 2 tabs, 3 requests, one change of the account, fairness; 59 000 states | `WaitersHaveARefresh`, `SignedOutStaysOut`, `RequestsSettle` |
| `till` | 2 variants, up to 3 units, 2 clicks on discounts, 1 lost answer; 939 000 states | `DisplayedTotalIsCharged`, `EveryUnitAccounted` |
| `catalog` | 3 calls, 4 categories, 2 products, 2 variants, 3 values, 2 discounts, 31 requests; 244 000 states | `SerialMovesMakeNoCycle`, `CarriedValuesExist`, `ChecksPreventConflicts`, `OrderDiscountsHaveNoTargets` |
| `screens` | every page, role, query and mutation; a clock up to 2; 752 000 states | `PagesAreServed`, `ScreensAnnounced`, `OwnChangesShow` |
| `stock_atomic` | as `stock` | `LevelIsSumOfMovements`, violated: see below |
| `orders_repeated` | 2 transactions | `ReturnsWithinSold`, violated |

Why the bounds are enough. The races of this code are between two
transactions; a third one is there to observe the result or to close a longer
cycle. Requests have at most two lines (three in a delivery), enough for
opposite lock orders, for failure after part of the work and for a row touched
twice. Quantities are small because only their sign, their being zero and their
sums matter. Amounts are chosen so that every division has a remainder: with ten
ticks to the cent (`Cent`), 3 units of 10.00 that share a discount of 0.26 are
worth no whole number of cents, and whether returning them makes the order
`REFUNDED` depends on the order in which they come back. The proofs hold for any
`Cent`. In purchase orders, deadlocks are between lines, variants and rows
of two orders. A move of a category races with one other; a third call sees the
result. Two tabs share the cookies, and the second request of a tab is the one
that waits for the first one's refresh. Three units let a scan, a tap and a
discount of part of the cart meet. A screen compares what it shows with one
change before and one after, hence a clock of two. Every bound is a constant
named in the cfg (`MaxUnits`, `MaxClicks`, `MaxLosses`, `MaxChanges`,
`MaxClock`) or the size of a set.

Where transactions or calls are interchangeable and no liveness is checked,
they are declared symmetric (`MCSymmetry`).

Deadlock is checked in every run but `screens`, where `MaxClock` stops the
changes. A state where every request has ended stutters by `Terminating`; any
other state without a successor would be an error.

Fairness. `FairInventorySpec` and `FairPurchaseSpec` are weakly fair to the
statements of every open transaction: Node's event loop runs every continuation
that is ready, PostgreSQL grants a free row lock and its deadlock detector ends
every cycle of waits. `Session.FairSessionSpec` is weakly fair to the answer of every
request sent, to the end of every refresh, and to the change of page of a tab
that was told to go to `/login`: the server answers or the network gives up, and
the browser follows `window.location`. Nothing obliges a client to send a
request, a user to click, a token to expire or a connection to fail, so those
have no fairness.

### What the passing runs show

Whatever overlaps:

* no level is negative; a level departs from its movements only by a write from
  an outdated read; a request posts everything or nothing;
* receipts and document numbers have no gaps; until the first return or void,
  sales of a store neither lose updates nor deadlock, although `adjustStock`
  locks nothing before it reads, because they all take the store's counter first;
  the usage count of a discount is the number of orders and adjustments that
  link it;
* the ledger moves exactly as the documents committed; `refundedTotal` and
  `quantityReceived` may lose an overlapping update but never overstate; the
  cost of a variant stays within the prices paid;
* every breakdown of the sales report by documents adds up to the revenue of the
  summary, and one by items does but for half a cent a rounding, in every state
  that orders, returns, exchanges and voids can reach;
* every payout pays its salary, commission and adjustment, and none pays a
  commission on a sale refunded or voided before the payout was asked for, nor
  leaves out a refund of the period made by then, whatever changes between its
  queries (where no adjustment wrote over an order that had changed meanwhile);
* no variant carries a deleted attribute value: the foreign key decides what
  the count before the delete cannot;
* in the browser, no request waits for a refresh nobody runs, every request is
  settled or its page is left, and who signs out stays signed out unless a
  refresh was on its way;
* the till charges what it displays wherever cart and server use one tax rate;
* every request a page sends is one its role may send, and every mutation tells
  the screen it is pressed on.

While calls do not overlap: a unit comes back once; a void puts back exactly
what is out; `refundedTotal` is what the adjustments paid back, and the status
follows from it but for the roundings `StatusFollowsRefunds` names; a cancelled
order is final; cost of goods and stock value are two views of the same units,
whatever a variant costs when they are sold, come back or are counted
(`CostBalancesStock`); a receipt adds what was paid for it to the value of the
stock, but for rounding; a user and period has one active payout; the categories
stay a tree; the checks of products leave nothing for the unique indexes to
refuse; ORDER discounts have no target variants.

Three properties have premises about money. `Covered`: no item of the order is
worth less than nothing, which an order discount above the sum of the subtotals
allows, as it may also eat the tax (orders.service.ts:509-523). `Priced`: no unit
is so cheap that roundings may hide it, a free one included. `WholeCents`: the
quotient of every line is a whole number of cents.

### Where the code departs from what it says

* `stock_atomic`: "Atomically adjusts InventoryLevel and writes a
  StockMovement." (inventory.service.ts:32). Two overlapping adjustments of one
  row leave a level that is not the sum of its movements.
* `orders_repeated`: "Cannot return more than remaining" (orders.service.ts:603).
  A request naming one item on two lines, or two overlapping ones, can.

Of the same kinds, and visible by dropping `~overlapped`, `Orderly` or another
premise from a property:

* a transfer shipped twice (transfers.service.ts:169), or cancelled while it
  ships (272); a delivery naming a line twice (transfers.service.ts:220,
  purchase-orders.service.ts:229); a purchase order cancelled while it is
  received (purchase-orders.service.ts:191);
* a cancelled order overwritten by an overlapping adjustment
  (orders.service.ts:803); an order with a free item REFUNDED before that item
  is returned, so that a void of it restores nothing (orders.service.ts:805,
  839), hence `Priced`;
* an order of 3 units for 10.00 that are all back and that stays
  PARTIALLY_REFUNDED: returned at once they are worth 9.99...9, which is compared
  with 10.00 (orders.service.ts:523-527, 805) before the column `refundedTotal`
  rounds it to 10.00, the total; returned one by one they are 3.33 each, and
  `refundedTotal` stays at 9.99. Hence `WholeCents`. The other way round, many
  refunds that are each rounded up may make an order REFUNDED before all of it is
  back, hence `Slack`;
* rows of a breakdown by item that do not add up to the grand totals: every row
  is rounded by itself after the allocation, so a discount of 0.01 over two
  products is taken off both or off neither, where the comment says "so every
  breakdown reconciles to `Order.grandTotal`" (reports.service.ts:81). Hence the
  roundings in `Reconciles`;
* a partial refund that costs a salesperson the commission on the whole sale and
  the refund as well: commission counts COMPLETED orders only, and subtracts the
  refunds of all (compensation.service.ts:303, 215), where the comment says
  "Credit the same salesperson as the original sale so refunds net against their
  commissionable total." (orders.service.ts:729);
* a commission on a sale paid out on one day and refunded on a later one: the
  later period is floored at zero (compensation.service.ts:123), and what a
  payout says is never computed again. `NothingReturnedIsPaid` says what a payout
  can know: what was returned before it was asked for;
* a cost blended from outdated values (wac.util.ts:27-37);
* two active payouts of a period, by overlapping calls or by taking a cancelled
  one back (compensation.service.ts:354);
* a cycle of categories closed by two moves (categories.service.ts:163);
* a refresh in flight that signs the user in again (api.ts:85);
* a checkout whose answer was lost, sold again (pos/page.tsx:256);
* a total the server refuses because the cart ignores the tax rate of the
  category (pos-engine.ts), hence `TaxAgrees`; a discount chip whose index
  counts the merged list and so removes another discount (CartPanel.tsx:122).

Two more observations are not stated as properties. `create` counts the use of a
discount without comparing it with `usageLimit`, so in `Sales` and `Orders` the
count has no bound. And a change is announced to the screen it is made on, not
to every screen that shows it (a sale to the dashboard, a product to the
orders): they show old data until it is older than `staleTime`, and a screen
whose first load was overtaken by a change shows it as fresh.

## Proofs

Every theorem is of any sets of transactions, rows, requests and documents,
from the named assumptions of the modules only. An assumption on a constant
says what a DTO, a Prisma column or a handler guarantees of it (a quantity is a
positive integer, a delivery has a line, `@ArrayMinSize(1)`), that a special
value is none of the ordinary ones, that rows of different stores differ, or
that what was stored before the behaviour starts was stored by the same code
(`PastAssumption`, `FreshAssumption`, `EarlierAssumption`,
`UntouchedAssumption`, `RowsAssumption` of `Catalog`). TLC evaluates each of
them in the runs.

A theorem `[]P` has an inductive invariant, the lemma that `Init` has it, the
lemma that a step keeps it, with a step per action, and the lemma that it gives
`P`. An action property has the invariant and a lemma of one step.

### `Sums`

Refunds, deliveries, levels and reports are sums over finite sets
(`SumFunctionOnSet`), which the library defines by a recursion that picks the
elements in any order. The laws (`SumAdd`, `SumUnion`, `SumSwap`, `SumGroups`,
...) are proved from that definition. Induction over the subsets of a finite set
is stated with a set in place of a predicate (`SubsetInduction`): what holds of
no smaller subset has a minimal counterexample, by the well-foundedness of
inclusion. `AdditiveExists` and `AdditiveRecursion` show that some function has
the recursion's equation and is it, `SumAdditive` that the order does not
matter. `SumItems`, over the lines of documents, and `SumGroups`, over the groups
of a report, are the ones the components use most.

### `StockProofs`

* `StockTypes`, `StockNeverNegative`, `StockBooksBalance` from one inductive
  invariant, `StockInv`. The three are not inductive: a commit publishes pending
  writes, so the invariant has to say that a pending write is natural
  (`WorkNatural`) and is the ledger with the pending movements unless made from
  an outdated read (`WorkBalances`); that the ledger cannot move under it,
  because row locks are exclusive (`Exclusive`) and a transaction has movements
  only on rows it holds (`OnlyLocked`); and that an INSERT does not overwrite an
  own write (`InsertsUnwritten`). `WriteInv` is the one lemma for the three
  statements that write, `RollbackInv` the one for everything that aborts.
* `StockSerial` from a second invariant on top, `SerialInv`: while no request
  has overlapped, at most one transaction is open (`Alone`), nothing is stale
  and what it read is what it still sees (`BasisCurrent`).
* `StockSerialBooks` from the two: until requests overlap, every level is the
  sum of its movements, which is what the comment the run `stock_atomic`
  refutes promises.
* `StockImplementsLedger`: the refinement of `AtomicLedger`. `AccountedInv` says
  that what a transaction has posted, with what its remaining steps will post,
  is what it was asked; a count posts nothing on other rows and any difference
  on its own, before which it is not determined. So a commit, with no step left,
  moves the ledger by the whole request, and every other step stutters.

### `OrdersProofs`

Checkouts alone. `SalesInv` is `StockInv` with what the lock on the store
protects: whoever is past its receipt number holds its store, alone, with the
number after the last one given (`StoreHeld`); it writes rows of its own sale
only, and rows of different stores are different, so no read is outdated when it
is used (`TurnsTaken`). From it:

* `SalesReceiptsGapless` and `SalesUsageCounts`; counting the orders of a store
  needs that they are finitely many, which `Numbered` and `Counted` carry along;
* `SalesSerialised`: no sale waits for a row another one holds, so there is no
  cycle of waits, and no update is lost. `OrdersTurns` carries it over to the
  system with adjustments and voids, until the first of them begins: while no
  stage but those of a sale has been reached, a step of `Orders` is one of
  `Sales` (`TurnsInv`);
* `SalesBooksBalance`: while only sales move stock, every level is the sum of
  its movements, of which `Stock` alone promises this only without overlap.

With adjustments and voids, whatever overlaps:

* `OrdersBooksBalance`: `AmendInv`, below, contains `StockInv`, so that no level
  is negative and none departs from its movements but by an outdated write. The
  lock on the store does not help here: adjustments and voids do not take it.
* `OrdersReceiptsGapless` and `OrdersUsage`. `NumberingInv` says that whoever
  holds a store is a sale past its receipt number, holds it alone and has the
  number after the last one given (`StoreLocked`), and that the count of a
  discount is the number of committed orders and adjustments that link it
  (`UsesCounted`), of which a commit adds one, however often the request lists
  the discount.
* `OrdersRefunds`. `AmendInv` says that the order in a transaction's snapshot is
  an earlier state of the row: same lines, and no more refunded than now
  (`Handled`), and that every adjustment committed names an order and lines
  that exist (`Recorded`). So the total written back, which may lose another
  adjustment's, is at most the sum of all.
* `OrdersLedger`. `PostingInv` follows a sale, an adjustment or a void through
  its statements: what it has posted and has still to post on a row is what its
  document will say (`Posting`, `Due`). With `Sums` the documents' side moves at
  the commit by the same amount (`Follows`). Only the sum over `restock` returns
  depends on the order, whose lines never change (`ItemsStay`).
* `OrdersReports`, of `ReportsSpec`: each of the breakdowns is a grouping of the
  same items by some key (`Grouped`), and `SumGroups` adds the groups up. By
  documents that is all. By items the columns and groups are rounded: a
  `HalfUp` is at most half its divisor off, a sum of roundings at most the sum of
  the halves, and the allocated discounts of an order add up to its discount but
  for half a tick an item, which together are the bound `Roundings`. It needs
  that stores are finitely many; that items are is part of the invariant.
* `OrdersCost`, of `ReportsSpec` and of tidy tables only (no call overlapped, no
  order was voided after a refund). Weighed by unit cost, the documents of a row
  add up to the documents one by one (`SoldWeighs`, `VoidedWeighs`,
  `RestockedWeighs`, `ExtraWeighs`, by exchanging two sums), which is what the
  summary reads, at the cost each document keeps; `Revaluation` is the difference
  to what the same goods cost now. The stock report reads the ledger, which is
  the level of every row, as no write was stale (`Serial`); and a voided order
  without adjustments has put back all it sold, so leaving its items out of the
  cost takes out what the void brought back (`VoidsFit`). So in every tidy state
  the figures add up to what the stock no document accounts for is worth now
  (`Balanced`), and that changes only with the costs themselves. It needs that
  stock rows are finitely many.

While calls do not overlap: `OrdersInv` says that the copy of the order an open
adjustment or void works from is the order as it is (`CopyIsCurrent`), past the
checks it exists and is not cancelled (`StillLive`), and the order a sale
creates is not there yet (`OwnOrder`); from it `OrdersCancelledIsFinal`.
`OrderlyInv` adds, of every order, that no unit is back twice, that only a void
puts back what nobody returned, that after a void everything is back, and that
status and `refundedTotal` are those of the returned units (`OrderFits`). The
last compares roundings with units: what the adjustments of an order paid back,
and the worth of what is still out, add up to its total but for `Slack`, so an
order that is refunded in full has at most that much out, and a unit worth more
is not among it (`PaidInFull`). From it `OrdersUnits`,
`OrdersComeBack` and `OrdersStatus`. `OrdersSerialBooks`: nothing is written
from an outdated read (`Serial`), so every level is the sum of its movements.

### `DocumentsProofs`

`DocumentStep` is what a step of either service does to the variables of
`Documents`; four invariants are kept by any such step, and each service shows
once that its steps are of that kind (`TransferKinds`, `PurchaseKinds`):

* `DocumentsInv`: the numbers in use are 1 to the number of documents, and a
  number counted and not yet inserted is at most the next one, so that the
  unique index leaves exactly the next (`Numbered`); lines stay as they were
  raised; an open delivery names lines of its document and has written those it
  has passed (`Delivers`).
* `CountedInv`: no line, committed or pending, shows more than the deliveries
  committed, and the pending one, brought. A lost update makes it less.
* `PostingInv`: as for orders, what a delivery has posted and has to post is its
  delivery.
* `SequentialInv`: without overlap the snapshot is the document, and every line
  shows exactly what came.

### `TransfersProofs`

`TransfersInv` adds that what is on its way or received has left (`HasLeft`),
that having left lasts, and that what an open call knows of its transfer lets it
ship or receive (`Knows`). From it, whatever overlaps, `TransfersNumbered`,
`TransfersNeverNegative`, `TransfersReceived` and `TransfersShipFirst`: every
delivery committed belongs to a transfer that was shipped, although `cancel` may
overwrite the status meanwhile. `TransfersLedger` is from `LedgerInv`, in which a
ship owes its lines and a delivery what it brings. Without overlap, `StatusInv`
gives `TransfersWithin` (nothing arrives that was not shipped) and
`TransfersStatus`. `TransfersBooksBalance` (whatever overlaps) and
`TransfersSerialBooks` (without overlap) are those of `Stock` for shipments and
deliveries.

### `PurchasesProofs`

* `PurchasesNumbered`, `PurchasesNeverNegative`, `PurchasesReceived` as for
  transfers, `PurchasesStatus` without overlap; `PurchasesBooksBalance` and
  `PurchasesSerialBooks` likewise.
* `PurchasesCostWithin`, whatever overlaps. `PricesInv`: every cost, committed,
  pending or read, lies between two of the prices paid or the first cost
  (`Within`), and prices paid stay paid. A blend, rounded, of two values lies
  between them; this is arithmetic of `\div` (the lemmas before
  `PricesInv`).
* `PurchasesValue`, without overlap. `BlendInv` follows the loop: after the
  lines handled so far, the cost times the units on hand is the value before
  plus what those lines cost, but for at most half a cent a unit of each
  blend (`Valued`, `NearZero`). Between `ReadCost` and `WriteCost` it says what was
  read (`Read`), and that what is on hand is the level before and what the
  earlier lines brought (`Hand`, `Coming`), over finitely many rows.

### `UserProofs`

* Payouts. `AddUpInv` says that stored totals add up and that what an open edit
  has read did when it was read and is recomputed from it, hence `PayoutsAddUp`
  under any overlap. `OneRuns` and `CheckStillHolds` say that at most one call
  is open and that what it found inactive still is, hence `PayoutsOneActive`
  while nothing overlaps and no cancelled payout is taken back.
  `PayoutsLeaveReturnsOut`: what was spoiled when a payout was asked for never
  counts again, unless an adjustment writes back the status of an order as it
  was (`outdated`), and adjustments are only added. So whichever query is
  answered first, the sales read are among those unspoiled, and the refunds read
  are at least those of then (`RemembersSales`).
* Sessions. `SessionTypes`, `QueueFollowsFlag` (a request is in the queue only
  while `isRefreshing` is set, and that flag is set only by a request that
  refreshes or in a page that is leaving) and `SessionEnded` (who has signed out
  has no token, and no refresh that could bring one, unless one was on its way).
  From them `SessionWaiters` and `SessionSignedOut`.
* Screens. `ScreensInv`: while every mutation announces what its screen shows,
  data from before a change of the tab is marked as stale, overtaken by a fetch,
  or about to be replaced by one (`OldDataIsMarked`, `OldFetchIsOvertaken`,
  `ShownIsFetched`, `HereIsTold`). `ScreensShowOwnChanges` has that premise,
  `ScreensAnnounced`, for any tables of hooks and handlers; the run `screens`
  checks it of the actual ones.
* Till. What makes `DisplayedTotalIsCharged` true is a fact about one cart: for
  any lines, discounts and rates, the payload a checkout sends keeps the promise
  (`PayloadCharged`), where the server finds the tax the cart showed
  (`TaxAgrees`). Amounts capped by what the ones before them left add up to the
  sum of the uncapped ones or to the base, whichever is less (`CappedSums`), so
  what is sent of a list of discounts is what was displayed of it and within its
  base (`SplitAddsUp`). The merged list of running and picked discounts is some
  of the two, each in its turn (`DedupePositions`), so a line carries only what
  was offered on it, and the number of a chip is the number of a discount that
  is there (`ManualIsPicked`). Splitting and merging are functions over the
  positions of a list, so the induction of `CappedSums` is on a number. Cents
  are integers and rates exact fractions; the binary rounding of the program's
  floating-point products is not modelled. From it, `TillInv`: every discount in
  the cart was offered (`CartTypes`), the units of an undisturbed cart are those
  entered and not sold (`UnitTypes`, `UnitsFollow`), and the payload in flight
  keeps the promise; hence `TillCharged` and `TillUnits`.

### `CatalogProofs`

* `CatalogForest`, `CatalogSerialMoves`: `ForestInv` says that no set of
  categories is closed under parents, and that the walk of the one open move has
  seen every category it passed. A closed set after the move would contain the
  moved category and so its new parent and so ever more of the walk; its part
  in the walk would have been closed before.
* `CatalogValues`: `CarriedValuesExist` is inductive by itself, whatever
  overlaps, because the two writes that could break it meet the foreign key.
* `CatalogDiscounts`: the row a call has decided to store has no targets if its
  scope is ORDER, in view of the row it will be written over (`DiscountsInv`).
  An update leaves out what its request leaves out, so the copy has to be
  current, which it is while no other call is open.
* `CatalogVariants`, `CatalogChecks`: without overlap, the rows a call is about
  to write are different from the stored ones and from each other in SKU,
  barcode and, within a product, name (`VariantsInv`), so no unique index
  refuses them. A client's values were compared; a generated number is one no
  row has, which exists because the numbers in use are finitely many
  (`Skips`).

### Only model-checked

* Liveness: `RequestsEnd`, `PurchasesEnd`, `RequestsSettle`.
* `PagesAreServed` and `ScreensAnnounced` are statements about finite tables,
  and TLC reads those completely.

## Not modelled

* Registries (users, stores, suppliers, customers, brands, tax rates): a check
  for an existing row and an insert under a unique index, as for categories;
  which roles call them, and which screens they change, is in `Api` and `Hooks`.
* The percentages and unit prices subtotals, taxes and discounts come from
  (create checks them; a verdict here, arithmetic in `Till`), the tax report,
  payments beyond their sum, the preview of a refund. A quotient has twenty
  digits in the program and is rounded to a tick here; the number of ticks in a
  cent is a parameter. `round2` of the reports and `round` of compensation work
  on binary floating point, and are half-up roundings of exact sums here.
* The split of a report's rows into gross, discount and tax, and the list
  `summary` of compensation, which adds the breakdowns of all employees.
* Coupon codes and `validate`, which no checkout calls.
* Forms and their fields, printing, layout, the user cookie that `hydrate` reads.
* SKUs a client chooses that begin like a generated one and do not end in a
  number: `nextVariantSku` would read NaN there and start again from 1. A create
  that names an `id` for a new variant (create-product.dto.ts:19-22) is let off
  the barcode check (products.service.ts:179-182) and answered by the unique
  index instead; the forms send none.
* Unique conflicts one catalog transaction may have with itself between two of
  its writes (two variants that swap their SKUs); random barcodes; numbers of
  products past 999, names and positions.
* Document numbers of different months (each month is numbered as one is here),
  movement prices and notes, listings; overflow of counters (32 bits hold any
  real quantity); deletion of stores and variants under open requests.

## Plan

1. A composition of sales with transfers and purchase orders over the same rows,
   where the store lock no longer protects the stock statements.
2. The preview of a refund, which is rounded by unit, against what the refund of
   a line pays.
3. The forms that edit several rows (`ProductForm`, `PoForm`) as what they send.
