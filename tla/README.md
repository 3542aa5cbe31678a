# Formal models of the demo shopping mall

TLA+ models of the transactional core of this repository: the stock of a
variant, the holds shoppers take on it, the orders and payments that turn holds
into sales, the way of a paid share to its buyer, the claims that undo it, what
sellers are due for it, the search index, and the background jobs that finish
what was left open. TLC checks each model on small instances; TLAPS proves every
safety property that those runs check, for instances of any size. Liveness stays with
TLC.

Paths below are relative to the repository root; `api/` is `apps/api/src/`.

## 1. The system

A multi-seller shop: three Next.js front ends (`apps/shop`, `apps/seller`,
`apps/admin`), one NestJS API (`apps/api`) on PostgreSQL through Prisma, and
shared packages for contracts, prices, UI and mocks (`packages/*`). All shared
state is in the database, at READ COMMITTED: what keeps concurrent requests apart
is row locks (`SELECT ... FOR UPDATE`), conditional updates, check constraints
and unique indexes. Jobs run in the API process once a minute, each behind an
advisory lock; several instances may run.

| Component | State | Operations | Meets others through |
| --- | --- | --- | --- |
| stock ledger (`api/stock`) | `ProductVariant.stock`, append-only `StockLedger` | open, adjust, setLevel, confirmReservations | the variant row, shared with reservations; called by products, payments, claims |
| reservations (`api/reservation`) | `StockReservation`, `ProductVariant.reserved` | hold, reserveMany, confirm, confirmCheckout, release, releaseCheckout, extend | called by checkout, order placement, markPaid |
| expiry sweeper (`api/reservation`) | nothing of its own | release expired holds, fail their orders | writes reservations, variants and seller orders |
| checkout and orders (`api/orders`) | `Order`, `SellerOrder`, `OrderItem` | open, close, create, markPaid | draws lines from holds; completed by payments |
| payments (`api/payment`) | `Payment`, `PaymentEvent` | start, authorize, confirmToss, capture, recover, cancel, refund | a provider over HTTP (Toss) or in our database (virtual card); markPaid |
| payment jobs | per-payment "next try" columns | reconcile, straggler, webhook | the payments and, after a capture, markPaid |
| virtual cards | limits, used amount, card ledger | authorize, release | a payment provider |
| fulfilment (`seller-order`, `shipping`) | `SellerOrder.status`, `Shipment` | prepare, ship, scan, deliver, confirm | claims, settlement, points |
| claims (`api/claims`) | `ClaimRequest`, `ClaimItem`, `ClaimRefund` | file, decide, inspect, refund, restock, retry | the share, payments, stock, points, coupons |
| coupons, points | issued coupons; point accounts, lots | issue, use, restore; earn, spend, expire | order placement, claims, confirmation |
| settlement (`api/settlement`) | `Settlement`, `SettlementItem` | hourly batch for the week before; approve, hold, pay | confirmed shares, refunded claims |
| sessions (`api/auth`) | refresh-token families | issue, rotate, revoke | every request |
| search (`api/search`) | `SearchOutbox`, the engine's index | publish, drain, rebuild | product writes |
| the rest | catalogue, cart, sellers, reviews, questions, reports, notifications, demo data, files, operations | reads and a user's own writes | little |

### Which behaviours are hard

* Steps that read before they act. The sweeper reads expired rows without
  locks; closing a checkout lists rows and then releases them one by one; an
  order's lines are drawn outside the transaction that stores it.
* Two counters and a table that must agree (`stock`, `reserved`, the HELD rows),
  each written by several services.
* A payment provider is called outside any transaction. The request or its answer
  may be lost, late or unreadable, the process may stop at any point, and a webhook,
  a batch and the shopper may all work on the same payment.
* Time: holds of 15 minutes against payments that may be known only later.
* What follows from a commit (a refund, a restock, points earned) is called from
  memory after it; some of it has a job that tries again, some has not.
* Amounts that are divided, rounded and clamped over several claims and weeks.
* Locks taken in several orders.
* Jobs that must, in the end, leave nothing open.

`PROJECT.json` lists each hazard at its line, with the properties that guard it.

### What makes each component correct

* stock: the ledger explains the level; a referenced movement counts once; what
  is reserved is on the shelf.
* reservations: `reserved` is the sum of the HELD rows; a hold ends once; what is
  held can be sold; a confirmed hold is sold exactly once.
* checkout, orders, sweeper: a paid order is deducted from stock and an unpaid one
  is not; an outcome is final; every order is decided.
* locks: no wait cycle among those that lock in order; every transaction ends.
* payments: an order is never charged twice and FAILED means no money moved, unless an
  answer could not be read; the books claim no more than the provider has done; only table transitions; every
  claimed authorization ends known; uncaptured money goes back.
* fulfilment: share and parcel agree; nothing turns back; what was shipped is
  delivered and closed in the end.
* claims: a unit is claimed once and comes back to the shelf once; a share ends with
  its last cancelled unit; what was approved is refunded in the end, unless claims that
  are refused for ever fill the retry's batch.
* refunds: what the provider gave back, the books, the points and the coupon agree;
  refunds of a share add up to what was paid for it.
* settlement: a seller is never short; every write is exact; sums are those of the
  lines; what was confirmed is settled in the end, unless a CHECK refuses the sheet.
* search: a stale document of a product whose last change was published has an event
  that corrects it.

## 2. Modules

| Module | Models | Composes |
| --- | --- | --- |
| `Totals`, `Holdings` | sums of quantities; the immutable columns of `StockReservation` | |
| `Stock` | `api/stock` | |
| `Reservation` | `api/reservation` | extends `Stock`, `Holdings` |
| `Inventory` | abstract specification: pieces on a shelf and promises | implemented by `Reservation` |
| `Checkout` | placement of orders, markPaid, the expiry sweeper | extends `Reservation` |
| `Ordered` | lists in order of id, and what is left of a queue | |
| `Locks` | the row locks of the transactions above | extends `Ordered` |
| `Payment` | `api/payment`: service, rules, providers, jobs | |
| `Fulfilment` | seller orders, shipments, the delivery and confirmation jobs | |
| `Claims` | `api/claims`: from filing to restock | extends `Fulfilment`, `Stock`, `Totals` |
| `Refunds` | what one refund does to money, points and coupon | extends `Totals` |
| `SerialRefunds` | abstract specification: refunds made one at a time | implemented by `Refunds` |
| `Settlement` | `api/settlement` | extends `Totals` |
| `SearchOutbox` | `api/search`: queue, indexer, rebuild | extends `Ordered` |
| `*Proofs` | theorems | |
| `MC*` | the instances TLC checks | |

### Stock

`stock`, `reserved` and `ledger` are the two counters of a `ProductVariant` and
its `StockLedger` rows in `seq` order. Each operation locks the variant row
before it reads, so each is one atomic action at its commit; a refusal rolls back
and is no step. `Record` is `StockService.record`; its last conjunct is
`ProductVariant_reserved_check`, which every update of the row must pass.
`Recorded` is the partial unique index `StockLedger_ref_key`. The module has no
specification of its own; `Reservation` and `Claims` run its operations.

### Holdings and Reservation

A hold is a row that may come to exist; its variant, quantity and checkout are
never updated and are constants. `status` is `"NONE"` before the insert.
`timeLeft` is `expiresAt` as a distance from now, counted down to -1 ("past").
`Reserve`, `Sell` and `GiveBack` are the writes, `Settlement` the decision on the
locked row. `closing[c]` is the local list of an unfinished `releaseCheckout`;
`ReleaseListed` is one iteration of its loop. Sellers' movements on the same
variants are `SellerMoves`.

Totals of quantities (`Totals`) are cardinalities of sets of pieces, which needs no
recursion and can be proved about.

`Inventory` says what the two services promise together. `Reservation` implements it
with `onHand <- stock` and a hold's status as its promise (`ImplementsInventory`).

### Checkout

Adds orders and the sweeper. `batch` is what the running sweep has read: listing
and committing are two steps, and the writes of the commit do not look at the
rows again, as in the code. The advisory lock allows one sweep. `drafted` holds the
lines an order request has drawn and not yet stored. `captured` is the payment's
`PAID`. The shares of one order are created together and leave
`PAYMENT_PENDING` together, so `share` is one status per checkout.

### Locks

A transaction is the sequence of rows it locks; PostgreSQL keeps them to the end.
Ids are numbers, since the code orders by id. Any transaction may stop early, which
covers refusals and early returns. `loose` are the sessions whose transaction does not
follow the order of tables and ids: a seller's edit, which updates the variants it names
one by one in the order of the request, or all of a product's in one unordered statement
when it is removed; the end of a demo account, which gives back the units of its holds in
one unordered statement; and the sweep. The sweeper takes a variant and then the row, and
requests a row and then its variant, so the two can wait for each other, which the
comment at `reservation-sweeper.service.ts:237` denies; `Victim` is the database's
deadlock detection, which ends one of them. Requests that lock in order never wait for one another
in a circle (`NoWaitCycle`).

### Payment

One row per attempt, oldest first in `rows`; `method` is its provider, and the card
where that is a virtual one. `Claim`, `Land` and the call between
them are separate steps (`calling`). `bank[p]` is what became of the request:
never sent, on its way, charged, refused, or lost. `asked` holds answers of
`recover` not yet landed (a webhook and the batch may hold the same one).
`abandoned` holds what the straggler has listed and not yet cancelled. `Stop` is a
process that stops: all three lose their entry. `MarkStale` looks at no provider, so a
virtual-card payment can become UNRESOLVED too, which a comment in
`virtual-card.provider.ts` rules out. An answer of Toss that says nothing of the request
(an HTTP error that is no refusal, a body that cannot be read, a status that is not DONE)
is `"unreadable"`, may come whatever the provider did, and lands as a refusal, in the
request and when the provider is asked again; `misread` keeps the payments that failed by
one, and what is promised of money is promised of the others. `GiveBack` either commits, or the
provider has returned the money and our transaction fails. The order is here only as
`shares` and `held`. `aged[p]` says that the 60 s grace is over.

### Fulfilment and Claims

`order` is `SellerOrder.status`, `parcel` the furthest place of its shipment, whose
tracking events are not kept apart. The jobs list in one transaction (`listed`,
`toConfirm`) and handle each share in another; a listed parcel is advanced from the
place that was read. `unsaid` is a committed confirmation that is not told yet: a stop
loses it, and with it the share's points.

A claim starts as `FILING`: its route, a cancel or a return, and the units left were
read, and nothing is stored. `FileClaim` is the transaction that then files it, holds
its units on the lines (`claimed`) and, where the route says so, approves it at once.
`Refused` are the claims that every try refuses, since the payment is used up or gone;
`before[c]` has the claims that came to await their refund before `c` did, which is the
order of `updatedAt`. `MoveClaim` is `applyWithin` with the share's transition that goes with it
(`SettleShare`), in one transaction. `after` is what the deciding process still calls:
refund, then restock. `Stop` loses it. `RetryRefund` is the job that takes up
refunds, of the `RetryBatch` claims that have waited longest (`NextBatch`); nothing takes
up a lost restock. `order`, `parcel` and the claims move together
in one specification, with the ledger that gets the units back.

### Refunds

One refund is a transaction of several statements, each a step: `Begin` locks claim and
share, points are restored under the account's lock, the coupon is given back when all
it reached is refunded, earned points are taken back, the provider is asked, the books
are written. `tx[c]` is where it is, with the amounts it has computed; `Lose` is a
failure or a stop at any point, after which the provider keeps what it did and the
books know nothing. Amounts are the code's integer arithmetic: floors over accumulated
units, the shipping fee charged again below the threshold, the clamp at zero.

`Earn(s)` is what the confirmation of a share adds to the account, on all that was paid
for it, and may come before, between or after the share's refunds, or while one is under
way: it takes the account's lock and not the share's. That a share is refunded in part
before it is confirmed is possible, since a return of part of it leaves it DELIVERED.
`clawback` takes nothing back where it finds no EARN row; `unearned` is a history of
which refunds found none.

`SerialRefunds` is what the locks are for: each refund one step, computed from those before
it. The share's, the account's and the payment's locks are taken one after another, so
this is not evident, and it is not quite true: whether the coupon comes back is read from
other shares, which nobody locks; nor is whether the share has earned points read under a
lock that keeps it from earning them. The abstract specification leaves both open (a refund
may give the coupon back or not, may have missed points or not), and `DiscountsComeBack`
says what comes of it.

### Settlement

`sale[s]` and `deducted[s]` are the SALE line of a share and its adjustments by week.
Amounts are units: every amount of the code is a floor of something proportional to the
units a share keeps, so it grows with them, and an adjustment is the difference of two
such amounts. Money comes in at one place, `Settlement_total_check` (`TotalCheck`), which
wants the adjustments of a sheet to give the seller nothing: a unit is worth its `Price`
less its `Charges`, commission and seller coupon, whose rounding is left out. A seller's
transaction that it refuses is no step, and the batch goes on (`FailSeller`). The batch keeps its candidates (`task`) and what it has read
(`returnedThen`) between its transactions. The database's dates matter in one comparison,
and `late` is its outcome. A refund dated before the line and committed after it would
be passed over as well; in the model refunds are dated by their commit.

### SearchOutbox

A document is the version of the product it was built from. `drain` and `rebuild` are
where the two jobs are and what they hold in memory; every call to the database or the
engine is a step, between which products change, the process stops or the engine
restarts empty. Which product a write publishes, and that it does so in the same
transaction, is from the callers. So is which write publishes none: `Delete` is
`ProductService.remove`, `ChangeUnpublished` a report that hides a product or lets it back,
a sale of the last units, a new name of a brand or a category. `silent` are the products
whose last write was one of these.

## 3. Runs

| Run | Question | Distinct states | Result |
| --- | --- | --- | --- |
| `reservation` | three holds in two checkouts on two variants, sellers moving stock, no sweeper; also the refinement | 25194 | holds |
| `checkout` | the same with orders, late captures and the sweeper | 225627 | holds |
| `locks` | two sessions, each any request, edit or clearing, and the sweeper | 49928 | holds |
| `payment` | two attempts on one order, each by any of two cards and Toss, answers that cannot be read, a lost record of a return | 213781 | holds |
| `claims` | two claims out of three on a share of two lines, one refused for ever, one stop | 437785 | holds |
| `refunds` | four claims on two shares of an order with coupon, points earned at any time, and shipping, which may use the payment up, one lost transaction; also the refinement | 74912 | holds |
| `settlement` | two shares of a seller over three weeks, one of which cost him more than it brought | 309865 | holds |
| `outbox` | two products, three changes, published or not, one failure, one restart of the engine | 907309 | holds |
| `sweep_final` | is a settled hold final with the sweeper? | | violated |
| `captured` | is a captured order always completed? | | violated |
| `refund_sum` | do the cancels of a share add up to what was paid? | | violated |
| `overpaid` | is a seller who was paid too much looked at again? | | violated |

### What the violated runs show

1. *The sweeper overwrites a sale* (`sweep_final`). It lists an expired
   HELD row; the payment confirms the row; the sweeper subtracts its quantity from
   `reserved` again and writes RELEASED over CONFIRMED. The sale stands in the ledger,
   the row denies it, and `reserved` no longer covers someone else's hold. What
   survives, as `checkout` shows: a paid order is still deducted, nothing unpaid is
   sold, `reserved` never exceeds the HELD rows, and the ledger stays consistent.
   When `reserved` would fall below zero the database refuses and the sweep aborts.
2. *Captured money without an order* (`captured`). Holds end after the authorization
   and before markPaid: markPaid is refused then and at every repetition.
3. *Refunds of more than was paid* (`refund_sum`). Where the line cancelled first is worth
   less than the shipping fee its cancel charges again, its refund is clamped at zero, and
   the cancel of the rest gives the whole fee back: 6 for a share that cost 4.
4. *Overpaid for good* (`overpaid`). A refund that commits after the batch has read the
   share's returns and before it writes the line is in no line, and older than the line,
   so `moved` passes it over in every later cycle.

### What the code does and no run states

Seen while modelling; each is a behaviour of the models, or left out where said.

* An order whose holds were given back by closing its checkout stays
  `PAYMENT_PENDING`: the sweeper fails orders through the rows it has just released.
* Holds are not kept while a payment is UNRESOLVED, though
  `docs/design/state-machines.md:127-128` says so; the sweeper looks at the clock.
* The sweep has a variant and wants the row, a payment has the row and wants the variant;
  the database ends one of the two, though `reservation-sweeper.service.ts:236-238` says
  that both come down in one order. An edit of several variants closes a circle with a
  payment, or with another edit, in the same way.
* Toss takes the money and answers with an HTTP 5xx, with a body that cannot be read
  (`toss.client.ts:156-160`), or with a status other than DONE; or does so when it is asked
  again. `refusalOf` (`toss.provider.ts:156-164`) makes each of them a decline, the payment
  is FAILED, which its comment (`:148-151`) says must not be, and the order may be paid for
  again. `NoDoubleCharge` and `FailedHoldsNoMoney` are of payments to which it has not
  happened.
* A product is deleted (`product.service.ts:741-770`), hidden by a report
  (`report.service.ts:317-320`) or sold out, and no event is published; its document stays as
  it was until a later write of it is, though `search-outbox.service.ts:31-33` says that the
  event exists exactly when the change does. `StaleIsQueued` and `IndexCatchesUp` are of
  the other products.
* A unit is refunded before its share is confirmed, when there are no points to take back;
  the confirmation earns points on the whole price; the next refund reckons as if those of
  the first had been taken. The points of the first stay with the buyer, though
  `discount-restore.ts:100-106` says that what is left follows from the price that is left.
  `DiscountsComeBack` says exactly how much is taken.
* More was kept of a share, in commission and seller coupon, than it was sold for; it is
  settled, its sheet is closed, it comes back. Its adjustment would give the seller money,
  though `settlement-calc.ts:153` says it is never positive, and `Settlement_total_check`
  refuses it, in every cycle, with all else that his transaction had to write: none of his
  later shares is settled. `EverySaleIsSettled` says that nothing else keeps a share from it.
* A cancel filed while its share was PREPARING may be approved after the seller shipped
  it: a cancel of part of a share looks at the share only when nothing is left
  (`claim.service.ts:978`), against `state-machines.md:146` and `:162`. The units are
  then with the buyer and back on the shelf.
* A partial cancel approved after the rest was returned leaves the share DELIVERED.
* A return under way when the confirmation window ends: the share is confirmed by the job,
  and the seller's RETURN_COMPLETED is refused, an administrator's is not.
* A seller's transition of a share to CANCELED without a claim refunds and restocks
  nothing; the generic transition INSPECTING to RETURN_COMPLETED does neither, though
  the refund job finds the claim later; a restock that is lost is never tried again;
  points of a confirmation that is lost before it is told are never earned
  (`DeliveredIsClosed` says `stops > 0`).
* Two refunds that finish a coupon's two shares at once, without points between them to
  keep them apart, each see the other unfinished: the coupon is not given back.
* The provider is asked within the refund's transaction, and a virtual card has no
  idempotency key: a refund that is lost after the answer gives back twice. `BooksMatch`
  says what the books say then.
* Each return for which the seller is at fault gives back the whole shipping fee of its share
  (`return-rules.ts:119-123`), so two of one share give it back twice; cancels may come to
  more than was paid as well (`refund_sum`). Once a payment is used up,
  `refund.service.ts:424-434` and `refundDecision` refuse every other refund of the order, for
  ever and with nothing lost. `EveryRefundIsMade` excepts these (`UsedUp`), and `refunds`
  meets them.
* The retry takes ten claims a cycle by `updatedAt`, which a failure leaves as it is, so ten
  that are refused for ever keep all others out, though `refund-retry.ts:63-66` promises a
  second try within two minutes. `ApprovedIsRefunded` says that nothing else does.
* After a restart of the engine the first change that is indexed makes it non-empty, and
  nothing puts the other documents back (`search-indexer.service.ts:218`;
  `search-index.ts:230-231` says the indexer refills it). A rebuild may write a page that
  is older than what a drain has written meanwhile, and a REMOVE that failed comes due
  after the product is back on sale. Two API instances drain without a lock between them;
  the model has one.
* A settlement sheet that is approved between the batch's listing and its writing is
  written over (`settlement-batch.service.ts:232`), though the comment at `:303-305`
  says nothing is added to one. A share with an adjustment is listed again in every
  cycle, and 500 of them fill the batch. The batch's lock is taken and given back on
  sessions of a pool, unlike the other jobs' transaction locks.

### Bounds, and why they are enough

* `MaxLevel`, `MaxEntries`: levels up to 2 and two or three ledger rows by sellers (sales
  are not limited by `MaxEntries`), so a variant can be sold out, restocked and short.
* three holds, two checkouts: a checkout with two lines, and a competitor on the
  scarce variant; quantities 2, 1, 1 without the sweeper and 1 each with it.
* `TTL = 1`: present, at the limit, past. `BatchLimit = 2` (200 in the code): three
  holds can be split by it.
* `Deltas = {}` with the sweeper: no seller moves stock there except to an absolute
  level, which covers every change of level.
* two payments: an attempt in any state and a second one beside it, by the same or
  another method; `Amount = 2` gives a partial refund; `MaxLost = 1` lets the record of a
  half or of the whole be lost. Answers that cannot be read are not bounded.
* three sessions suffice for cycles over two variants and two rows, whose ids are in the
  opposite order; edits name one variant or both, in either order.
* claims: lines of two units and of one; two claims that together make the whole share
  and a third that competes with either; `Delivered = 3`, so a parcel has a place
  between ready and delivered; one stop, at any point; `RetryBatch = 1` (10 in the code) and
  one claim in `Refused`, so that the batch can be full of it.
* refunds: a line of three units whose amounts do not divide by three, a line of two whose
  share earns points at any time, a threshold that is passed under; `Room = 15` lets the provider give
  back more than once, so that a lost refund can be repeated and refused; the four claims come to more than was
  paid, so that any of them may find too little left, and one of them nothing.
* settlement: a share of two units, whose returns come in two pieces, and one of one; three
  weeks, so that a share is sold on one sheet, deducted on a second and corrected on a
  third. `overpaid` needs two. Of the one unit more is kept (3) than it was sold for (2), of
  each of the other two less (1 of 3): the adjustments of a sheet may be refused or not.
* outbox: `Batch = 2` puts two events of a product in one batch or in two; three changes,
  one failure or stop, one restart of the engine; any change may be one without an event.

`CHECK_DEADLOCK FALSE` everywhere but in `locks`: a shop where every hold, claim and
sheet is settled and the bounds are reached rightly has nothing left to do. In `Locks`
transactions begin for ever and a deadlock would be an error.

### Fairness

* `Checkout!Fairness`: time passes; the sweep's timer fires (weak); it commits unless it
  aborts every time (strong); the straggler repeats markPaid for a captured order
  (weak). The shopper owes nothing.
* `Payment!Fairness`: provider, clock and jobs (weak); landing a recovery and
  cancelling (strong), since a process may stop in the middle of either and the
  next cycle takes the payment up again. No process that is inside a call is
  assumed to come back: nothing fair about `Answered`.
* `Locks`: a session whose next row is free, time and again, gets it (strong); a transaction
  with all its rows commits, and a deadlock is detected (weak).
* `Claims`: the delivery and confirmation jobs (`JobsRun`) and the refund retry (weak);
  neither the seller, nor the process that decided, owes anything, and the retry owes nothing
  to a claim that is not among those it lists. Stops are bounded, so
  what is true of the claims from some time on is stated as `<>[]`: for a condition that a
  finite number of claims can enter, it says the same as that each of them leads out of it.
* `Refunds`: the retry job brings a transaction forward time and again (strong), and it is
  not lost every time. That it reaches every claim is right where no more than its limit
  (10) await their refund, as here; `ApprovedIsRefunded` is about more.
* `Settlement`: weeks end, the timer fires, closed sheets are skipped (weak); reading,
  opening and settling go through unless they fail every time (strong), and the batch goes on
  when one fails (weak). A transaction that the CHECK refuses is not enabled, so nothing is
  assumed of it.
* `SearchOutbox`: drain, rebuild and the clock (weak).

Assumption on time: when the grace (60 s) is over, no request is still on its way to the
provider (deadline 15 s). Our own process may be arbitrarily slow: it may land its
answer after the recovery did.

## 4. Proofs

`DataProofs` has the lemmas on the data: totals are finite naturals, add over disjoint
sets and over sums of functions, and grow with what is summed; an ascending list of a set
has each of its numbers once; a queue from which places are dropped keeps its order. Each
of the other modules proves its theorems for every set of rows, quantities and bounds
that meets the assumptions its component names.

The prover cannot use recursion or an induction over data, so the operators behind these
lemmas have neither. A total (`Totals`) is the cardinality of a set of pieces, and what
is to be added is shown by a bijection between such sets. An ordered list (`Ordered`) is
any list that is ascending and complete, by CHOOSE; that there is one is shown from a
smallest number of elements for which there would be none. Nor can it name a largest
element of a set of rows: that is a least distance from a bound.

| Module | Theorems |
| --- | --- |
| `StockProofs` | `TypeCorrect`, `ReservedIsAlwaysHeld`, `HeldIsAlwaysSellable`, `SettledStays`, `LedgerAlwaysExplains`, `SalesAreTrue`, `ReservationRefinesInventory` |
| `StockProofs`, with the sweeper | `CheckoutsAreTyped`, `NothingIsWithheld`, `PaidOrdersAreSold`, `OutcomesStay`, `LedgerExplainsWhenSwept` |
| `PaymentProofs` | `PaymentsAreTyped`, `NobodyPaysTwice`, `FailureIsAnAnswer`, `BooksStayCovered`, `TableIsFollowed`, `OnlyStrandedIsCanceled` |
| `ClaimsProofs` | `ClaimsAreTyped`, `UnitsAreClaimedOnce`, `SharesEndWithTheirUnits`, `ParcelsMatchShares`, `ShelvesMatchClaims`, `NothingIsTurnedBack` |
| `SettlementProofs` | `NobodyIsShort`, `TotalsAreTheLines`, `EveryWriteIsExact` |
| `LocksProofs` | `LocksInOneOrder`, `RequestsNeverDeadlock` |
| `SearchProofs` | `SearchInvariant`, `SearchTypes`, `StaleDocumentsAreQueued` |
| `RefundsProofs` | `RefundInvariant`, `RefundsAreTyped`, `RefundBooksMatch`, `DiscountsAreRestored`, `RefundsAreMadeInTurn`, `CancelsAddUpUnlessOwed`, `CancelsAddUpAsCharged` |

### Reservations

The inductive invariant is `IInv == TypeOK /\ ReservedIsHeld /\ WithinStock`.
`HeldIsSellable` is not inductive alone: it needs that the counter the guards read is
the sum of the rows (`ReservedIsHeld`) and that no write leaves it above the stock
(`WithinStock`, from the check constraint). Every step is one of five changes -
`Reserve`, `Sell`, `GiveBack`, a seller's `Record`, or one that leaves stock and
statuses alone - and each preservation lemma is about one of those, so the proof has a
case per change and not per caller. `LedgerExplainsStock` is preserved per variant:
an appended entry carries the old level plus its quantity. `SoldOnce` is preserved per hold:
a step either adds no row that refers to the hold, or is its sale; and a sale is made once,
of a hold that is HELD and so has none.

The theorems of this section are about the services without the sweeper. With it
`SettledIsFinal` is false (`sweep_final`), and for the same reason so is the equality of
`ReservedIsHeld`. The lemmas are therefore split: `ChangeKeepsSound` keeps types and
bounds and `CounterFollows` says that the counter moves by what the HELD rows move by,
and neither needs the equality, so that the next section can use both.

Assumptions: finitely many holds, positive quantities, one hold per variant in a
checkout (unique cart lines; the direct request refuses duplicates), hold ids usable
as ledger references, `TTL` positive.

### Checkouts, orders and the sweeper

The inductive invariant `CInv` is what the sweeper leaves of the one above. It settles
rows by what they were when it listed them, so a row's status no longer tells whether it
was sold; but the counter never exceeds the HELD rows (a sweep takes at least as much off
the one as off the others), a CONFIRMED row has its sale and a sale is of a row that
exists (`SaleOfRow`), and what orders and batches refer to exists (`DrawnExists`).
`PaidIffSold` follows from two facts about a step: only `MarkPaid` makes a row CONFIRMED,
and it leaves every row of the checkout so; and the rows of a checkout are created
together, so none is added to a checkout that has sold. Every step is shown to be one of
the service's or a sweep, what it does to an order (`OrderStep`), to the statuses
(`StatusFacts`) and to the sales (`SaleFacts`); the invariants are shown of these three.
`LedgerExplainsStock`, which only the reservation run checks, is proved with the sweeper
too: a sweep moves no stock. The theorems need no assumption beyond those of the
reservations; the batch size is free.

### Payments

A payment acts on things it read before, and the properties alone do not say that these
are still true. The inductive invariant adds it: a payment that was not claimed was never
asked for, and a grace that is over means a request that is decided
(`AskedOnlyWhenClaimed`); an answer kept in memory still is the provider's
(`ReadIsTrue`), because a decided request never changes and stock that is gone does not
come back; a payment that is not refunded has nothing on its books (`BooksClosed`); the
rows of an order are its payments and at most one of them is alive
(`RowsAreTheOrders`, `OneAlive`), which, as a failed one holds no money, is what rules
out the second charge.

Both of the properties about money are of payments that did not fail by an unreadable
answer. `misread` only grows with the step that makes a payment FAILED by one, so a payment
outside of it that is FAILED was landed by an answer that said what the provider did.

### Claims

Three layers: shares with their parcels, claims with the counter of units, the ledger.
A step is first described by what it does to each layer (`SharesMove`, `ClaimsMove`,
`ShelfMoves`), and the invariants are shown of these three descriptions and not of some
thirty actions. The counter of claimed units is the sum over the living claims, so a
filing is a disjoint union and a rejection a difference of item sets. `ShelfMatchesClaims` needs
more than its own words: that stock is exactly opening stock less the sale plus the items
that are in the ledger, and that each row of the ledger is of a settled claim.

### Settlement

`NeverShort` is about the returns as they are, the batch writes the returns as they were.
The invariant carries both: what was read is never more than what came back
(`ReadsAreOld`), and the lines never add up to less than the last reading allows
(`Owed`), which a later batch can only loosen since units only come back. An adjustment
is then never negative. `LinesAreInOrder` says what a task may rely on: nothing is
deducted while the SALE line is still on an open sheet. `EveryWriteIsExact` follows from
what the one writing step does to a share (`SettledShare`): writing the adjustment of
this sheet anew over the sum of all others makes the lines add up to what was read.
`TotalsAreTheLines` needs no more than that a sheet's sums change only with its lines,
and that every sheet with a changed line is touched.

### Row locks

Rows are ordered by their table - order, hold, variant, share - and within it by id. Every
transaction of a session that is not `loose` climbs in that order (`Climbs`), which is a fact about each of
the lists of rows the requests lock, and what a session still has to lock is above all it
has locked (`AboveHeld`). If, of two sessions that are not loose, `t` waits for `u`, `u` has the row that `t` wants and so wants
a higher one. Among waiting requests of this kind, the one that wants the highest row cannot be waiting
for another of them, which is `NoWaitCycle`. `NoWaitCycle` itself is far from inductive: it
says nothing of a session that does not wait yet. The sweep has no place in the order,
since it locks the variant before the row, nor have edits of several variants and the end of
a demo account; what becomes of these is `TransactionsEnd`, by TLC.

### Search outbox

`StaleIsQueued` only says that a stale product has an event, and `Complete` takes events
away; it says so of products that are not `silent`. So the invariant says what the drain is about to have done (`PlanRight`): of a
product all of whose events the drain has read, what it will write, or has written, is
what the rows say now. A change breaks the premise, since it queues an event that was not
read, or makes the product silent. That needs the events of the batch to be in the table still (`DrainOK`) and ids to be
given once (`TableOK`). The excuse for a failed REMOVE in the property cannot be dropped, but
without a failure it is not needed: `InOrder` says that the table is then in the order of
publishing, so that a REMOVE handled last was published last.
The types of the outbox (`SearchTypeOK`) follow from the same invariant and are proved, not
checked by a run.

### Refunds

Four invariants, `BooksInv` below the other three.

`BooksInv`: the stage of a transaction tells which locks it holds and what it has computed
(`Stages`); one transaction has a share, one the point account, one the payment (`Alone`);
and what it found under such a lock to be enough still is when it commits (`Covered`), so
neither the balance nor what is left of the payment falls below zero. `BooksMatch` then
changes only in two steps: the provider's answer, and the commit, which turns what was
asked into what is recorded.

`DiscountInv`: what a transaction has computed from the committed refunds of its share
still follows from them, since it has the share for itself (`Figures`). The amounts
telescope: each claim adds the difference of two values of one function of accumulated
units, so the records of a share add up, after every commit, to that function's value
(`PointsAddUp`, `ClawedAddUp`), and for a share refunded whole to the whole. Points taken
back telescope from the first refund that found the share's points: what a transaction owes
is reckoned by what it found when it looked (`DueFor`), though points may have been earned
since, and once a refund has found them every later one does (`Looked`). The coupon is
the one thing decided from other shares. `CouponFollows` says that of two refunds that restore
points, one has the account until it commits, and the later one sees the other's share refunded.

`SerialInv` adds what is needed for the refinement (`RefundsAreMadeInTurn`): at its commit a
transaction writes what `SerialRefunds` would compute in that very state. Amount and points
follow from the share's lock (`AmountsFollow`, `Figures`); that the points taken are all that is
due or all that is there, although others have committed since they were taken, from the
account's (`TakesMost`); that a refund which missed its share's points follows none that
found them, from `Looked`; that the amount is within what is left, from the payment's
(`Covered`). Every other step of a transaction stutters, and earning is a step of both.

`CancelInv`: the amounts telescope too, where no refund is cut off at zero. In general one
may be: `CancelsAddUp` is false (`refund_sum`), so it is proved under a condition on the
constants, in two forms. `NothingOwed` is the exact one: whichever cancels of the share came
before, none comes to less than nothing by itself; and an untouched share owes no shipping, which the code
does not ensure either, since `shippingAdjustment` is given the seller's fee and threshold
of today (`refund.service.ts:306-331`). The orders of `refunds` satisfy it, one of them
though shipping is charged again; that of `refund_sum` does not. `NeverChargedAgain` is a condition that one can
read off a shop: no free shipping above a threshold, or a standard fee not above what was
charged. It implies the first (`NothingIsOwed`).

Assumptions: the CHECK constraints of the tables (`RefundsAssumption`): a line has at least one unit,
its discounts do not exceed it. Rates, fees, thresholds, units claimed and what the provider
lets be given back are free; a rate may exceed 100 percent.

### Only model-checked

* What holds under fairness, which this prover does not reach, nor ENABLED:
  `TransactionsEnd`, `AuthorizationsEnd`, `ApprovedIsRefunded`, `DeliveredIsClosed`,
  `IndexCatchesUp`, `EveryRefundIsMade`, `EverySaleIsSettled`.
* `CancelsAddUp` where `NothingOwed` fails: it is false there.
* What the four violated runs show.

## 5. Not modelled, and why

Prices at placement, addresses, payment events and log texts are data the properties do not
tell apart. Request validation and permissions are checked before any of these
actions. The columns and limits that spread work over batches are left out but for the
sweeper's and the refund retry's: any payment or share may be taken up at any time, which
only adds behaviours of safety; what a full batch of settlements does to liveness is told in
section 3.

`Refunds` starts from approved claims and `Claims` ends with the step to REFUNDED;
`Settlement` sees confirmations and refunds as steps from outside; `Payment` sees the order
as `shares` and `held`. Each of these seams is a status written in one transaction, so
the components meet in nothing else; a composition of all would be out of TLC's reach.

Left out altogether: sessions and their refresh tokens (a protocol of their own that
shares no state with these), the cart, sellers' onboarding, notifications, reviews,
questions, reports, demonstration data, files, operations and the user interfaces.
`PROJECT.json` names every component with its status and the reason.

## 6. Plan

Done: `Stock`, `Reservation`, `Inventory`; `Checkout` with the sweeper; `Locks`;
`Payment`; `Fulfilment` and `Claims`; `Refunds`; `Settlement`; `SearchOutbox`; proofs of
all safety properties of these.

Left, in this order:

1. `Sessions`: rotation of refresh tokens, the retry window and replay.
2. `Coupons` and `Points`: issue limits, use in an order, lots and their expiry.
3. `Purchase`: `Checkout` and `Payment` in one model, with money and goods that change hands
   together or not at all as its abstract specification.
4. Two draining instances in `SearchOutbox`; the issuing and the limits of virtual cards.
5. Pricing: apportioning of discounts as a function, against a reference definition.

Proofs: that `Payment` and `Settlement` implement abstract specifications, once these are
written; the fourth invariant of search, with rebuilds, once pages are versioned in the code.
