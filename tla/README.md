# Risbow backend: models, model checking and proofs

TLA+ models of the parts of the Risbow backend (NestJS, Prisma over PostgreSQL,
Redis, Razorpay) in which several actors work on the same state: the checkout
and its stock, the life of an order and its payment, the lock of the cron jobs,
the earnings of vendors and their payouts, group-buying rooms, the coins of
users, the memberships of vendors, and returns. TLC checks them on small
instances; TLAPS proves the theorems for every value of the constants. Paths
below are relative to `src/src/` of the repository unless they begin with `src/`.

| module | what it is |
|---|---|
| `AtomicSale` | what the checkout promises: an order is sold once, all lines together, out of units that are there |
| `StockReservation` | checkout, inventory, Redis counters, cleanup cron, COD deduction and payment confirmation as seen by the stock rows |
| `OrderPayment` | orders and payments after the checkout: confirm, cancel, move, pay again, verify, webhook |
| `RedisLock` | `RedisLockService.withLock` and the jobs of several instances |
| `Account` | what a balance in one column promises: every booking moves it once, by its value |
| `VendorEarnings` | `Vendor.pendingEarnings`: the settlement cron, three ways to a payout, the administrator of payouts |
| `Rooms` | members, linked orders, unlocking and expiry of rooms |
| `CoinLedger` | `User.coinsBalance` and the ledger rows that explain it, with the expiry sweep |
| `VendorMembership` | memberships paid in coins: subscribe, upgrade, renew, and what else takes a vendor's coins |
| `Returns` | the status of a return, its restocking, replacement and refund |
| `MC<module>` | the instances for TLC |
| `<module>Proofs` | theorems and proofs |

`PROJECT.json` lists the runs, the mutants that show each property can be
broken, the source lines behind every definition, the hazards and the theorems.

## 1. Inventory

### The core

**Checkout** (`checkout/checkout.service.ts`). Keeps nothing between requests;
works on carts, orders, payments and stock rows in PostgreSQL and on reservation
counters in Redis. `checkout` reads the cart, reserves each line in Redis,
opens a transaction that reads the cart *again*, validates, creates orders and
payment, clears the cart and, for cash on delivery, deducts the stock; an
online order gets its Razorpay order after the commit (phase 2). Every failure
path releases something. Hard: reservation and order come from two reads;
Redis is changed inside a transaction that may roll back; row locks are taken
in cart order. Correct when: units are neither oversold nor lost nor sold
twice; every call ends; counters drain.

**Inventory** (`inventory/inventory.service.ts`). Stock rows and the keys
`reservation:<product>:<variant>`. `reserveStock` (INCRBY, compare, undo,
EXPIRE), `releaseStock` (DECRBY, DEL when not positive), `deductStock`
(conditional UPDATE, then release), `restoreStock`. Hard: two commands where
one is meant, a stock value that is old when compared; the row of a variant and
that of its product are raised by two statements, and the second one is at other times
counted anew. Correct when: increment-then-validate admits no more than the stock
left, and the two rows agree.

**Stale-reservation cron** (`common/scheduler.service.ts:125-198`). Reads the
keys, then the pending orders, then deletes keys one at a time. Hard: what it
read may be old. Correct when: deleting a live reservation never oversells.

**Redis service** (`shared/redis.service.ts`). INCRBY, DECRBY, DEL, EXPIRE,
SET NX EX, compare-and-delete script; an in-memory fallback when Redis is away.

**Orders** (`orders/orders.service.ts`). Order rows, the flag
`confirm_order:*` in Redis. `confirmOrder`/`processConfirmOrder` (flag, read,
transaction with deduction and coin debit, flag), `cancelOrder` (read, then a
transaction that acts on what was read), `updatePaymentStatus`,
`updateOrderStatus`, `verifyObdOtp`. Hard: retries, two confirmations at once, a
confirmation against a cancellation, a crash with the flag set. Correct when:
stock and coins are taken once and given back no more than once, and the flag,
believed without a look at the database, says "completed" only when it is so.

**Payments** (`payments/payments.service.ts`). Payment rows. `createOrder`
(read, Razorpay, upsert, link), `verifyPayment`, `handleWebhook`. Hard: events
repeated, late, out of order, for a Razorpay order that has been replaced; a
database error taken for an unknown order. Correct when: SUCCESS means that
money came, and money that came is recorded.

**Vendor orders** (`vendors/vendor-orders.service.ts`). `updateStatus` and
`cancelOrder`: a read, a statement per item and one for the status, without a
transaction.

**Distributed lock** (`common/redis-lock.service.ts`). One key per job with a
time to live, and a map of stored values in each instance, keyed by the lock.
`acquireLock`, `releaseLock`, `withLock`. Hard: a job outlives its key; the map
is shared by the runs of an instance; crashes. Correct when: one job runs, and a
lock is freed by its holder.

**Settlement and payouts** (`common/settlement.service.ts`,
`vendor-payouts/vendor-payouts.service.ts`, `vendors/vendor-payouts.service.ts`,
`admin/admin-payouts.service.ts`). Settlements of orders, `Vendor.pendingEarnings`,
payout records. The cron marks, lists and finalises one settlement per
transaction; a vendor asks for a payout by two different operations, one of
which deducts at once; an administrator pays out directly or works on records.
Hard: balances compared as read, a retry of a bank transfer, jobs that overlap or
die between two settlements. Correct when: each settlement and each payout is
booked once, and nothing is overdrawn.

**Rooms** (`rooms/rooms.service.ts`, `admin/admin-rooms.controller.ts`, the
room cron of `common/scheduler.service.ts`). Room status and member count,
members, the room of an order. Hard: last places, from two devices of a user;
`checkUnlockStatus` in a transaction of its own, inside `linkOrder`'s and after
the confirmation's; orders that are moved or cancelled by others; two expiries
against all. Correct when: the count is the number of members, a room that has been
filled is closed, a room unlocks if and only if its goal was met.

**Coins** (`coins/coins.service.ts`, `admin/coins/bow-coin.service.ts`,
`admin/admin.service.ts:590-618`, `rooms/room-monetization.service.ts:53-78`). A
balance and the rows that explain it.
Hard: compare then decrement, an absolute write, a sweep that sums rows and
writes the result. Correct when: the balance is what the rows add up to and is
not negative.

**Vendor memberships** (`vendor-memberships/vendor-memberships.service.ts`,
`admin/admin-subscriptions.controller.ts`). Membership, the vendor's copy of its
tier, which administrators set too, the vendor's coins. Hard: payment and effect in
several statements, the midnight job against everybody. Correct when: no coins are lost, a month is
paid once, the two tiers agree.

**Returns** (`returns/returns.service.ts`, `vendors/vendor-returns.service.ts`).
The status of a return, which whoever changes it compares with what was read,
stock, replacement orders and refunds. Correct when: what is approved is replaced,
what passes quality control is restocked, both once, and so is the refund.

### Components not modelled

| component | why |
|---|---|
| Idempotent requests (`idempotency/`) | `IdempotencyRecord` is no model of `src/prisma/schema.prisma`, and the migration `20260206051003` drops its table: a request with a key throws before its handler, and one without is refused where the key is required. Over HTTP this makes unreachable: the confirmation (`orders.controller.ts:70`), `createOrder` and `verifyPayment` (`payments.controller.ts:20`, `:36`), subscribe and upgrade (`vendor-memberships.controller.ts:39`, `:53`), `coins.controller.ts:45` and `banners.controller.ts:238`. The models are of the services' operations as they are written, whoever calls them |
| Referrals (`referrals/`) | `awardForOrderIfEligible` includes relations the schema does not have: it always throws, and the confirmation swallows it |
| Refunds (`refunds/`) | read-only by policy ("structurally blocked", `refunds.service.ts:6-17`): its writes throw `NotImplementedException` (28-33). `returns/admin-refunds.controller.ts` asks for an audited override; the refunds of vendors, which the policy does not stop, are in `Returns` |
| Live rooms, `vendor-returns/` | no module of the application imports them |
| Order queue (`queues/`) | `addOrderProcessing` has no caller |
| Wallet (`wallet/`, used by `bet/`), the cart's lock, gift stock, vendor discipline | they have state that several actors share; their races are listed as hazards or left for the continuation of the plan |
| Checkout recovery, telecaller, coupons, clearance, wholesalers, stories | records of one row or one statement |

The rest (catalog, search, banners, CMS, blog, reels, uploads, invoices,
authentication, audit, metrics and so on) keeps records of one row and one
owner, answers queries or renders documents. Each is listed in `PROJECT.json`
with its reason.

### How the components interact

```
 customer ──checkout──► CheckoutService ──reserve/release──► Redis counters ◄─del── cleanup cron
                           │  transaction                         ▲
                           ▼                                      │ release
                      orders, payments, carts ◄─deductStock── InventoryService ◄─┐
                           ▲        ▲                                            │
 Razorpay ──webhook──► PaymentsService                                           │
 customer ──confirm / cancel──► OrdersService ───────────────────────────────────┘
 vendor, admin ──move / cancel / set payment──► orders, payments, stock
 crons of all instances ──► RedisLock ──► scheduler, rooms, settlement, coins, memberships
 order confirmed ──► RoomsService.checkUnlockStatus ──► rooms ◄── join, leave, link, expire
 order delivered ──► settlement cron ──► pendingEarnings ◄── payouts of vendors and administrators
 order delivered ──► return ──► restoreStock, replacement order ──► stock
```

`StockReservation` composes the checkout, the inventory, the counters and the
cron; it shows of the confirmation only what the stock rows see of it.
`OrderPayment` starts where it ends, with orders that exist, and counts stock
and coins by order. They share the facts that a confirmation deducts all lines
of an order in one transaction (proved as a refinement in the first, one step
`ConfirmTx` in the second), and that only `updateMany ... status notIn final`
decides which confirmation that is.

The five other modules each start from orders, users and vendors that exist and
take what comes from elsewhere as actions of the environment: an order is
delivered (`VendorEarnings!Deliver`), moved or cancelled (`Rooms!Move`), a vendor's
tier is set (`VendorMembership!Assign`), a date goes by (`FallDue`, `Passes`, `End`). Their crons run under
`RedisLock`, of which `OneJob` says that two jobs run together only after an
overrun; therefore each of these modules lets its jobs overlap at any time.

## 2. Plan

Done, in the order of the plan: A `AtomicSale` and `StockReservation`, B
`OrderPayment`, C `RedisLock`, D `VendorEarnings` with the abstract `Account`,
E `Rooms`, F `CoinLedger`, G `VendorMembership`, H `Returns`. `IdempotentRequest`
was dropped when it turned out that the schema has no such record.

What is left, by weight: `VendorDiscipline` (strikes recomputed from records
that another delivery is adding), `CartLock` and `Wallet` (locks and
idempotency keys by two commands), `GiftAndCoupon` (one bounded and one unbounded
counter), and `DiscountAllocation` (`checkout.service.ts:38-58`, a pure function
with a conservation law). Every safety property of the runs is a theorem by now
(section 5). A theorem worth adding: how many units a counter that has slipped
(`CounterBounded`) can hold at most.

## 3. Correspondence with the code

A step of a model is what the code does between two points where another actor
may act: one Redis command, one SQL statement, one commit. What was read before
an `await` is kept in a variable and used as it was. Prisma runs transactions
at PostgreSQL's default isolation, READ COMMITTED. Where a transaction's effect
is decided by conditions in its own UPDATE statements it is one step
(`ConfirmTx`, `CancelTx`); where its row locks and the Redis commands inside it
matter it is many (`BeginTx` to `Commit`).

### StockReservation

State: `stock`, `cart`, `order`, `items` are committed rows; `reserved`,
`present`, `expiring` the Redis keys (value, existence, time to live); `pc`,
`plan`, `idx`, `relEnd`, `seen`, `deducted` the local state of a call; `scan`
the cron's. Uncommitted deductions are not in `stock`: `deducted[r]` lines of
`items[r]` are locked by `r`, and a rollback forgets them. `slipped` is history:
the SKUs whose counter was raised on a stock that is gone, or left raised by a
crash, since its key was last deleted.

| code | actions |
|---|---|
| `checkout` 112-198 | `Prefetch`, `ReadStock`, `CheckAvailable`, `Increment`, `Undo`, `RefreshTtl`, and on failure `ReleaseDecr`, `ReleaseDel` for the lines in `reservedItems` |
| transaction 200-597 | `BeginTx` (re-reads the cart), `CheckLine`, `ClearCart`, for COD `DeductRow`, `TxReleaseDecr`, `TxReleaseDel` per line, `Commit`; `AbortTx` at any point of it, or when it waits in a cycle |
| phase 2 599-658 | `LinkPayment` |
| catch 659-670 | `Rollback`, the release loop, `Ended` |
| `processConfirmOrder` 241-259 | `StartConfirm`, then the same deduction of all lines |
| cron 125-198 | `ScanKeys`, `ScanOrders`, `ScanKey`, `ScanDelete`, `ScanEnds` |
| cart operations | `EditCart`; Redis: `KeyExpires`; a process: `Crash` |

### OrderPayment

State: columns of Order and Payment (`status`, `debited`, `linked`, `payment`,
`payOrder`), the Redis `flag`, what Razorpay knows (`captured`, `failures`,
`unacked`), the local state of each call, and history counters (`taken`,
`restored`, `charged`, `refunded`, `exits`, `vouched`, `overtaken`, `loose`) that
exist only for the properties. `overtaken` are cancellations whose debit another
has given back since they read it; `loose` are orders of which the status does
not tell whether the stock is taken. A call is one of the constants' calls; `at` says where it is. A
Razorpay order that `createOrder` makes is the call itself.

| code | actions |
|---|---|
| `confirmOrder` 179-207 | `ConfirmCheck`, `ConfirmSet`, `ConfirmComplete`, `ConfirmClear`; the flag's end is `FlagExpires` |
| `processConfirmOrder` 209-377 | `ConfirmRead`, `ConfirmTx`, `ConfirmAbort` (in the transaction, or at the last Redis command), `ConfirmComplete` |
| `cancelOrder` 450-522 | `CancelRead`, `CancelTx` |
| vendor's `cancelOrder` 336-395 | `VendorRead`, `VendorRestore` for each item, `VendorCancel` |
| vendor's `updateStatus`, `verifyObdOtp` | `MoveRead`, `MoveWrite`; the table is `Moves` |
| administrators | `AdminMove`, `AdminRead`, `AdminWrite` |
| `createOrder` 39-136 | `PayRead`, `PayUpsert`, `PayLink`, `PayFails` |
| `verifyPayment`, `handleWebhook` 235-444 | `HandleRead`, `HandleWrite`, `WebhookMisreads` |
| Razorpay, the process | `Capture`, `AttemptFails`, redelivery as `HandleRead` again; `Crash`, `CrashWorker` |

### RedisLock

`lock` is the key, `mine` each instance's `lockOwnership` entry, `expected` the
value a release has read from it. A lock value is fresh for each attempt, so it
is the run itself. `Acquire`, `Remember`, `Finish`, `DelIfEqual`,
`ReleaseFails`, `Forget` are the awaits of `withLock`; `Expire` and `Crash` come
from outside.

### VendorEarnings

State: `settlement`, `earnings`, `payout` are committed columns; `job`, `todo` the
local state of the cron's runs, `call`, `seen` that of payout calls, `admin` what an
administrator's operation is about to write. `raced`, `renamed` and `crossed` are
history; `crossed` are requests between whose read and record another call of the
vendor has committed.
`pendingEarnings` is only ever moved by `Finalize` and `Commit`; that an
administrator's `failPayout` gives nothing back, and that its `processPayout`
completes a request without a deduction, is `AdminWrite`, which leaves the
earnings alone as the code does.

| code | actions |
|---|---|
| `processSettlements` 23-64 | `Mark`, `List`, `Finalize` or `FinalizeFails` for each, `EndJob`; `JobDies` |
| `processPayout` 140-197 | `FindTransfer`, `CheckDirect`, `Commit` |
| `requestPayout` of `vendor-payouts/` 252-315 | `ReadAsk`, `CheckAsk`, `Commit` |
| `requestPayout` of `vendors/` 123-205 | `ReadWithdraw`, `Commit` |
| exceptions of all three | `Refuse` |
| `AdminPayoutsService` | `AdminRead`, `AdminWrite` |
| checkout, order | `CreateSettlement`, `Deliver` |

### Rooms

State: `status`, `count`, `members`, `roomOf` are columns and rows; an order's
status is kept as rooms see it (`open`: not counted, cancelled ones too; `counted`;
`safe`: counted, and spared by an expiry). A member's call is a read (`doing`
remembers what and where) and a commit, whose conditional UPDATE looks again. `pc`
and `room` are the program counters of `linkOrder` and of an order's confirmation,
which both run `checkUnlockStatus`. `met`, `forced`, `missed` are history. No DTO of
a room is validated (`rooms.controller.ts` takes `any`): `Size` is any integer.

| code | actions |
|---|---|
| `join` 95-129, `joinDiscountRoom` | `JoinRead`, `JoinCommit` |
| `leaveDiscountRoom`, `initiatePurchase` | `LeaveRead`, `LeaveCommit`; `PurchaseRead`, `PurchaseCommit` |
| `linkOrder` 384-429 | `LinkRead`, `LinkWrite`, the check, `LinkCommit` |
| `processConfirmOrder` 209-301, 334-346 | `ConfirmRead`, `Confirm` (of a cancelled order too) or `ConfirmFails`, the check of the room it has read, `ConfirmDone` |
| `checkUnlockStatus` 143-190 | `CheckRoom`, `CheckOrders`, `CheckWrite`; `CheckFails` |
| every other writer of an order's status (`orders.service.ts:1385`, `admin.service.ts:1394`, vendors, cancellations, replacements) | `Move`: to any status, and nobody checks the room |
| `expireRoom` 463-502 | `ExpireRead`, `ExpireCommit`; `ExpireFails`, where there is no administrator SYSTEM for its audit row |
| `handleRoomExpiry` (every minute) | `ExpireEnded` |
| administrators | `ForceUnlock`, `CloseRoom`, `Patch` of a status, `expireRoom` |

The check of `linkOrder` reads outside the transaction that links the order and so
does not see the link; when nobody else checks the room afterwards, `LinkCommit`
puts it into `missed`, as `Move` does with the room of an order that becomes
counted, and `CheckFails` with the room of a confirmation whose check throws.

### CoinLedger

State: `balance` and `row` (none, live, past its date, marked as expired) are
committed; `call`, `seen` belong to calls, `phase`, `todo`, `on`, `sum` to sweeps.
`stale` says who has read what has been changed since; `raced` and `drifted` follow
from it.

| code | actions |
|---|---|
| `credit` 59-110, `grantCoins`, the coins `cancelOrder` gives back | `Increment` |
| `debit` 112-152, `revokeCoins` | `Read`, `Decrement`, `Abort` |
| `updateUserCoins` (`admin.service.ts:597-618`) | `Read`, `Overwrite` |
| the boost of a room (`room-monetization.service.ts:53-78`) | `Boost`: a row of the vendor's user, while the coins are those of `Vendor.coinsBalance`; balance and rows of the user are moved apart (`drifted`) |
| `expireCoinsCron` 12-33 | `List`, `Mark` per row, then `recalculateBalance` 154-192: `SumCredits`, `SumDebits`, `WriteBalance`; `SweepDies` |

### VendorMembership

State: `coins`, `member`, `level` are the columns; `call`, `quote` belong to calls,
`todo` to jobs. Ends are kept as ahead, within a day, over; no end counts as over. A
vendor begins without a membership (onboarding) or with a free one (`Registered`:
`register`, the administrators' `createVendor`), of any tier of its own. `assigned` is
history: the vendors whose tier was not written with the membership, until an
upgrade writes both.

| code | actions |
|---|---|
| `subscribe` 107-207, `upgrade` 212-312 | `Read`, `Pay` or `PayRefused`, `Create` or `Raise`, `Level`; `Die` between any two |
| `upgrade` with no `paymentMethod`, which skips the payment | `ReadUnpaid`, then the same |
| `updateVendor` (`admin.service.ts:1614-1687`), PATCH (`admin-vendors.controller.ts:163-207`) | `Assign` |
| `processAutoRenewals` 457-530 | `List`, then `RenewPaid`, `RenewUnpaid` or `Skip` for each |
| `cancelAutoRenewal`, administrator's extension and cancellation | `StopRenewal`, `Extend`, `Cancel` |
| banner slots, promotions, boosts | `Spend` |

### Returns

State: `status`, `replaced`, `refunds`, `stock`, `total` are rows; `call`, `seen`,
`left`, `owed` belong to calls. A product sold as a variant has two: its own
(`stock`) and the product's (`total`), which `restoreStock` raises by two statements
and `deductStock` counts anew. `back`, `approved`, `passed`, `reopened`, `stale`,
`crossed` are history.

| code | actions |
|---|---|
| `create` 20-89 | `Request` |
| `updateStatus` 148-204, `shipReplacement` 206-227 | `Read`, `Write`, then `Restock` per item and `Restocked`, or `Replace` |
| `restoreStock` (`inventory.service.ts:156-172`) | `Restock`, for a variant followed by `RestockProduct` |
| `createReplacementOrder` 230-285 | `Replace`, with the `Recount` of `deductStock` (`inventory.service.ts:124-135`) |
| vendor's `acceptReturn`, `rejectReturn` | `Read`, `Answer` |
| vendor's `processRefund` 332-402 | `Read`, `FindRefund`, `Refund`, `Close` |

## 4. What the runs check

Bounds are the constants named `Max...`; each has a guard of its own.

| run | instance | states | what it shows |
|---|---|---|---|
| `StockReservation_crossed` | a COD and an ONLINE checkout, carts with the same two SKUs in opposite orders (one of them with two units of one), 2 units of each, 2 confirmations, 1 cart edit, 1 crash | 1.1M | `StockNeverNegative`, `UnitsConserved`, and the refinement `SalesAreAtomic` |
| `StockReservation_counter` | 3 checkouts of one cart, 1 SKU, 2 units, quantities 1 and 2, 1 expiry, 1 crash, 1 run of the cron | 3.8M | `CounterBounded`: what the counter holds beyond the stock left is being taken back, unless it has slipped |
| `StockReservation_liveness` | 2 checkouts with crossed carts, 2 units, 4 expiries, fair | 128k | `CallsEnd` (lock cycles end) and `CounterDrains` |
| `OrderPayment_moves` | 1 order, 2 confirmations, 2 cancellations of the customer and one of the vendor, a mover, an administrator, 1 move, 1 crash, 1 database error | 8.1M | `DeductedOnce`, `ChargedOnce`, `CoinsBackTwiceOnlyByRace`, `RestoredWasTakenUnlessLoose` |
| `OrderPayment_recovery` | 2 orders of one group, 1 confirmation, 1 cancellation, 1 new Razorpay order, 1 webhook worker, 1 move by an administrator, 1 crash, fair | 661k | `PaidMeansCaptured`, `CompletedIsTrue`, `CaptureRecorded` |
| `RedisLock_jobs` | 2 instances, 2 runs each, 2 crashes, any number of expiries | 359k | `OneJob`, `OthersKeepTheirs`, `FreedByHolder` |
| `VendorEarnings_payouts` | 1 vendor, 1 order of 2, 2 overlapping jobs, 2 direct payouts of one transfer, one request of each kind, all of 1, 1 administrator, 1 fault, fair | 1.6M | `OverdrawnOnlyByRace`, `TransferBookedOnce`, `RequestsFitUnlessCrossed`, the refinement `EarningsAreBooked`, `SettledInTheEnd` |
| `Rooms_members` | a discount room of 2 and an administrator's room of 3, 3 users, one of them on two devices | 1.4M | `MembersCounted`, `FullRoomLocked` |
| `Rooms_unlock` | a room whose goal is both of 2 orders, each linked by a call of its own or naming the room from its creation, any moves of the orders, 1 expiry that cancels orders, 1 failed check, fair | 1.1M | `UnlockJustified`, `UnlockedOrUnderway`, `UnlockedInTheEnd` |
| `CoinLedger_expiry` | 1 user; a credit, a debit, its refund, a negative adjustment, a grant, a revocation, a boost; 2 sweeps, 1 death, fair | 256k | `NegativeOnlyByRace`, `BalanceIsLedger`, `ExpiresInTheEnd` |
| `VendorMembership_coins` | 1 vendor with 2 coins, with a free membership or none, tiers 0 to 2, 2 subscriptions, 2 upgrades (with coins or unpaid), 1 other expense, 2 overlapping jobs, any tier set by administrators, 1 death | 2.2M | `CoinsNeverNegative`, `LostOnlyByRace`, `TiersAgree`, `FreeOnlyIfSpent`, `ChargedAgainOnlyByRace`, `TierFallsOnlyByRace` |
| `Returns_status` | 2 returns of the same 2 products, one of them a variant, of which one unit is left in all; 2 QC updates and 2 refunds of one, an acceptance and an approval of the other; 1 death | 1.3M | `TotalsAgree`, `ServedOrUnderway`, `UnitsTakenOnce`, `RefundedTwiceOnlyByRace`, `RestockedTwiceOnlyByRace` |

Why the bounds are enough. A race on a stock row, a counter or a payment needs
two actors in the race and a third fact that one of them has read too early; the
instances have two or three actors on each shared row. Two SKUs in opposite
orders are the smallest cycle of row locks. Two units are enough for the smaller
cart twice (so that an order confirmed twice would be sold twice) and not for
both carts; with quantities 1 and 2 an increment that must be taken back overlaps
with one that fits. A second confirmation is a retry or a
double click; one crash at every point shows each half-done call. For the lock,
four runs let both a run of the same and one of the other instance take over an
expired key. For the invariants that are proved, the bound does not matter.

In `VendorEarnings` a vendor earns 2 in all and each call takes 1: two fit, three
overdraw, and a request that another call has crossed asks for what is gone. In
`OrderPayment_moves` two cancellations read one debit, and the vendor reads,
restores one item after the other and writes around both confirmations. In `VendorMembership` the
coins pay for the first month, the upgrade or the other expense, never for all;
an upgrade after the end yields a coin, as the code's negative proration does (a
membership without an end counts as over: the code takes 1970 for it, and the yield
is as large as the time since). In
`Returns` the replacement of the second request succeeds only with the units
the first one brings back. In `CoinLedger` the debit can spend the credit before
or after it falls due. One vendor, one user suffice where rows of different
vendors or users never meet; the theorems say it for any number. The symmetries of
`VendorMembership` (two subscriptions alike, two jobs alike) and of
`OrderPayment_moves` (two confirmations, two cancellations) are used without
liveness.

Deadlock is checked in the two runs of `Rooms`, where an administrator can act at
any time. Everywhere else an instance has a finite number of calls and
stops when they have ended, and the cfg says so.

Many properties have the form "... only by a race". The code compares what it has
read and writes without a condition, so the plain statement (no overdraft,
one refund) does not hold; what does hold, and what a change could break, is that
nothing *but* overlapping calls can do it: not a retry, not a crash, not a
job beside a call, not any sequence of calls one after another. The history
variables `raced`, `stale`, `drifted`, `relisted`, `overspent`, `reopened`,
`missed`, `forced`, `overtaken`, `loose`, `crossed`, `slipped` and `assigned` say exactly which overlap, which crash or which
administrator's act excuses a state; they restrict no action.

### What does not hold

The following are said by a comment, a guard or a table of the code, and
short behaviours of the models violate them. A name at the head of an entry is a
definition of its module, kept there for a reader; no run checks it.

- That a counter holds what checkouts have reserved (`inventory.service.ts:95-101`): a
  finishing checkout deletes the counter another is still counted in (DECRBY, then DEL). The database still prevents the oversell.
- `RefundedWasCharged` (`orders.service.ts:486`): two cancellations act on the same
  `coinsUsedDebited`. `CoinsBackTwiceOnlyByRace` says that nothing else gives coins back too often.
- `RestoredWasTaken` (`vendors/vendor-orders.service.ts:359`): a vendor who cancels a
  PENDING order creates units; so do two calls of the vendor, one that is repeated
  after a crash, and one on an order that a delivery or an administrator made final
  (`loose`). `RestoredWasTakenUnlessLoose` says that nothing else does.
- `PaidStaysPaid` (`payments.service.ts:99`): `createOrder` resets a payment that was captured since its read.
- `CancelledIsFinal` (`orders/order-state-validator.service.ts`): a confirmation revives a cancelled order.
- "No accidental unlock by other holders" (`redis-lock.service.ts:12`): after an overrun a run
  frees a later run's lock in its own instance. `FreedByHolder` says that it takes an overrun.
- That the reservation counter never passes the stock left (`inventory.service.ts:83`): it is
  compared with a stock read before a sale took it, or while a sale that has
  released its units has not yet committed. The conditional UPDATE still prevents the oversell.
- That a room unlocks as soon as its goal is met: nobody checks it when an administrator
  sets an order's payment or status, when a replacement counts, or when a link commits
  after its own check (`missed`). A room made for one is full from the start, and OPEN.
- That Product.stock is the sum of its variants (`inventory.service.ts:122`): `restoreStock` adds
  to what `deductStock` has just counted anew (`crossed`).
- That an upgrade is paid for: a request without `paymentMethod` skips both branches
  (`vendor-memberships.service.ts:244-288`).
- `vendor-payouts/vendor-payouts.service.ts:253` says that the transaction prevents two
  requests from both finding the balance sufficient. At READ COMMITTED both
  `CheckAsk` can pass before either commits. `RequestsFitUnlessCrossed` says that
  requests one after another, whatever jobs and administrators do, do fit.
- `returns/admin-returns.controller.ts:69` says that `updateStatus` to APPROVED creates a
  replacement if there is none. It does so only when the status *read* was another one:
  a return that the vendor has accepted, or whose replacement has failed, gets
  none (`Unserved`).

Each property of a passing run has a mutant of the code in `PROJECT.json`, such as the
UPDATE without its condition, a time to live left out or a tier not
compared, with which the same run finds the property violated. The operators
named "Mutant of" stand before the definition they mutate and are used nowhere
else.

### Fairness

- `StockReservation`: weak fairness of each request's own steps (the event loop
  runs continuations), of aborting a *blocked* transaction (PostgreSQL's
  deadlock detection and Prisma's transaction timeout), and of the end of keys
  with a time to live. A transaction that is not blocked need not abort, and a
  customer need not pay.
- `OrderPayment`: weak fairness of a worker that has read; strong fairness of the
  delivery of a captured event, because Razorpay repeats it until it is answered and
  a worker is free again and again. Nobody has to pay, call, confirm, cancel or fail.
- `VendorEarnings`, `CoinLedger`: weak fairness of the cron's own steps: it fires
  every six hours or every midnight, and its statements are answered. Deaths and failures
  are bounded, so that one run gets through in the end. No vendor, user or
  administrator has to do anything.
- `Rooms`: weak fairness of a link or a confirmation that has begun. Nobody has to
  join, link, confirm or expire, and no cron has to run.
- `RedisLock`, `Returns` and `VendorMembership` have no liveness property. That a lock comes
  free would say only that Redis ends its key; a failed replacement is not
  retried; a membership whose midnight job was missed is never renewed, since only
  those that end within a day are listed.

## 5. What is proved

Every theorem is `Spec => ...` for every value of the constants, under the
assumptions the modules name: any number of requests, users, SKUs, orders,
calls, instances and runs, any bounds.

Assumptions: `CartsAssumption` (a cart is a non-empty sequence of lines with a
positive quantity and no SKU on two lines; `cart.service.ts` merges additions
under its lock, the schema has no unique constraint), `RequestsAssumption`,
`StockAssumption`, `BoundsAssumption`, `OrderAssumption` (a Razorpay order of the
checkout is not one that `createOrder` makes), `CallAssumption`,
`CallsApart` (a call is of one handler), `RunAssumption` and `BoundAssumption` (types of the constants). The other five
modules assume types of their constants, that names of different kinds do not
collide, that one bank transfer goes to one vendor, that the users are finitely
many (`RoomAssumption`) and that more orders are more in number and in value
(`EnoughAssumption`). Of the size of a room nothing is assumed.

Quantities that add up over many requests, rows or payouts are written as
cardinalities: the units sold are the set of pairs of an order and a number up
to its quantity, the coins of some rows and the rupees that are asked for
likewise. A step then adds or removes the pairs of one order, row or payout, and
`FiniteSetTheorems` says what that does to the cardinality, where a sum would
need an induction. That the sets are finite, though the constants may not be,
is part of the invariants.

**StockReservationProofs.** `StockNeverNegative` is not inductive: a commit
subtracts lines that were checked one at a time, earlier. `IInv` adds
`LockedRowsSuffice` (the units of every deducted line are still in the row),
which holds because of `RowsLockedOnce` (no row is updated by two open
transactions) and of `ControlOK` (cursors agree with the place in the code and
with the order, so that a commit has deducted exactly all lines of the order).
There is one lemma per action; `RowsCommitted`, `RowsRolledBack` and `RowLocked`
say what the three changes of the locked set do to the rows. From `IInv`:
`TypeCorrect`, `NoOversell`, and `Refinement`, the theorem that the checkout implements
`AtomicSale`. There, `Commit` maps to `Sell` (`CommitSells`, by
`AllLinesCovered`) and every other step to a stutter (`OthersStutter`), whatever
the Redis counters say: the counters are shown to be an optimisation, and the
conditional UPDATE to be what keeps the stock. `UnitsConserved` is then inductive
with `FinitelySold`: a commit moves each line's units from the row to the
order, and only once, because `ControlOK` says that it was in no final order. `CounterBounded` compares
with the stock that is *left*, and is not inductive: a commit lowers the stock and not
the counter. `BoundedBy` adds the units that an open transaction has released and
is still to take (`Released`), for which there must be room as well; then a commit
uses that room up, an increment that is admitted was compared with a stock that
is still there or makes the SKU slip (`Slips`), the release paths only ever take
away, and a crash before an undo makes it slip. Theorems: `Invariance`, `TypeCorrect`,
`NoOversell`, `Refinement`, `NoUnitLostOrSoldTwice`, `CounterStaysBounded`.

**OrderPaymentProofs.** `DeductedOnce` and `ChargedOnce` compare a history
counter with a status or a flag and are inductive step by step because the
transaction's UPDATE and its debit look at the row again; `PaidMeansCaptured`
needs `EventsAreTrue` (a worker that is about to write SUCCESS holds an event of
a payment that was made), and the four make `IInv`. `CancelTx` is the
delicate case of `ChargedOnce`: it gives coins back on an old read, and the
inequality survives because a refund is counted in the same step.
The two bounds from the other side have invariants of their own. `RefundInv`: a
cancellation that has read a debit and that nobody has overtaken still finds it
(`DebitsStand`), so what it gives back was charged; it makes every other
cancellation that has read the debit `overtaken`. `StockInv`: the stock of a
final order is taken unless a vendor has just put it back, and no
two calls of the vendor are between read and write (`FinalIsTaken`); orders for
which the code cannot know it, listed at `RestoredWasTakenUnlessLoose`, are
`loose` from then on. `FlagInv` is behind `CompletedIsTrue`: a call that is about to
say "completed" has found its orders final or made them so (`CompletingIsTrue`), and
a Razorpay order that a retry links later has no confirmation yet
(`UnlinkedIsUnpaid`), whoever sets, clears or outlives the key. Theorems: `Invariance`,
`TypeCorrect`, `StockDeductedOnce`, `CoinsChargedOnce`, `NoFalseSuccess`,
`NoSecondGivingBackAlone`, `NoUnitsCreatedAlone`, `KeyTellsTheTruth`.

**RedisLockProofs.** `OneJob` is proved from `HeldOrOverrun` (a job inside holds
the key or its instance has had an overrun), which needs `MapOrOverrun` (what
the map and a pending release hold) to survive a release. `OthersKeepTheirs`, an
action property, follows from `OwnValues`: whatever a release is about to delete
was stored by a run of its own instance. `FreedByHolder` needs `MapOrOverrun` besides:
without an overrun a release finds its own value in the map. Theorems: `Invariance`,
`Exclusion`, `NoForeignRelease`, `NoAccidentalRelease`.

**VendorEarningsProofs.** `OverdrawnOnlyByRace` needs `ReadyCovered`: a call that is
about to deduct is covered by the earnings, unless two have overlapped. The only
step that lowers the earnings is `Commit`, and it puts the vendor into `raced` if
another deducting call has read; otherwise no other call is ready, and
`ReadyCovered` holds again vacuously. `TransferBookedOnce` needs `UnbookedYet`, the same for
the search of a transfer. `Refinement` shows that the module implements `Account`
with the settled orders and the deducting payouts as bookings: `Finalize` and
`Commit` are the two bookings (each of a booking that was not there), every other
step is a stutter, those of failing and dying jobs and of administrators included.
`RequestsFitUnlessCrossed`, an action property, follows from `AskInv`: what a request that is not
`crossed` has read is still covered (`AsksCovered`), since settlements only raise the
earnings, administrators only take requests out of PENDING, and every commit crosses the others. Theorems:
`Invariance`, `TypeCorrect`, `NoOverdraftWithoutRace`, `RetryBooksNothing`,
`NoOverAskingAlone`, `Refinement`.

**RoomsProofs.** `MembersCounted` is inductive because joins and leaves change
count and members in one commit and look at the row again; its cardinalities use
`FiniteSetTheorems`. `UnlockJustified` needs `ChecksAreHonest`: a check about to
write UNLOCKED is about a room whose goal has been met at some time. `FullRoomLocked`
needs that only discount rooms are bought in and that a room goes back to OPEN by
nobody but an administrator. `UnlockedOrUnderway` needs `RoomsAsRead` (what a
confirmation has read of its order's room is still so, or the link that changed it is
known to be missed) and that goals are monotone: the order that completes a goal is
one whose confirmation has the check still before it, and a check that finds the goal
unmet leaves nothing behind. Theorems: `Invariance`, `MembersAreCounted`,
`FullRoomsAreLocked`, `UnlocksAreJustified`, `GoalsAreNoticed`.

**CoinLedgerProofs.** `NegativeOnlyByRace` needs `ReadyCovered`: a call that is about to
take coins and is not `stale` has found enough and still does. Whoever changes a
balance makes all other readers stale, a sweep too, and a sweep writes at least
zero. `BalanceIsLedger` needs `ReadingsCurrent`: the sums of a sweep that nobody has
overtaken are those of the rows. A call changes balance and row by the same
coins, and a sweep that ends puts them together or marks the user as `drifted`.
Theorems: `Invariance`, `NoDebtWithoutRace`, `RowsExplainBalance`.

**VendorMembershipProofs.** `CoinsNeverNegative` rests on the condition of the
UPDATE. `LostOnlyByRace`, `TiersAgree` need `WritesAsRead`: a call
that is not `stale` finds the membership as it read and wrote it; `Level` writes the
tier that the membership has and takes the vendor out of `assigned`. Those about the renewals need `ListedIsDue` (a listed month is due and covered unless history excuses it).
`UpgradesRaise`, an action property, uses `WritesAsRead` too: an upgrade that
nobody has overtaken finds the tier that it has compared with. Theorems:
`Invariance`, `CoinsStayCovered`, `NoLossAlone`, `CopiesAgree`,
`NoFreeMonthAlone`, `NoMonthTwiceAlone`, `UpgradesRaise`.

**ReturnsProofs.** `RefundedTwiceOnlyByRace` needs `RefundsAlone` and
`RestockedTwiceOnlyByRace` needs `RestocksAlone`: a call that nobody has overtaken
makes the first refund, or restocks what has not been restocked; the latter in turn needs that a
request stays QC_PASSED until it is reopened (`PassedStays`) and that what a
call has read was once true (`ReadsThePast`). `UnitsTakenOnce` counts restocked
units and replaced requests: a replacement is one transaction of its row and
all of its conditional decrements. `TotalsAgree` needs `TotalsInv`, which counts: unless the
rows were moved apart, the variant's is ahead of the product's by the number of calls
that owe the second update. Theorems: `Invariance`, `NoSecondRefundAlone`,
`NoSecondRestockAlone`, `ApprovalsAreServed`, `ReplacementsTakeTheirUnits`,
`ProductsFollowVariants`.

The inductive invariants were checked with TLC while the proofs were written and
are not part of the runs: the theorems say more.

### Only model-checked

Liveness under fairness (`CallsEnd`, `CounterDrains`, `CaptureRecorded`,
`SettledInTheEnd`, `UnlockedInTheEnd` and the `ExpiresInTheEnd` of coins), which
TLAPS does not reason about. Every invariant, action property and refinement of a
run is stated by a theorem.

`CallsEnd` and `CounterDrains` are checked without crashes: a process that dies between
INCRBY and the EXPIRE of a fresh key leaves a counter without a time to live, which
only the cleanup cron deletes. `CaptureRecorded` is stated for runs without database errors in the
webhook: with one (`WebhookMisreads`) the event is answered and lost.

## 6. What the models leave out

- Prices, coupons, gifts, delivery slots, the split of a cart by vendor: a
  request becomes one order. Validations that fail a transaction are the
  nondeterministic `AbortTx`.
- SKUs are of different products. The cron takes a product's own key for active
  when any variant of it is in a pending order (`scheduler.service.ts:160-176`);
  the model, which matches exactly, may delete a key the code would keep.
- Redis commands that fail outside a transaction (an EXPIRE that fails after its
  INCRBY, a release that is caught and logged) and the in-memory fallback.
- The state validator of `updateOrderStatus`: vendors move along `Moves`; an
  administrator's override may set any status of `AdminTargets`, which the runs
  keep to OUT_FOR_INSPECTION and the proofs leave open.
- `handleStockDeduction` of the order queue and the flag `stockDeducted`:
  `addOrderProcessing` has no caller, so `cancelOrder` never restores stock.
- Refunds at Razorpay, gifts added to an order later, point of sale, payment
  intents of services.
- `isLocked` and `extendLock` of the lock service have no callers;
  `acquireLock`'s retries are not used by `withLock`.
- `VendorEarnings`: commissions and the amounts of settlements; `creditEarnings` of
  `vendors.service.ts`, which has no caller; the minimum, the bank details and
  the KYC of a request, which are `Refuse`. An order that leaves DELIVERED before
  the cron looks at it is one that was not delivered yet.
- `Rooms`: the creation and deletion of rooms, an administrator's PATCH of anything but a
  status, invitations, broadcasts; the eligibility of products and dates of a linked
  order. A discount room that is still OPEN at its end never expires by the minute cron.
- `CoinLedger`: the references of credits, which only the referrals would set; the
  redemption by `POST coins/redeem`, which always fails; the debit in the order queue,
  which has no dispatcher; `redeemForOrder` and the bonuses of `BowCoinService`, which
  nothing calls (`bulkGrant` is `grantCoins` in a loop). Amounts are small integers. Of
  a boost only the row of the user is modelled, its coins are the vendor's (`Spend` of
  `VendorMembership`).
- `VendorMembership`: prices in rupees, which only create a payment intent; the limits
  and the commission that are written with a tier. Nothing
  in the code adds coins to a vendor, except an upgrade with negative proration.
- `Returns`: evidence, pickup and shipping; a checklist of quality control, which
  moves no return. A return has one unit of each of its products; a product has at
  most one variant, so that the sum `deductStock` writes is that of one row. Sales and
  other writers of `Product.stock` are not in this module.
