-------------------------- MODULE StockReservation --------------------------
(***************************************************************************)
(* The checkout of a cart: the reservation counters in Redis, the stock    *)
(* rows in PostgreSQL and the requests that work on both.                  *)
(*                                                                         *)
(* Each action is one call that another request may come before or after:  *)
(* one Redis command, one SQL statement, or the commit of a transaction.   *)
(* The isolation level is PostgreSQL's default, READ COMMITTED: a plain    *)
(* read sees what is committed, and an UPDATE waits for the row's lock.    *)
(***************************************************************************)
EXTENDS Integers, Sequences, FiniteSets

CONSTANTS
    Request,        \* calls of CheckoutService.checkout
    User,           \* owners of the carts
    SKU,            \* a product, or a variant: whatever has a reservation key
    Owner,          \* [Request -> User]
    Mode,           \* [Request -> {"COD", "ONLINE"}]
    Carts,          \* the non-empty contents a cart may have
    InitialStock,   \* [SKU -> Nat]
    MaxConfirms,    \* bound: payment confirmations tried for one order
    MaxEdits,       \* bound: changes of a cart by its owner
    MaxCrashes,     \* bound: process crashes
    MaxExpiries,    \* bound: reservation keys that Redis expires
    MaxScans        \* bound: runs of the stale-reservation cron

Line == [sku : SKU, qty : Nat \ {0}]

ASSUME CartsAssumption ==
    /\ Carts \subseteq Seq(Line) \ {<<>>}
    \* cart.service merges two additions of the same SKU into one line
    /\ \A c \in Carts : \A i, j \in DOMAIN c : c[i].sku = c[j].sku => i = j
ASSUME RequestsAssumption ==
    /\ Owner \in [Request -> User]
    /\ Mode \in [Request -> {"COD", "ONLINE"}]
ASSUME StockAssumption == InitialStock \in [SKU -> Nat]
ASSUME BoundsAssumption ==
    {MaxConfirms, MaxEdits, MaxCrashes, MaxExpiries, MaxScans} \subseteq Nat

VARIABLES
    stock,      \* Product.stock / ProductVariant.stock, as committed
    cart,       \* Cart.CartItem of each user, <<>> when empty
    order,      \* the status of the order a request created, "none" if none
    items,      \* Order.itemsSnapshot: the cart as the transaction read it
    reserved,   \* the value of the key reservation:<product>:<variant>, 0 if absent
    present,    \* the reservation keys that exist
    expiring,   \* the reservation keys that have a time to live
    slipped,    \* history: SKUs whose counter, since its key was last deleted, was
                \* raised on a stock that is gone, or left raised by a crash
    pc,         \* where each request is
    plan,       \* cartForReservation: the cart as read before reserving
    idx,        \* the line of plan (or of items) being worked on
    relEnd,     \* the number of lines of plan (reservedItems) being released
    seen,       \* status.stock, as getStock read it for the current line
    deducted,   \* lines of items whose stock row the open transaction has updated
    scan,       \* the stale-reservation cron: where it is and what it has read
    used        \* counters for the bounds

dbVars == <<stock, cart, order, items>>
redisVars == <<reserved, present, expiring, slipped>>
localVars == <<plan, idx, relEnd, seen, deducted>>
vars == <<stock, cart, order, items, reserved, present, expiring, slipped, pc, plan,
          idx, relEnd, seen, deducted, scan, used>>

Reserving == {"read", "check", "incr", "undo", "expire"}
Releasing == {"decr", "del"}
\* The transaction is open in these; in Deducting it may hold stock rows.
Deducting == {"deduct", "txDecr", "txDel", "commit"}
Ordering == {"begin", "txCheck", "txClear"}
InTx == Ordering \cup Deducting
PC == {"idle", "linkPayment", "awaiting", "done", "failed"}
        \cup Reserving \cup Releasing \cup InTx

Status == {"none", "PENDING_PAYMENT", "CONFIRMED"}

Skus(lines) == {lines[i].sku : i \in DOMAIN lines}
Units(lines, s) ==
    IF s \in Skus(lines)
    THEN lines[CHOOSE i \in DOMAIN lines : lines[i].sku = s].qty
    ELSE 0

\* SKUs whose stock rows the open transaction of r has locked.
Locked(r) == {items[r][i].sku : i \in 1..deducted[r]}

Init ==
    /\ stock = InitialStock
    /\ cart \in [User -> Carts]
    /\ order = [r \in Request |-> "none"]
    /\ items = [r \in Request |-> <<>>]
    /\ reserved = [s \in SKU |-> 0]
    /\ present = {}
    /\ expiring = {}
    /\ slipped = {}
    /\ pc = [r \in Request |-> "idle"]
    /\ plan = [r \in Request |-> <<>>]
    /\ idx = [r \in Request |-> 1]
    /\ relEnd = [r \in Request |-> 0]
    /\ seen = [r \in Request |-> 0]
    /\ deducted = [r \in Request |-> 0]
    /\ scan = [at |-> "idle", keys |-> {}, pending |-> {}, stale |-> {}]
    /\ used = [confirms |-> [r \in Request |-> 0], edits |-> 0,
               crashes |-> 0, expiries |-> 0, scans |-> 0]

-----------------------------------------------------------------------------
(* Redis commands on a reservation key                                     *)

IncrBy(s, n) ==
    /\ reserved' = [reserved EXCEPT ![s] = @ + n]
    /\ present' = present \cup {s}
    /\ UNCHANGED expiring

Del(s) ==
    /\ reserved' = [reserved EXCEPT ![s] = 0]
    /\ present' = present \ {s}
    /\ expiring' = expiring \ {s}
    /\ slipped' = slipped \ {s}

Expire(s) ==
    /\ expiring' = IF s \in present THEN expiring \cup {s} ELSE expiring
    /\ UNCHANGED <<reserved, present, slipped>>

-----------------------------------------------------------------------------
(* Control of a request                                                    *)

Goto(r, l) == pc' = [pc EXCEPT ![r] = l]

\* A failed request ends; its order, if it was committed, can still be paid.
Ended(r) == IF order[r] = "PENDING_PAYMENT" THEN "awaiting" ELSE "failed"

\* for (const reserved of reservedItems) await releaseStock(...), then rethrow.
\* n is the number of reservedItems.
ReleaseFirst(r, n) ==
    /\ Goto(r, IF n = 0 THEN Ended(r) ELSE "decr")
    /\ idx' = [idx EXCEPT ![r] = 1]
    /\ relEnd' = [relEnd EXCEPT ![r] = n]

\* The transaction rolls back: nothing it wrote in the database remains.
\* checkout's catch releases all reservedItems; a confirmation has no such catch.
Rollback(r) ==
    /\ deducted' = [deducted EXCEPT ![r] = 0]
    /\ IF order[r] = "PENDING_PAYMENT"
       THEN Goto(r, "awaiting") /\ UNCHANGED <<idx, relEnd>>
       ELSE ReleaseFirst(r, Len(plan[r]))
    /\ UNCHANGED <<plan, seen>>

-----------------------------------------------------------------------------
(* Reserving, before the transaction: one reserveStock per cart line       *)

Prefetch(r) ==
    /\ pc[r] = "idle"
    /\ plan' = [plan EXCEPT ![r] = cart[Owner[r]]]
    /\ Goto(r, IF cart[Owner[r]] = <<>> THEN "failed" ELSE "read")
    /\ UNCHANGED <<dbVars, redisVars, idx, relEnd, seen, deducted, scan, used>>

\* getStock, first half: the row's stock
ReadStock(r) ==
    /\ pc[r] = "read"
    /\ seen' = [seen EXCEPT ![r] = stock[plan[r][idx[r]].sku]]
    /\ Goto(r, "check")
    /\ UNCHANGED <<dbVars, redisVars, plan, idx, relEnd, deducted, scan, used>>

\* getStock, second half: max(0, stock - reserved), and the optimistic check.
\* Quantities are positive, so max(0, n) < qty is n < qty.
CheckAvailable(r) ==
    /\ pc[r] = "check"
    /\ LET line == plan[r][idx[r]] IN
       IF seen[r] - reserved[line.sku] < line.qty
       THEN ReleaseFirst(r, idx[r] - 1)
       ELSE Goto(r, "incr") /\ UNCHANGED <<idx, relEnd>>
    /\ UNCHANGED <<dbVars, redisVars, plan, seen, deducted, scan, used>>

\* SKUs whose units the open transaction of r has given back to the counter
\* and not yet taken from the committed stock.
Released(r) == {items[r][i].sku : i \in 1..(deducted[r] - (IF pc[r] = "txDecr" THEN 1 ELSE 0))}

\* A reservation of s is admitted although the stock that r has read is gone, or
\* is about to go with a sale that holds no reservation any more.
Slips(r, s) ==
    slipped' = IF seen[r] > stock[s] \/ \E q \in Request : s \in Released(q)
               THEN slipped \cup {s} ELSE slipped

\* Mutant of Increment: the value INCRBY answers is not looked at.
IncrementUnvalidated(r) ==
    /\ pc[r] = "incr"
    /\ LET line == plan[r][idx[r]] IN IncrBy(line.sku, line.qty) /\ Slips(r, line.sku)
    /\ Goto(r, "expire")
    /\ UNCHANGED <<dbVars, localVars, scan, used>>

\* INCRBY answers the new value; it is compared with the stock read earlier.
Increment(r) ==
    /\ pc[r] = "incr"
    /\ LET line == plan[r][idx[r]] IN
       /\ IncrBy(line.sku, line.qty)
       /\ IF reserved[line.sku] + line.qty > seen[r]
          THEN Goto(r, "undo") /\ UNCHANGED slipped
          ELSE Goto(r, "expire") /\ Slips(r, line.sku)
    /\ UNCHANGED <<dbVars, localVars, scan, used>>

Undo(r) ==
    /\ pc[r] = "undo"
    /\ LET line == plan[r][idx[r]] IN IncrBy(line.sku, -line.qty)
    /\ ReleaseFirst(r, idx[r] - 1)
    /\ UNCHANGED <<dbVars, slipped, plan, seen, deducted, scan, used>>

\* Mutant of RefreshTtl: no EXPIRE.
NoTtl(r) ==
    /\ pc[r] = "expire"
    /\ idx' = [idx EXCEPT ![r] = @ + 1]
    /\ Goto(r, IF idx[r] < Len(plan[r]) THEN "read" ELSE "begin")
    /\ UNCHANGED <<dbVars, redisVars, plan, relEnd, seen, deducted, scan, used>>

RefreshTtl(r) ==
    /\ pc[r] = "expire"
    /\ Expire(plan[r][idx[r]].sku)
    /\ idx' = [idx EXCEPT ![r] = @ + 1]
    /\ Goto(r, IF idx[r] < Len(plan[r]) THEN "read" ELSE "begin")
    /\ UNCHANGED <<dbVars, plan, relEnd, seen, deducted, scan, used>>

\* releaseStock: DECRBY answers the new value, and a second command, DEL,
\* follows when it is not positive.
ReleaseDecr(r) ==
    /\ pc[r] = "decr"
    /\ LET line == plan[r][idx[r]] IN
       /\ IncrBy(line.sku, -line.qty)
       /\ IF reserved[line.sku] - line.qty <= 0
          THEN Goto(r, "del") /\ UNCHANGED idx
          ELSE /\ Goto(r, IF idx[r] < relEnd[r] THEN "decr" ELSE Ended(r))
               /\ idx' = [idx EXCEPT ![r] = @ + 1]
    /\ UNCHANGED <<dbVars, slipped, plan, relEnd, seen, deducted, scan, used>>

ReleaseDel(r) ==
    /\ pc[r] = "del"
    /\ Del(plan[r][idx[r]].sku)
    /\ Goto(r, IF idx[r] < relEnd[r] THEN "decr" ELSE Ended(r))
    /\ idx' = [idx EXCEPT ![r] = @ + 1]
    /\ UNCHANGED <<dbVars, plan, relEnd, seen, deducted, scan, used>>

-----------------------------------------------------------------------------
(* The checkout transaction                                                *)

\* The cart is read again; it may have changed since Prefetch.
BeginTx(r) ==
    /\ pc[r] = "begin"
    /\ items' = [items EXCEPT ![r] = cart[Owner[r]]]
    /\ IF cart[Owner[r]] = <<>>
       THEN Rollback(r)
       ELSE /\ Goto(r, "txCheck")
            /\ idx' = [idx EXCEPT ![r] = 1]
            /\ UNCHANGED <<plan, relEnd, seen, deducted>>
    /\ UNCHANGED <<stock, cart, order, redisVars, scan, used>>

CheckLine(r) ==
    /\ pc[r] = "txCheck"
    /\ LET line == items[r][idx[r]] IN
       IF stock[line.sku] < line.qty
       THEN Rollback(r)
       ELSE /\ idx' = [idx EXCEPT ![r] = @ + 1]
            /\ Goto(r, IF idx[r] < Len(items[r]) THEN "txCheck" ELSE "txClear")
            /\ UNCHANGED <<plan, relEnd, seen, deducted>>
    /\ UNCHANGED <<dbVars, redisVars, scan, used>>

\* cartItem.deleteMany.  Its row locks are held until the transaction ends,
\* so another checkout of the same cart waits here; the deletion shows on commit.
\* An ONLINE checkout has nothing left to wait for and commits.
ClearCart(r) ==
    /\ pc[r] = "txClear"
    /\ \A q \in Request \ {r} :
          Owner[q] = Owner[r] /\ order[q] = "none" => pc[q] \notin Deducting
    /\ IF Mode[r] = "COD"
       THEN Goto(r, "deduct") /\ UNCHANGED <<cart, order>>
       ELSE /\ cart' = [cart EXCEPT ![Owner[r]] = <<>>]
            /\ order' = [order EXCEPT ![r] = "PENDING_PAYMENT"]
            /\ Goto(r, "linkPayment")
    /\ UNCHANGED <<stock, items, redisVars, localVars, scan, used>>

\* Mutant of DeductRow: UPDATE without the condition stock >= quantity.
DeductRowUnconditionally(r) ==
    /\ pc[r] = "deduct"
    /\ \A q \in Request \ {r} : items[r][deducted[r] + 1].sku \notin Locked(q)
    /\ deducted' = [deducted EXCEPT ![r] = @ + 1]
    /\ Goto(r, "txDecr")
    /\ UNCHANGED <<dbVars, redisVars, plan, idx, relEnd, seen, scan, used>>

\* deductStock: UPDATE ... WHERE stock >= quantity.  It waits for the row's
\* lock and then sees the row as last committed.
DeductRow(r) ==
    /\ pc[r] = "deduct"
    /\ LET line == items[r][deducted[r] + 1] IN
       /\ \A q \in Request \ {r} : line.sku \notin Locked(q)
       /\ IF stock[line.sku] < line.qty
          THEN Rollback(r)
          ELSE /\ deducted' = [deducted EXCEPT ![r] = @ + 1]
               /\ Goto(r, "txDecr")
               /\ UNCHANGED <<plan, idx, relEnd, seen>>
    /\ UNCHANGED <<dbVars, redisVars, scan, used>>

NextDeduction(r) == IF deducted[r] < Len(items[r]) THEN "deduct" ELSE "commit"

\* deductStock's own releaseStock: in Redis, so a rollback does not undo it.
TxReleaseDecr(r) ==
    /\ pc[r] = "txDecr"
    /\ LET line == items[r][deducted[r]] IN
       /\ IncrBy(line.sku, -line.qty)
       /\ Goto(r, IF reserved[line.sku] - line.qty <= 0 THEN "txDel"
                                                        ELSE NextDeduction(r))
    /\ UNCHANGED <<dbVars, slipped, localVars, scan, used>>

TxReleaseDel(r) ==
    /\ pc[r] = "txDel"
    /\ Del(items[r][deducted[r]].sku)
    /\ Goto(r, NextDeduction(r))
    /\ UNCHANGED <<dbVars, localVars, scan, used>>

\* The commit of a COD checkout, or of the confirmation of an ONLINE order.
Commit(r) ==
    /\ pc[r] = "commit"
    /\ stock' = [s \in SKU |-> stock[s] - Units(items[r], s)]
    /\ order' = [order EXCEPT ![r] = "CONFIRMED"]
    /\ cart' = IF order[r] = "none" THEN [cart EXCEPT ![Owner[r]] = <<>>] ELSE cart
    /\ deducted' = [deducted EXCEPT ![r] = 0]
    /\ Goto(r, "done")
    /\ UNCHANGED <<items, redisVars, plan, idx, relEnd, seen, scan, used>>

\* Mutant of AbortTx: deductStock was not given the transaction's client, so
\* the rollback does not cover the rows it updated.
AbortTxKeepsRows(r) ==
    /\ pc[r] \in InTx
    /\ stock' = [s \in SKU |-> stock[s] - IF s \in Locked(r) THEN Units(items[r], s) ELSE 0]
    /\ Rollback(r)
    /\ UNCHANGED <<cart, order, items, redisVars, scan, used>>

\* Mutant of AbortTx: nothing ends a transaction that waits for a stock row.
AbortTxNotBlocked(r) ==
    /\ pc[r] \in Ordering
    /\ Rollback(r)
    /\ UNCHANGED <<dbVars, redisVars, scan, used>>

\* Any other failure of the transaction: a vendor or slot check, the coupon,
\* a Redis error inside deductStock, the transaction's time limit, a deadlock
\* PostgreSQL breaks.
AbortTx(r) ==
    /\ pc[r] \in InTx
    /\ Rollback(r)
    /\ UNCHANGED <<dbVars, redisVars, scan, used>>

\* Phase 2 of an ONLINE checkout, outside the transaction: create the Razorpay
\* order and link it, or fail and release everything in the catch.
LinkPayment(r) ==
    /\ pc[r] = "linkPayment"
    /\ \/ Goto(r, "awaiting") /\ UNCHANGED <<idx, relEnd>>
       \/ ReleaseFirst(r, Len(plan[r]))
    /\ UNCHANGED <<dbVars, redisVars, plan, seen, deducted, scan, used>>

\* Mutant of StartConfirm: the order's status is not looked at.
StartConfirmAgain(r) ==
    /\ pc[r] \in {"awaiting", "done"}
    /\ used.confirms[r] < MaxConfirms
    /\ used' = [used EXCEPT !.confirms[r] = @ + 1]
    /\ Goto(r, "deduct")
    /\ UNCHANGED <<dbVars, redisVars, localVars, scan>>

\* The customer has paid and confirmOrder opens its transaction, which
\* deducts the order's lines.
StartConfirm(r) ==
    /\ pc[r] = "awaiting"
    /\ used.confirms[r] < MaxConfirms
    /\ used' = [used EXCEPT !.confirms[r] = @ + 1]
    /\ Goto(r, "deduct")
    /\ UNCHANGED <<dbVars, redisVars, localVars, scan>>

-----------------------------------------------------------------------------
(* The rest of the world                                                   *)

\* The owner changes the cart, at any moment, also during the checkout.
EditCart(u) ==
    /\ used.edits < MaxEdits
    /\ \E c \in (Carts \cup {<<>>}) \ {cart[u]} : cart' = [cart EXCEPT ![u] = c]
    /\ used' = [used EXCEPT !.edits = @ + 1]
    /\ UNCHANGED <<stock, order, items, redisVars, pc, localVars, scan>>

\* The process dies: the transaction is rolled back, no catch runs, Redis stays.
Crash(r) ==
    /\ pc[r] \notin {"idle", "awaiting", "done", "failed"}
    /\ used.crashes < MaxCrashes
    /\ used' = [used EXCEPT !.crashes = @ + 1]
    /\ deducted' = [deducted EXCEPT ![r] = 0]
    /\ Goto(r, Ended(r))
    /\ slipped' = IF pc[r] = "undo" THEN slipped \cup {plan[r][idx[r]].sku} ELSE slipped
    /\ UNCHANGED <<dbVars, reserved, present, expiring, plan, idx, relEnd, seen, scan>>

\* Fifteen minutes after the last EXPIRE, Redis drops the key.
KeyExpires(s) ==
    /\ s \in expiring
    /\ used.expiries < MaxExpiries
    /\ used' = [used EXCEPT !.expiries = @ + 1]
    /\ Del(s)
    /\ UNCHANGED <<dbVars, pc, localVars, scan>>

\* handleStaleReservationCleanup lists the keys, then reads the pending orders.
ScanKeys ==
    /\ scan.at = "idle"
    /\ used.scans < MaxScans
    /\ used' = [used EXCEPT !.scans = @ + 1]
    /\ scan' = [scan EXCEPT !.at = "orders", !.keys = present]
    /\ UNCHANGED <<dbVars, redisVars, pc, localVars>>

ScanOrders ==
    /\ scan.at = "orders"
    /\ scan' = [scan EXCEPT !.at = "keys",
                   !.pending = UNION {Skus(items[r]) : r \in
                      {q \in Request : order[q] = "PENDING_PAYMENT"}}]
    /\ UNCHANGED <<dbVars, redisVars, pc, localVars, used>>

\* One key of the list.  Its value is read; a key with a positive value and
\* no pending order is then deleted whole, whatever it holds by that time.
ScanKey(s) ==
    /\ scan.at = "keys"
    /\ s \in scan.keys
    /\ scan' = [scan EXCEPT !.keys = @ \ {s},
                   !.stale = IF s \notin scan.pending /\ reserved[s] > 0
                             THEN {s} ELSE {},
                   !.at = IF s \notin scan.pending /\ reserved[s] > 0
                          THEN "delete" ELSE "keys"]
    /\ UNCHANGED <<dbVars, redisVars, pc, localVars, used>>

ScanDelete(s) ==
    /\ scan.at = "delete"
    /\ s \in scan.stale
    /\ Del(s)
    /\ scan' = [scan EXCEPT !.stale = {}, !.at = "keys"]
    /\ UNCHANGED <<dbVars, pc, localVars, used>>

ScanEnds ==
    /\ scan.at = "keys"
    /\ scan.keys = {}
    /\ scan' = [scan EXCEPT !.at = "idle", !.pending = {}]
    /\ UNCHANGED <<dbVars, redisVars, pc, localVars, used>>

-----------------------------------------------------------------------------
Reserve(r) == Prefetch(r) \/ ReadStock(r) \/ CheckAvailable(r) \/ Increment(r)
                \/ Undo(r) \/ RefreshTtl(r)
Release(r) == ReleaseDecr(r) \/ ReleaseDel(r)
Transact(r) == BeginTx(r) \/ CheckLine(r) \/ ClearCart(r) \/ DeductRow(r)
                \/ TxReleaseDecr(r) \/ TxReleaseDel(r) \/ Commit(r)

\* A step of the code of r itself, not of its environment.
Step(r) == Reserve(r) \/ Release(r) \/ Transact(r) \/ LinkPayment(r)

Cron == ScanKeys \/ ScanOrders \/ (\E s \in SKU : ScanKey(s) \/ ScanDelete(s)) \/ ScanEnds

Next ==
    \/ \E r \in Request :
          Step(r) \/ AbortTx(r) \/ StartConfirm(r) \/ Crash(r)
    \/ \E u \in User : EditCart(u)
    \/ \E s \in SKU : KeyExpires(s)
    \/ Cron

Spec == Init /\ [][Next]_vars

\* r waits for a stock row another request has locked.
Blocked(r) ==
    /\ pc[r] = "deduct"
    /\ \E q \in Request \ {r} : items[r][deducted[r] + 1].sku \in Locked(q)

\* The event loop runs every continuation, PostgreSQL ends a transaction that
\* stays blocked (deadlock detection, Prisma's transaction timeout), and Redis
\* expires keys.  Nobody has to pay, to edit a cart or to crash.
Fairness ==
    /\ \A r \in Request : WF_vars(Step(r)) /\ WF_vars(Blocked(r) /\ AbortTx(r))
    /\ \A s \in SKU : WF_vars(KeyExpires(s))

FairSpec == Spec /\ Fairness

-----------------------------------------------------------------------------
(* What is checked                                                         *)

Scan == [at : {"idle", "orders", "keys", "delete"},
         keys : SUBSET SKU, pending : SUBSET SKU, stale : SUBSET SKU]
Used == [confirms : [Request -> Nat], edits : Nat, crashes : Nat,
         expiries : Nat, scans : Nat]

\* Type correctness.  The counter may be negative: DECRBY of a missing key.
TypeOK ==
    /\ stock \in [SKU -> Int]
    /\ cart \in [User -> Carts \cup {<<>>}]
    /\ order \in [Request -> Status]
    /\ items \in [Request -> Carts \cup {<<>>}]
    /\ reserved \in [SKU -> Int]
    /\ present \subseteq SKU /\ expiring \subseteq present /\ slipped \subseteq SKU
    /\ pc \in [Request -> PC]
    /\ plan \in [Request -> Carts \cup {<<>>}]
    /\ idx \in [Request -> Nat \ {0}] /\ relEnd \in [Request -> Nat]
    /\ seen \in [Request -> Int] /\ deducted \in [Request -> Nat]
    /\ scan \in Scan
    /\ used \in Used

\* Where a request is agrees with its cursors and with its order.
Control(r) ==
    /\ pc[r] = "idle" => idx[r] = 1
    /\ pc[r] \in Reserving => idx[r] <= Len(plan[r])
    /\ pc[r] \in Releasing => idx[r] <= relEnd[r] /\ relEnd[r] <= Len(plan[r])
    /\ pc[r] \notin {"idle", "failed"} => plan[r] # <<>>
    /\ pc[r] = "txCheck" => idx[r] <= Len(items[r])
    /\ pc[r] = "deduct" => deducted[r] < Len(items[r])
    /\ pc[r] \in {"txDecr", "txDel"} => deducted[r] > 0
    /\ pc[r] = "commit" => deducted[r] = Len(items[r])
    /\ pc[r] \notin Deducting => deducted[r] = 0
    /\ deducted[r] <= Len(items[r])
    /\ order[r] # "none" \/ pc[r] \in Deducting \cup {"txClear"} => items[r] # <<>>
    /\ pc[r] \in {"idle", "failed"} \cup Reserving \cup Ordering => order[r] = "none"
    /\ pc[r] \in {"linkPayment", "awaiting"} => order[r] = "PENDING_PAYMENT"
    /\ pc[r] = "done" <=> order[r] = "CONFIRMED"
ControlOK == \A r \in Request : Control(r)

\* Row locks: no two open transactions have updated the same stock row.
RowsLockedOnce == \A q, r \in Request : q # r => Locked(q) \cap Locked(r) = {}

\* What an open transaction has taken from a row is still there to be taken
\* when it commits.
LockedRowsSuffice == \A r \in Request : \A i \in 1..deducted[r] :
    stock[items[r][i].sku] >= items[r][i].qty

\* No oversell: deductStock's conditional UPDATE keeps every stock row at zero
\* or above, with any number of checkouts and confirmations running, whatever
\* became of the reservation counters.
StockNeverNegative == \A s \in SKU : stock[s] >= 0

\* The units of s in confirmed orders: <<r, n>> is the n-th of the order of r.
UnitsSold(s) ==
    UNION {{r} \X (1..Units(items[r], s)) : r \in {q \in Request : order[q] = "CONFIRMED"}}

\* Units are conserved: what was in the warehouse at the start is on hand or
\* in exactly one confirmed order, through rollbacks, crashes and retries.
UnitsConserved == \A s \in SKU : stock[s] + Cardinality(UnitsSold(s)) = InitialStock[s]

\* Units of s that requests have added to the counter and are about to take
\* back, having seen that they went beyond the stock.
BeingUndone(s) ==
    UNION {{r} \X (1..plan[r][idx[r]].qty) : r \in
        {q \in Request : pc[q] = "undo" /\ plan[q][idx[q]].sku = s}}

\* Increment-then-validate admits no more units than there are: but for the
\* increments being taken back, the counter never exceeds the stock that is left,
\* while sales commit, roll back and release, keys expire and the cron deletes
\* them.  Two windows let it (slipped), until the key is next deleted: a request
\* increments on a stock that a sale has taken since it was read, or takes after
\* having released its units; a crash comes between INCRBY and its undo.
CounterBounded == \A s \in SKU \ slipped :
    reserved[s] <= stock[s] + Cardinality(BeingUndone(s))

\* The inductive invariant behind the theorems of StockReservationProofs.
IInv == TypeOK /\ ControlOK /\ RowsLockedOnce /\ LockedRowsSuffice
            /\ StockNeverNegative

\* A sale is atomic: seen from the stock rows, every checkout or confirmation
\* takes all lines of one order in one step and only once, and one that is
\* rolled back, crashes or is retried takes nothing.
Sale == INSTANCE AtomicSale WITH
    sold <- [r \in Request |-> IF order[r] = "CONFIRMED" THEN items[r] ELSE <<>>]
SalesAreAtomic == Sale!Spec

Resting == {"idle", "awaiting", "done", "failed"}

\* Nobody waits for ever: two checkouts that lock the same rows in opposite
\* orders block each other only until one of them is aborted, and every call
\* then runs to its end, the release of its reservations included.
CallsEnd == \A r \in Request : pc[r] \notin Resting ~> pc[r] \in Resting

\* Reservations do not leak: when no process crashes, the counter of a SKU
\* comes back to zero or below again and again, by release or by expiry, even
\* if customers never pay and whichever checks and transactions fail on the
\* way.  A Redis command that fails outside the transaction is not modelled.
CounterDrains == \A s \in SKU : []<>(reserved[s] <= 0)
=============================================================================
