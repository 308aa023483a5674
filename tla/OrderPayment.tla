---------------------------- MODULE OrderPayment ----------------------------
(***************************************************************************)
(* The life of orders after the checkout: the customer pays at Razorpay,   *)
(* the client calls confirmOrder and verifyPayment, Razorpay calls the     *)
(* webhook, the customer may open a second payment or cancel, the vendor   *)
(* and the administrators move or cancel the order.                        *)
(*                                                                         *)
(* A call is split where it awaits: what it read before a step may be old  *)
(* when the step runs.  A database transaction that writes by row, on the  *)
(* condition it checks, is one step.                                       *)
(***************************************************************************)
EXTENDS Integers, FiniteSets

CONSTANTS
    Order,
    CoinsUsed,      \* [Order -> Nat]: Order.coinsUsed
    FirstStatus,    \* [Order -> Status]: PENDING_PAYMENT by CheckoutService (which
                    \* also made the Payment row), PENDING by createCheckout
    Provider,       \* Razorpay orders
    FirstProvider,  \* [Order -> Provider]: the one the checkout created; the
                    \* orders of one checkout group share it
    NoProvider,
    ConfirmCall,    \* calls of OrdersService.confirmOrder
    ConfirmOf,      \* [ConfirmCall -> Provider]: the payment each one brings
    CancelCall,     \* calls of OrdersService.cancelOrder, by the customer
    VendorCall,     \* calls of the vendor's cancelOrder
    MoveCall,       \* calls that move a status they have read and validated
    AdminCall,      \* calls of updatePaymentStatus, by an administrator
    PayCall,        \* calls of PaymentsService.createOrder; each is also the
                    \* Razorpay order that it creates
    Target,         \* [the calls of one order -> Order]
    Worker,         \* concurrent handlers of webhooks and of verifyPayment
    AdminTargets,   \* statuses the administrators set
    MaxMoves,       \* bound: moves by vendors and administrators
    MaxCrashes,     \* bound: crashes of the process that runs a call
    MaxErrors       \* bound: database errors while a webhook reads

Status == {"PENDING", "PENDING_PAYMENT", "CONFIRMED", "PAID", "PACKED", "SHIPPED",
           "OUT_FOR_INSPECTION", "DELIVERED", "CANCELLED"}
PaymentStatus == {"PENDING", "SUCCESS", "FAILED", "REFUNDED"}

\* finalStatuses of processConfirmOrder
Final == {"CONFIRMED", "DELIVERED", "PAID", "SHIPPED", "PACKED"}

Call == ConfirmCall \cup CancelCall \cup VendorCall \cup MoveCall \cup AdminCall
            \cup PayCall

ASSUME OrderAssumption ==
    /\ CoinsUsed \in [Order -> Nat]
    /\ FirstStatus \in [Order -> {"PENDING", "PENDING_PAYMENT"}]
    /\ FirstProvider \in [Order -> Provider \ PayCall]
    /\ PayCall \subseteq Provider /\ NoProvider \notin Provider
    /\ AdminTargets \subseteq Status
ASSUME CallAssumption ==
    /\ ConfirmOf \in [ConfirmCall -> Provider]
    /\ Target \in [CancelCall \cup VendorCall \cup MoveCall \cup AdminCall \cup PayCall -> Order]
\* A call is of one handler.
ASSUME CallsApart ==
    /\ ConfirmCall \cap (CancelCall \cup VendorCall \cup MoveCall \cup AdminCall \cup PayCall) = {}
    /\ CancelCall \cap (VendorCall \cup MoveCall \cup AdminCall \cup PayCall) = {}
    /\ VendorCall \cap (MoveCall \cup AdminCall \cup PayCall) = {}
ASSUME BoundAssumption == {MaxMoves, MaxCrashes, MaxErrors} \subseteq Nat

VARIABLES
    status,         \* Order.status
    debited,        \* Order.coinsUsedDebited
    linked,         \* Order.razorpayOrderId
    payment,        \* Payment.status, "none" when the order has no Payment row
    payOrder,       \* Payment.providerOrderId, NoProvider when null or no row
    flag,           \* the Redis key confirm_order:<provider order>:<payment>
    captured,       \* Razorpay orders the customer has paid
    failures,       \* Razorpay orders with a failed attempt
    unacked,        \* captured events the webhook has not answered yet
    at,             \* where each call is
    found,          \* ids of the orders processConfirmOrder has read
    seen,           \* the order and its payment as cancelOrder has read them
    next,           \* the status a move has validated and will write
    asked,          \* what updatePaymentStatus has read, and the status it will write
    event,          \* the event a worker has read the payments for, or NoEvent
    taken,          \* history: times the stock of the order was deducted
    restored,       \* history: times a call has begun to put it back
    charged,        \* history: times the coins of the order were debited
    refunded,       \* history: times they were given back
    exits,          \* history: times the order has left Final
    vouched,        \* history: orders whose payment an administrator set to SUCCESS
    overtaken,      \* history: cancellations whose debit another has given back
                    \* between their read and their transaction
    loose,          \* history: orders of which the status does not tell whether
                    \* their stock is taken
    used            \* counters for the bounds

orderVars == <<status, debited, linked, exits, loose>>
payVars == <<payment, payOrder, vouched>>
gateway == <<captured, failures, unacked>>
local == <<found, seen, next, asked, event>>
history == <<taken, restored, charged, refunded, overtaken>>
vars == <<status, debited, linked, payment, payOrder, flag, captured, failures,
          unacked, at, found, seen, next, asked, event, taken, restored, charged,
          refunded, exits, vouched, overtaken, loose, used>>

NoEvent == [kind |-> "none", prov |-> NoProvider]
NoQuestion == [to |-> "none", row |-> FALSE, pending |-> FALSE]
Zero == [o \in Order |-> 0]

Init ==
    /\ status = FirstStatus
    /\ debited = [o \in Order |-> FALSE]
    /\ linked = FirstProvider
    /\ payment = [o \in Order |->
                    IF FirstStatus[o] = "PENDING_PAYMENT" THEN "PENDING" ELSE "none"]
    /\ payOrder = [o \in Order |->
                    IF FirstStatus[o] = "PENDING_PAYMENT" THEN FirstProvider[o] ELSE NoProvider]
    /\ flag = [p \in Provider |-> "none"]
    /\ captured = {} /\ failures = {} /\ unacked = {}
    /\ at = [c \in Call |-> "idle"]
    /\ found = [c \in ConfirmCall |-> {}]
    /\ seen = [k \in CancelCall |-> [debited |-> FALSE, payment |-> "none"]]
    /\ next = [m \in MoveCall |-> "PENDING"]
    /\ asked = [a \in AdminCall |-> NoQuestion]
    /\ event = [w \in Worker |-> NoEvent]
    /\ taken = Zero /\ restored = Zero /\ charged = Zero /\ refunded = Zero
    /\ exits = Zero
    /\ vouched = {} /\ overtaken = {} /\ loose = {}
    /\ used = [moves |-> 0, crashes |-> 0, errors |-> 0]

Goto(c, l) == at' = [at EXCEPT ![c] = l]

\* order.update by id: whatever the status is now.  No stock is taken with it.
SetStatus(o, to) ==
    /\ status' = [status EXCEPT ![o] = to]
    /\ exits' = [exits EXCEPT ![o] =
                    @ + IF status[o] \in Final /\ to \notin Final THEN 1 ELSE 0]
    /\ loose' = IF status[o] \notin Final /\ to \in Final THEN loose \cup {o} ELSE loose

-----------------------------------------------------------------------------
(* confirmOrder                                                            *)

\* The Redis flag is read first and set by a second command.
\* A client has a valid signature only for a payment that was made.
ConfirmCheck(c) ==
    /\ at[c] = "idle"
    /\ ConfirmOf[c] \in captured
    /\ Goto(c, IF flag[ConfirmOf[c]] = "processing" THEN "failed"
               ELSE IF flag[ConfirmOf[c]] = "completed" THEN "done" ELSE "set")
    /\ UNCHANGED <<orderVars, payVars, flag, gateway, local, history, used>>

ConfirmSet(c) ==
    /\ at[c] = "set"
    /\ flag' = [flag EXCEPT ![ConfirmOf[c]] = "processing"]
    /\ Goto(c, "read")
    /\ UNCHANGED <<orderVars, payVars, gateway, local, history, used>>

ConfirmRead(c) ==
    /\ at[c] = "read"
    /\ LET os == {o \in Order : linked[o] = ConfirmOf[c]} IN
       /\ found' = [found EXCEPT ![c] = os]
       /\ Goto(c, IF os = {} THEN "clear"
                  ELSE IF \A o \in os : status[o] \in Final THEN "complete" ELSE "tx")
    /\ UNCHANGED <<orderVars, payVars, flag, gateway, seen, next, asked, event, history, used>>

\* Mutant of ConfirmTx: the UPDATE does not look at the status again.
ConfirmTxOnRead(c) ==
    /\ at[c] = "tx"
    /\ LET owing == {o \in found[c] : CoinsUsed[o] > 0 /\ ~debited[o]} IN
       /\ status' = [o \in Order |-> IF o \in found[c] THEN "CONFIRMED" ELSE status[o]]
       /\ taken' = [o \in Order |-> IF o \in found[c] THEN taken[o] + 1 ELSE taken[o]]
       /\ debited' = [o \in Order |-> o \in owing \/ debited[o]]
       /\ charged' = [o \in Order |-> IF o \in owing THEN charged[o] + 1 ELSE charged[o]]
    /\ Goto(c, "complete")
    /\ UNCHANGED <<linked, exits, loose, payVars, flag, gateway, local, restored, refunded,
                   overtaken, used>>

\* Mutant of ConfirmTx: coins are debited with the confirmation, without a look
\* at coinsUsedDebited.
ConfirmTxDebitsAgain(c) ==
    /\ at[c] = "tx"
    /\ LET todo == {o \in found[c] : status[o] \notin Final}
           owing == {o \in todo : CoinsUsed[o] > 0} IN
       /\ status' = [o \in Order |-> IF o \in todo THEN "CONFIRMED" ELSE status[o]]
       /\ taken' = [o \in Order |-> IF o \in todo THEN taken[o] + 1 ELSE taken[o]]
       /\ debited' = [o \in Order |-> o \in owing \/ debited[o]]
       /\ charged' = [o \in Order |-> IF o \in owing THEN charged[o] + 1 ELSE charged[o]]
    /\ Goto(c, "complete")
    /\ UNCHANGED <<linked, exits, loose, payVars, flag, gateway, local, restored, refunded,
                   overtaken, used>>

\* The orders not yet final become CONFIRMED; each one's stock is deducted, and
\* its coins are debited unless they are.
ConfirmTx(c) ==
    /\ at[c] = "tx"
    /\ LET todo == {o \in found[c] : status[o] \notin Final}
           owing == {o \in todo : CoinsUsed[o] > 0 /\ ~debited[o]} IN
       /\ status' = [o \in Order |-> IF o \in todo THEN "CONFIRMED" ELSE status[o]]
       /\ taken' = [o \in Order |-> IF o \in todo THEN taken[o] + 1 ELSE taken[o]]
       /\ debited' = [o \in Order |-> o \in owing \/ debited[o]]
       /\ charged' = [o \in Order |-> IF o \in owing THEN charged[o] + 1 ELSE charged[o]]
    /\ Goto(c, "complete")
    /\ UNCHANGED <<linked, exits, loose, payVars, flag, gateway, local, restored, refunded,
                   overtaken, used>>

\* Mutant of ConfirmAbort: the error is logged and not thrown on.
ConfirmAbortSwallowed(c) ==
    /\ at[c] \in {"tx", "complete"}
    /\ Goto(c, "complete")
    /\ UNCHANGED <<orderVars, payVars, flag, gateway, local, history, used>>

\* Not enough stock or coins, or the database gives the transaction up; or
\* Redis refuses the last key, with the transaction done.
ConfirmAbort(c) ==
    /\ at[c] \in {"tx", "complete"}
    /\ Goto(c, "clear")
    /\ UNCHANGED <<orderVars, payVars, flag, gateway, local, history, used>>

ConfirmComplete(c) ==
    /\ at[c] = "complete"
    /\ flag' = [flag EXCEPT ![ConfirmOf[c]] = "completed"]
    /\ Goto(c, "done")
    /\ UNCHANGED <<orderVars, payVars, gateway, local, history, used>>

\* The catch deletes the flag, also one that another call has set meanwhile.
ConfirmClear(c) ==
    /\ at[c] = "clear"
    /\ flag' = [flag EXCEPT ![ConfirmOf[c]] = "none"]
    /\ Goto(c, "failed")
    /\ UNCHANGED <<orderVars, payVars, gateway, local, history, used>>

\* 30 seconds for "processing", an hour for "completed".
FlagExpires(p) ==
    /\ flag[p] # "none"
    /\ flag' = [flag EXCEPT ![p] = "none"]
    /\ UNCHANGED <<orderVars, payVars, gateway, at, local, history, used>>

-----------------------------------------------------------------------------
(* Cancellation and status changes                                         *)

\* Cancellations that have read a debit of the order and are about to give it back.
RefundersOf(o) == {k \in CancelCall : Target[k] = o /\ at[k] = "tx" /\ seen[k].debited}

\* cancelOrder by the customer.  validateTransition is async and not awaited; for
\* every status modelled here the way to CANCELLED is allowed anyway.
CancelRead(k) ==
    /\ at[k] = "idle"
    /\ seen' = [seen EXCEPT ![k] = [debited |-> debited[Target[k]],
                                    payment |-> payment[Target[k]]]]
    /\ Goto(k, "tx")
    /\ UNCHANGED <<orderVars, payVars, flag, gateway, found, next, asked, event, history, used>>

\* Mutant of CancelTx: coinsUsedDebited is left as it is.
CancelTxKeepsDebit(k) ==
    /\ at[k] = "tx"
    /\ LET o == Target[k]
           refund == seen[k].debited /\ CoinsUsed[o] > 0 IN
       /\ SetStatus(o, "CANCELLED")
       /\ refunded' = [refunded EXCEPT ![o] = @ + IF refund THEN 1 ELSE 0]
       /\ payment' = [payment EXCEPT ![o] = IF seen[k].payment = "PENDING" THEN "FAILED" ELSE @]
       /\ overtaken' = overtaken \cup (IF refund THEN RefundersOf(o) \ {k} ELSE {})
    /\ Goto(k, "done")
    /\ UNCHANGED <<debited, linked, payOrder, vouched, flag, gateway, local, taken, restored,
                   charged, used>>

\* The transaction acts on what was read before it.  It would restore the stock
\* of an order with stockDeducted, which no caller ever sets.
CancelTx(k) ==
    /\ at[k] = "tx"
    /\ LET o == Target[k]
           refund == seen[k].debited /\ CoinsUsed[o] > 0 IN
       /\ SetStatus(o, "CANCELLED")
       /\ refunded' = [refunded EXCEPT ![o] = @ + IF refund THEN 1 ELSE 0]
       /\ debited' = [debited EXCEPT ![o] = @ /\ ~refund]
       /\ payment' = [payment EXCEPT ![o] = IF seen[k].payment = "PENDING" THEN "FAILED" ELSE @]
       /\ overtaken' = overtaken \cup (IF refund THEN RefundersOf(o) \ {k} ELSE {})
    /\ Goto(k, "done")
    /\ UNCHANGED <<linked, payOrder, vouched, flag, gateway, local, taken, restored,
                   charged, used>>

\* Vendor's cancellations of the order that have begun to change something.
VendorsAt(o) == {v \in VendorCall : Target[v] = o /\ at[v] \in {"restore", "restoring", "write"}}

\* The call has put some of the order's items back, or all of them.
GaveBack(v) == at[v] \in {"restoring", "write"}

\* Mutant of VendorRead: the status is not looked at.
VendorReadAny(v) ==
    /\ at[v] = "idle"
    /\ Goto(v, "restore")
    /\ LET o == Target[v] IN
       loose' = IF status[o] = "PENDING" \/ VendorsAt(o) # {} THEN loose \cup {o} ELSE loose
    /\ UNCHANGED <<status, debited, linked, exits, payVars, flag, gateway, local, history, used>>

\* The vendor's cancelOrder: a statement for the read, one for each item and one
\* for the status.  The stock of a PENDING order, which was never taken, is put
\* back too, and two of these calls put it back twice.
VendorRead(v) ==
    /\ at[v] = "idle"
    /\ LET o == Target[v] IN
       IF status[o] \in {"PENDING", "CONFIRMED", "PACKED"}
       THEN /\ Goto(v, "restore")
            /\ loose' = IF status[o] = "PENDING" \/ VendorsAt(o) # {}
                        THEN loose \cup {o} ELSE loose
       ELSE Goto(v, "failed") /\ UNCHANGED loose
    /\ UNCHANGED <<status, debited, linked, exits, payVars, flag, gateway, local, history, used>>

\* One item, the last of them or not.
VendorRestore(v) ==
    /\ at[v] \in {"restore", "restoring"}
    /\ restored' = [restored EXCEPT ![Target[v]] = @ + IF at[v] = "restore" THEN 1 ELSE 0]
    /\ \E l \in {"restoring", "write"} : Goto(v, l)
    /\ UNCHANGED <<orderVars, payVars, flag, gateway, local, taken, charged, refunded, overtaken,
                   used>>

VendorCancel(v) ==
    /\ at[v] = "write"
    /\ SetStatus(Target[v], "CANCELLED")
    /\ Goto(v, "done")
    /\ UNCHANGED <<debited, linked, payVars, flag, gateway, local, history, used>>

\* VENDOR_STATUS_TRANSITIONS, and verifyObdOtp.
Moves(s) ==
    CASE s = "PENDING" -> {"CONFIRMED"}
      [] s = "CONFIRMED" -> {"PACKED"}
      [] s = "PACKED" -> {"SHIPPED"}
      [] s \in {"SHIPPED", "OUT_FOR_INSPECTION"} -> {"DELIVERED"}
      [] OTHER -> {}

MoveRead(m) ==
    /\ at[m] = "idle"
    /\ used.moves < MaxMoves
    /\ used' = [used EXCEPT !.moves = @ + 1]
    /\ \E to \in Moves(status[Target[m]]) : next' = [next EXCEPT ![m] = to]
    /\ Goto(m, "write")
    /\ UNCHANGED <<orderVars, payVars, flag, gateway, found, seen, asked, event, history>>

MoveWrite(m) ==
    /\ at[m] = "write"
    /\ SetStatus(Target[m], next[m])
    /\ Goto(m, "idle")
    /\ UNCHANGED <<debited, linked, payVars, flag, gateway, local, history, used>>

\* updateOrderStatus by an administrator: an invalid transition is overridden.
AdminMove(o, to) ==
    /\ used.moves < MaxMoves
    /\ used' = [used EXCEPT !.moves = @ + 1]
    /\ SetStatus(o, to)
    /\ UNCHANGED <<debited, linked, payVars, flag, gateway, at, local, history>>

\* updatePaymentStatus by an administrator: the transaction reads the order and
\* its payment ...
AdminRead(a) ==
    /\ at[a] = "idle"
    /\ used.moves < MaxMoves
    /\ used' = [used EXCEPT !.moves = @ + 1]
    /\ \E to \in PaymentStatus \ {payment[Target[a]]} :
          asked' = [asked EXCEPT ![a] = [to |-> to, row |-> payment[Target[a]] # "none",
                                         pending |-> status[Target[a]] = "PENDING"]]
    /\ Goto(a, "write")
    /\ UNCHANGED <<orderVars, payVars, flag, gateway, found, seen, next, event, history>>

\* ... and writes by id.  A payment that was missing is created, which fails if
\* there is one by now.  An order that was PENDING is confirmed, without its
\* stock and its coins.
AdminWrite(a) ==
    /\ at[a] = "write"
    /\ Goto(a, "idle")
    /\ LET o == Target[a]
           to == asked[a].to IN
       IF ~asked[a].row /\ payment[o] # "none"
       THEN UNCHANGED <<status, loose, payment, vouched>>
       ELSE /\ payment' = [payment EXCEPT ![o] = to]
            /\ vouched' = IF to = "SUCCESS" THEN vouched \cup {o} ELSE vouched
            /\ status' = IF to = "SUCCESS" /\ asked[a].pending
                         THEN [status EXCEPT ![o] = "CONFIRMED"] ELSE status
            /\ loose' = IF status[o] \notin Final /\ status'[o] \in Final
                        THEN loose \cup {o} ELSE loose
    /\ UNCHANGED <<debited, linked, exits, payOrder, flag, gateway, local, history, used>>

-----------------------------------------------------------------------------
(* Payments                                                                *)

\* createOrder: a new Razorpay order for an order that is not yet paid.
PayRead(c) ==
    /\ at[c] = "idle"
    /\ Goto(c, IF payment[Target[c]] = "SUCCESS" THEN "failed" ELSE "upsert")
    /\ UNCHANGED <<orderVars, payVars, flag, gateway, local, history, used>>

\* Mutant of PayUpsert: the update keeps the payment's status.
PayUpsertKeepsStatus(c) ==
    /\ at[c] = "upsert"
    /\ payment' = [payment EXCEPT ![Target[c]] = IF @ = "none" THEN "PENDING" ELSE @]
    /\ payOrder' = [payOrder EXCEPT ![Target[c]] = c]
    /\ Goto(c, "link")
    /\ UNCHANGED <<orderVars, vouched, flag, gateway, local, history, used>>

\* Razorpay has answered.
PayUpsert(c) ==
    /\ at[c] = "upsert"
    /\ payment' = [payment EXCEPT ![Target[c]] = "PENDING"]
    /\ payOrder' = [payOrder EXCEPT ![Target[c]] = c]
    /\ Goto(c, "link")
    /\ UNCHANGED <<orderVars, vouched, flag, gateway, local, history, used>>

PayLink(c) ==
    /\ at[c] = "link"
    /\ linked' = [linked EXCEPT ![Target[c]] = c]
    /\ Goto(c, "done")
    /\ UNCHANGED <<status, debited, exits, loose, payVars, flag, gateway, local, history, used>>

\* Razorpay or the database refuses.
PayFails(c) ==
    /\ at[c] \in {"upsert", "link"}
    /\ Goto(c, "failed")
    /\ UNCHANGED <<orderVars, payVars, flag, gateway, local, history, used>>

\* A customer can pay a Razorpay order that a call has returned.
Payable(p) == p \in PayCall => at[p] = "done"

Capture(p) ==
    /\ Payable(p) /\ p \notin captured
    /\ captured' = captured \cup {p}
    /\ unacked' = unacked \cup {p}
    /\ UNCHANGED <<orderVars, payVars, flag, failures, at, local, history, used>>

AttemptFails(p) ==
    /\ Payable(p) /\ p \notin captured \cup failures
    /\ failures' = failures \cup {p}
    /\ UNCHANGED <<orderVars, payVars, flag, captured, unacked, at, local, history, used>>

Event == [kind : {"captured", "verify", "failed"}, prov : Provider]

\* What Razorpay may deliver, again and in any order, and the client may verify.
Deliverable(e) == e.prov \in IF e.kind = "failed" THEN failures ELSE captured

PaymentsOf(p) == {o \in Order : payOrder[o] = p}

\* Statuses that the early return of a handler leaves alone.
Settled(kind) == IF kind = "verify" THEN {"SUCCESS"} ELSE {"SUCCESS", "REFUNDED"}

\* Mutant of Kept: only a PENDING payment is updated.
KeptUnlessPending(kind) == {"SUCCESS", "FAILED", "REFUNDED"}

\* Statuses that its updateMany leaves alone.
Kept(kind) == IF kind = "failed" THEN {"SUCCESS", "REFUNDED"} ELSE {"SUCCESS"}

Acknowledge(e) == unacked' = IF e.kind = "captured" THEN unacked \ {e.prov} ELSE unacked

\* handleWebhook and verifyPayment read the payments of the Razorpay order ...
HandleRead(w, e) ==
    /\ event[w] = NoEvent
    /\ Deliverable(e)
    /\ IF \A o \in PaymentsOf(e.prov) : payment[o] \in Settled(e.kind)
       THEN Acknowledge(e) /\ UNCHANGED event
       ELSE event' = [event EXCEPT ![w] = e] /\ UNCHANGED unacked
    /\ UNCHANGED <<orderVars, payVars, flag, captured, failures, at, found, seen, next,
                   asked, history, used>>

\* ... and update them where the status still allows it.
HandleWrite(w) ==
    /\ event[w] # NoEvent
    /\ LET e == event[w] IN
       /\ payment' = [o \in Order |->
             IF payOrder[o] = e.prov /\ payment[o] \notin Kept(e.kind)
             THEN IF e.kind = "failed" THEN "FAILED" ELSE "SUCCESS"
             ELSE payment[o]]
       /\ Acknowledge(e)
    /\ event' = [event EXCEPT ![w] = NoEvent]
    /\ UNCHANGED <<orderVars, payOrder, vouched, flag, captured, failures, at, found, seen,
                   next, asked, history, used>>

\* A database error while the webhook reads is taken for "no such payment", and
\* the event is answered.
WebhookMisreads(e) ==
    /\ Deliverable(e) /\ e.kind # "verify"
    /\ used.errors < MaxErrors
    /\ used' = [used EXCEPT !.errors = @ + 1]
    /\ Acknowledge(e)
    /\ UNCHANGED <<orderVars, payVars, flag, captured, failures, at, local, history>>

-----------------------------------------------------------------------------
\* The process that runs the call dies between two of its steps; nothing is
\* cleaned up.  A vendor's cancellation may die between two items, or between the
\* stock and the status.
Crash(c) ==
    /\ at[c] \notin {"idle", "done", "failed"}
    /\ used.crashes < MaxCrashes
    /\ used' = [used EXCEPT !.crashes = @ + 1]
    /\ Goto(c, IF c \in MoveCall \cup AdminCall THEN "idle" ELSE "failed")
    /\ loose' = IF c \in VendorCall /\ GaveBack(c) THEN loose \cup {Target[c]} ELSE loose
    /\ UNCHANGED <<status, debited, linked, exits, payVars, flag, gateway, local, history>>

\* Razorpay, which got no answer, will deliver the event again.
CrashWorker(w) ==
    /\ event[w] # NoEvent
    /\ used.crashes < MaxCrashes
    /\ used' = [used EXCEPT !.crashes = @ + 1]
    /\ event' = [event EXCEPT ![w] = NoEvent]
    /\ UNCHANGED <<orderVars, payVars, flag, gateway, at, found, seen, next, asked, history>>

Confirm(c) == ConfirmCheck(c) \/ ConfirmSet(c) \/ ConfirmRead(c) \/ ConfirmTx(c)
                \/ ConfirmAbort(c) \/ ConfirmComplete(c) \/ ConfirmClear(c)
Cancel(k) == CancelRead(k) \/ CancelTx(k)
VendorStep(v) == VendorRead(v) \/ VendorRestore(v) \/ VendorCancel(v)
Move(m) == MoveRead(m) \/ MoveWrite(m)
AdminPay(a) == AdminRead(a) \/ AdminWrite(a)
Pay(c) == PayRead(c) \/ PayUpsert(c) \/ PayLink(c) \/ PayFails(c)
Handle(w) == (\E e \in Event : HandleRead(w, e)) \/ HandleWrite(w)
Razorpay(p) == Capture(p) \/ AttemptFails(p)

Next ==
    \/ \E c \in ConfirmCall : Confirm(c)
    \/ \E k \in CancelCall : Cancel(k)
    \/ \E v \in VendorCall : VendorStep(v)
    \/ \E m \in MoveCall : Move(m)
    \/ \E c \in PayCall : Pay(c)
    \/ \E w \in Worker : Handle(w) \/ CrashWorker(w)
    \/ \E a \in AdminCall : AdminPay(a)
    \/ \E o \in Order, to \in AdminTargets : AdminMove(o, to)
    \/ \E e \in Event : WebhookMisreads(e)
    \/ \E p \in Provider : Razorpay(p) \/ FlagExpires(p)
    \/ \E c \in Call : Crash(c)

Spec == Init /\ [][Next]_vars

\* The event loop runs a call that has started, and Razorpay repeats a captured
\* event until it is answered.  Nobody has to pay, to call, to cancel or to fail.
Redeliver(p) == \E w \in Worker : HandleRead(w, [kind |-> "captured", prov |-> p])
Fairness ==
    /\ \A w \in Worker : WF_vars(HandleWrite(w))
    /\ \A p \in Provider : SF_vars(p \in unacked /\ Redeliver(p))
FairSpec == Spec /\ Fairness

-----------------------------------------------------------------------------
(* What is checked                                                         *)

Where == {"idle", "set", "read", "tx", "complete", "clear", "restore",
          "restoring", "write",
          "upsert", "link", "done", "failed"}

TypeOK ==
    /\ status \in [Order -> Status] /\ debited \in [Order -> BOOLEAN]
    /\ linked \in [Order -> Provider]
    /\ payment \in [Order -> PaymentStatus \cup {"none"}]
    /\ payOrder \in [Order -> Provider \cup {NoProvider}]
    /\ flag \in [Provider -> {"none", "processing", "completed"}]
    /\ captured \subseteq Provider /\ failures \subseteq Provider /\ unacked \subseteq captured
    /\ at \in [Call -> Where]
    /\ found \in [ConfirmCall -> SUBSET Order]
    /\ seen \in [CancelCall -> [debited : BOOLEAN, payment : PaymentStatus \cup {"none"}]]
    /\ next \in [MoveCall -> Status]
    /\ asked \in [AdminCall -> [to : PaymentStatus \cup {"none"}, row : BOOLEAN, pending : BOOLEAN]]
    /\ event \in [Worker -> Event \cup {NoEvent}]
    /\ taken \in [Order -> Nat] /\ restored \in [Order -> Nat]
    /\ charged \in [Order -> Nat] /\ refunded \in [Order -> Nat] /\ exits \in [Order -> Nat]
    /\ vouched \subseteq Order /\ overtaken \subseteq CancelCall /\ loose \subseteq Order
    /\ used \in [moves : Nat, crashes : Nat, errors : Nat]

\* The stock of an order is deducted at most once for each time the order
\* becomes final: however often and however concurrently confirmOrder is called
\* for the same payment, with the Redis flag set, expired, or left by a crash.
DeductedOnce == \A o \in Order :
    taken[o] <= exits[o] + IF status[o] \in Final THEN 1 ELSE 0

\* The coins of an order are debited at most once for each time they were given
\* back: coinsUsedDebited survives retries, crashes and cancellations.
ChargedOnce == \A o \in Order :
    charged[o] <= refunded[o] + IF debited[o] THEN 1 ELSE 0

\* cancelOrder reads coinsUsedDebited before its transaction (orders.service.ts:450,
\* 485): the coins of an order are given back more often than they were debited
\* only by a cancellation that another one has overtaken.
CoinsBackTwiceOnlyByRace == \A o \in Order :
    refunded[o] + (IF debited[o] THEN 1 ELSE 0) > charged[o]
        => \E k \in overtaken : Target[k] = o

\* The vendor's cancelOrder puts stock back that was taken (vendor-orders.service
\* .ts:334), whichever confirmations, cancellations and moves run between its
\* read and its write.  Units are created only if the order was PENDING, became
\* final without a confirmation, or was cancelled by two calls of the vendor or
\* by one that died half-way.
RestoredWasTakenUnlessLoose == \A o \in Order \ loose : restored[o] <= taken[o]

\* A Payment says SUCCESS only if the Razorpay order it names was paid, or an
\* administrator said so: an event of an earlier Razorpay order never pays for
\* the one that a retry has put in its place.
PaidMeansCaptured == \A o \in Order :
    payment[o] = "SUCCESS" => payOrder[o] \in captured \/ o \in vouched

\* A worker that is about to record a payment has an event of one that was made.
EventsAreTrue == \A w \in Worker :
    event[w].kind \in {"captured", "verify"} => event[w].prov \in captured

\* A debit that a cancellation is about to give back is there, unless another
\* has given it back.
DebitsStand == \A k \in CancelCall \ overtaken :
    at[k] = "tx" /\ seen[k].debited => debited[Target[k]]

\* What a vendor is about to put back is taken, and so is the stock of a final
\* order, unless the vendor is putting it back.
FinalIsTaken == \A o \in Order \ loose :
    /\ \A v, x \in VendorsAt(o) : v = x
    /\ (\E v \in VendorsAt(o) : at[v] = "restore") => restored[o] < taken[o]
    /\ status[o] \in Final /\ (\A v \in VendorsAt(o) : ~GaveBack(v)) => restored[o] < taken[o]

\* The key that makes confirmOrder answer "already processed" is believed without
\* a look at the database (orders.service.ts:188-195): it says "completed" only when
\* every order of the payment was confirmed or, being loose, made final by a
\* vendor or an administrator, though other calls set, clear and outlive the
\* key, die between the transaction and the key, and a retry moves the order to
\* another Razorpay order.
WasFinal(o) == taken[o] > 0 \/ o \in loose
CompletedIsTrue == \A p \in Provider, o \in Order :
    flag[p] = "completed" /\ linked[o] = p => WasFinal(o)

\* A Razorpay order that a retry has not yet linked has no confirmations.
UnlinkedIsUnpaid ==
    /\ \A q \in captured : Payable(q)
    /\ \A c \in ConfirmCall : at[c] # "idle" => ConfirmOf[c] \in captured
    /\ \A p \in Provider : flag[p] # "none" => p \in captured

\* What is final was made so, and so were the orders a call is about to call so.
CompletingIsTrue ==
    /\ \A o \in Order : status[o] \in Final => WasFinal(o)
    /\ \A c \in ConfirmCall, o \in Order :
          /\ at[c] = "tx" /\ linked[o] = ConfirmOf[c] => o \in found[c]
          /\ at[c] = "complete" /\ linked[o] = ConfirmOf[c] => WasFinal(o)

\* The inductive invariants behind the theorems of OrderPaymentProofs.
IInv == TypeOK /\ DeductedOnce /\ ChargedOnce /\ PaidMeansCaptured /\ EventsAreTrue
RefundInv == CoinsBackTwiceOnlyByRace /\ DebitsStand
StockInv == RestoredWasTakenUnlessLoose /\ FinalIsTaken
FlagInv == CompletedIsTrue /\ UnlinkedIsUnpaid /\ CompletingIsTrue

\* A captured payment is recorded: the event is repeated until it is answered,
\* and when it is answered the payment has become SUCCESS, whatever failed
\* attempts were reported before or after and whichever handler crashed, unless
\* another Razorpay order has replaced the one that was paid.  This needs
\* MaxErrors = 0: an event answered by WebhookMisreads is lost.
CaptureRecorded == \A p \in Provider, o \in Order :
    p \in unacked /\ payOrder[o] = p
        ~> payment[o] \in {"SUCCESS", "REFUNDED"} \/ payOrder[o] # p

-----------------------------------------------------------------------------
(* What the code says of itself and does not keep.  No run checks these: a  *)
(* short behaviour violates each, which the README tells.                   *)

\* "Cancelled is final - no transitions allowed" (order-state-validator.service
\* .ts:73): a confirmation revives an order that it has read or finds cancelled.
CancelledIsFinal == [][\A o \in Order :
    status[o] = "CANCELLED" => status'[o] = "CANCELLED"]_vars

\* "Cancel order with reason and restore stock" (vendor-orders.service.ts:334):
\* a vendor restores the stock of a PENDING order, which was never deducted.
RestoredWasTaken == \A o \in Order : restored[o] <= taken[o]

\* "Restore coins if they were debited" (orders.service.ts:485): two
\* cancellations that have read the same debit both give it back.
RefundedWasCharged == \A o \in Order : refunded[o] <= charged[o]

\* "Order is already paid" (payments.service.ts:57): createOrder resets a
\* payment that has become SUCCESS since its read.
PaidStaysPaid == [][\A o \in Order :
    payment[o] = "SUCCESS" => payment'[o] \in {"SUCCESS", "REFUNDED"}]_vars
=============================================================================
