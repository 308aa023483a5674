--------------------------- MODULE VendorEarnings ---------------------------
(***************************************************************************)
(* Vendor.pendingEarnings and everything that moves it: the settlement     *)
(* cron, which credits a delivered order once its return window is over,   *)
(* the two payout requests a vendor can make, the administrator who pays   *)
(* out directly, and the administrator who works on payout records.        *)
(*                                                                         *)
(* The cron runs under RedisLock, which lets a second job in after an      *)
(* overrun (RedisLock!OneJob); here the jobs may overlap at any time.      *)
(***************************************************************************)
EXTENDS Integers, FiniteSets

CONSTANTS
    Vendor,
    Order,          \* orders, each with at most one settlement (orderId is unique)
    OrderVendor,    \* [Order -> Vendor]
    OrderAmount,    \* [Order -> Nat]: OrderSettlement.amount
    Job,            \* runs of the settlement cron that may overlap
    Request,        \* calls that create a payout
    Kind,           \* [Request -> Kinds]
    RequestVendor,  \* [Request -> Vendor]
    RequestAmount,  \* [Request -> Nat]
    Transfer,       \* [Request -> bank transfer]: transactionId of a direct payout
    Admin,          \* calls of AdminPayoutsService
    MaxFaults       \* bound: statements that fail and jobs that die

\* Direct: VendorPayoutsService.processPayout of vendor-payouts/.
\* Ask: requestPayout of vendor-payouts/, which leaves the earnings alone.
\* Withdraw: requestPayout of vendors/, which deducts at once.
Kinds == {"Direct", "Ask", "Withdraw"}
Deducting == {r \in Request : Kind[r] # "Ask"}

ASSUME OrderAssumption ==
    OrderVendor \in [Order -> Vendor] /\ OrderAmount \in [Order -> Nat]
ASSUME RequestAssumption ==
    /\ Kind \in [Request -> Kinds]
    /\ RequestVendor \in [Request -> Vendor]
    /\ RequestAmount \in [Request -> Nat]
    /\ \A q, r \in Request : Transfer[q] = Transfer[r] => RequestVendor[q] = RequestVendor[r]
ASSUME BoundAssumption == MaxFaults \in Nat /\ Order \cap Request = {}

VARIABLES
    delivered,  \* orders whose status is DELIVERED, for seven days
    settlement, \* status of each order's settlement
    earnings,   \* Vendor.pendingEarnings
    job,        \* where each cron job is
    todo,       \* what it has found ELIGIBLE
    call,       \* where each payout call is
    seen,       \* pendingEarnings as it has read them
    payout,     \* status of the payout a call has created
    admin,      \* what each administrator is about to write, and where
    renamed,    \* payouts whose transactionId an administrator has replaced
    raced,      \* history: vendors two of whose deducting calls overlapped
    crossed,    \* history: Asks between whose read and commit another call of the
                \* vendor has committed
    faults      \* counter for the bound

vars == <<delivered, settlement, earnings, job, todo, call, seen, payout, admin, renamed,
          raced, crossed, faults>>

orderVars == <<delivered, settlement>>
jobVars == <<job, todo>>
callVars == <<call, seen>>
history == <<raced, crossed>>

SettlementStatus == {"NONE", "PENDING", "ELIGIBLE", "SETTLED"}
PayoutStatus == {"NONE", "PENDING", "PROCESSING", "COMPLETED", "FAILED"}
Idle == [payout |-> "NONE"]

Init ==
    /\ delivered = {}
    /\ settlement = [o \in Order |-> "NONE"]
    /\ earnings = [v \in Vendor |-> 0]
    /\ job = [j \in Job |-> "idle"]
    /\ todo = [j \in Job |-> {}]
    /\ call = [r \in Request |-> "idle"]
    /\ seen = [r \in Request |-> 0]
    /\ payout = [r \in Request |-> "NONE"]
    /\ admin = [a \in Admin |-> Idle]
    /\ renamed = {}
    /\ raced = {} /\ crossed = {}
    /\ faults = 0

-----------------------------------------------------------------------------
\* The checkout, or an administrator's updatePaymentStatus, creates it.
CreateSettlement(o) ==
    /\ settlement[o] = "NONE"
    /\ settlement' = [settlement EXCEPT ![o] = "PENDING"]
    /\ UNCHANGED <<delivered, earnings, jobVars, callVars, payout, admin, renamed, history, faults>>

\* The order is DELIVERED, for seven days.  Only the UPDATE of the cron looks
\* at this: an order that leaves DELIVERED before it is one not yet delivered,
\* one that leaves it afterwards is settled all the same.
Deliver(o) ==
    /\ o \notin delivered
    /\ delivered' = delivered \cup {o}
    /\ UNCHANGED <<settlement, earnings, jobVars, callVars, payout, admin, renamed, history, faults>>

-----------------------------------------------------------------------------
(* SettlementService.processSettlements *)

\* One UPDATE marks what is old enough.
Mark(j) ==
    /\ job[j] = "idle"
    /\ settlement' = [o \in Order |->
            IF settlement[o] = "PENDING" /\ o \in delivered THEN "ELIGIBLE" ELSE settlement[o]]
    /\ job' = [job EXCEPT ![j] = "marked"]
    /\ UNCHANGED <<delivered, earnings, todo, callVars, payout, admin, renamed, history, faults>>

\* Mutant of List: only the settlements this run has marked, kept as PENDING.
ListPending(j) ==
    /\ job[j] = "marked"
    /\ todo' = [todo EXCEPT ![j] = {o \in Order : settlement[o] = "PENDING"}]
    /\ job' = [job EXCEPT ![j] = "listed"]
    /\ UNCHANGED <<orderVars, earnings, callVars, payout, admin, renamed, history, faults>>

List(j) ==
    /\ job[j] = "marked"
    /\ todo' = [todo EXCEPT ![j] = {o \in Order : settlement[o] = "ELIGIBLE"}]
    /\ job' = [job EXCEPT ![j] = "listed"]
    /\ UNCHANGED <<orderVars, earnings, callVars, payout, admin, renamed, history, faults>>

\* Mutant of Finalize: without the condition on the status in the UPDATE.
FinalizeById(j, o) ==
    /\ o \in todo[j]
    /\ settlement' = [settlement EXCEPT ![o] = "SETTLED"]
    /\ earnings' = [earnings EXCEPT ![OrderVendor[o]] = @ + OrderAmount[o]]
    /\ todo' = [todo EXCEPT ![j] = @ \ {o}]
    /\ UNCHANGED <<delivered, job, callVars, payout, admin, renamed, history, faults>>

\* finalizeSettlement: status, earnings and payout record in one transaction;
\* whoever finds the settlement SETTLED leaves it alone.
Finalize(j, o) ==
    /\ o \in todo[j]
    /\ IF settlement[o] = "ELIGIBLE"
       THEN /\ settlement' = [settlement EXCEPT ![o] = "SETTLED"]
            /\ earnings' = [earnings EXCEPT ![OrderVendor[o]] = @ + OrderAmount[o]]
       ELSE UNCHANGED <<settlement, earnings>>
    /\ todo' = [todo EXCEPT ![j] = @ \ {o}]
    /\ UNCHANGED <<delivered, job, callVars, payout, admin, renamed, history, faults>>

\* Its transaction fails; the error is logged and the next one is tried.
FinalizeFails(j, o) ==
    /\ o \in todo[j]
    /\ faults < MaxFaults
    /\ faults' = faults + 1
    /\ todo' = [todo EXCEPT ![j] = @ \ {o}]
    /\ UNCHANGED <<orderVars, earnings, job, callVars, payout, admin, renamed, history>>

EndJob(j) ==
    /\ job[j] = "listed" /\ todo[j] = {}
    /\ job' = [job EXCEPT ![j] = "idle"]
    /\ UNCHANGED <<orderVars, earnings, todo, callVars, payout, admin, renamed, history, faults>>

\* The process dies, or the first UPDATE or the query throws.
JobDies(j) ==
    /\ job[j] # "idle"
    /\ faults < MaxFaults
    /\ faults' = faults + 1
    /\ job' = [job EXCEPT ![j] = "idle"]
    /\ todo' = [todo EXCEPT ![j] = {}]
    /\ UNCHANGED <<orderVars, earnings, callVars, payout, admin, renamed, history>>

-----------------------------------------------------------------------------
(* Payout calls.  READ COMMITTED: each read sees what is committed then.   *)

\* What a call has read is forgotten when it ends.
Step(r, to, read) ==
    /\ call' = [call EXCEPT ![r] = to]
    /\ seen' = [seen EXCEPT ![r] = IF to = "done" THEN 0 ELSE read]
Affords(r) == earnings[RequestVendor[r]] >= RequestAmount[r]

SameTransfer(q, r) == Kind[q] = "Direct" /\ Kind[r] = "Direct" /\ Transfer[q] = Transfer[r]

\* Mutant of FindTransfer: only payouts that are still COMPLETED are found.
FindCompleted(r) ==
    /\ Kind[r] = "Direct" /\ call[r] = "idle"
    /\ Step(r, IF \E q \in Request : SameTransfer(q, r) /\ payout[q] = "COMPLETED"
               THEN "done" ELSE "reading", 0)
    /\ UNCHANGED <<orderVars, earnings, jobVars, payout, admin, renamed, history, faults>>

\* processPayout: a payout with this transactionId is returned as it is.
FindTransfer(r) ==
    /\ Kind[r] = "Direct" /\ call[r] = "idle"
    /\ Step(r, IF \E q \in Request \ renamed : SameTransfer(q, r) /\ payout[q] # "NONE"
               THEN "done" ELSE "reading", 0)
    /\ UNCHANGED <<orderVars, earnings, jobVars, payout, admin, renamed, history, faults>>

\* Mutant of CheckDirect: the balance is not looked at.
CheckDirectNothing(r) ==
    /\ Kind[r] = "Direct" /\ call[r] = "reading"
    /\ Step(r, "ready", 0)
    /\ UNCHANGED <<orderVars, earnings, jobVars, payout, admin, renamed, history, faults>>

CheckDirect(r) ==
    /\ Kind[r] = "Direct" /\ call[r] = "reading"
    /\ Step(r, IF Affords(r) THEN "ready" ELSE "done", 0)
    /\ UNCHANGED <<orderVars, earnings, jobVars, payout, admin, renamed, history, faults>>

\* requestPayout of vendor-payouts/: the earnings, then the PENDING requests.
ReadAsk(r) ==
    /\ Kind[r] = "Ask" /\ call[r] = "idle"
    /\ Step(r, "reading", earnings[RequestVendor[r]])
    /\ UNCHANGED <<orderVars, earnings, jobVars, payout, admin, renamed, history, faults>>

\* PENDING payouts of the vendor, of either requestPayout.
PendingOf(v) == {q \in Request : RequestVendor[q] = v /\ payout[q] = "PENDING"}
Rupees(S) == UNION {{q} \X (1..RequestAmount[q]) : q \in S}
AlreadyPending(v) == Cardinality(Rupees(PendingOf(v)))

\* Mutant of CheckAsk: what is requested already is not subtracted.
CheckAskAlone(r) ==
    /\ Kind[r] = "Ask" /\ call[r] = "reading"
    /\ Step(r, IF RequestAmount[r] > seen[r] THEN "done" ELSE "ready", seen[r])
    /\ UNCHANGED <<orderVars, earnings, jobVars, payout, admin, renamed, history, faults>>

CheckAsk(r) ==
    /\ Kind[r] = "Ask" /\ call[r] = "reading"
    /\ Step(r, IF RequestAmount[r] > seen[r] - AlreadyPending(RequestVendor[r])
               THEN "done" ELSE "ready", seen[r])
    /\ UNCHANGED <<orderVars, earnings, jobVars, payout, admin, renamed, history, faults>>

\* requestPayout of vendors/: read before the transaction.
ReadWithdraw(r) ==
    /\ Kind[r] = "Withdraw" /\ call[r] = "idle"
    /\ Step(r, IF Affords(r) THEN "ready" ELSE "done", earnings[RequestVendor[r]])
    /\ UNCHANGED <<orderVars, earnings, jobVars, payout, admin, renamed, history, faults>>

\* Bank details, KYC or minimum are not met, or the call dies.
Refuse(r) ==
    /\ call[r] \in {"reading", "ready"}
    /\ Step(r, "done", 0)
    /\ UNCHANGED <<orderVars, earnings, jobVars, payout, admin, renamed, history, faults>>

\* What the call takes off: min(amount, what it has read) in vendors/.
Deduction(r) ==
    IF Kind[r] = "Withdraw" /\ seen[r] < RequestAmount[r] THEN seen[r] ELSE RequestAmount[r]

\* Calls of the vendor that have started to read.
Underway(v) == {q \in Request : RequestVendor[q] = v /\ call[q] \in {"reading", "ready"}}

\* The transaction commits: the payout record and, except for an Ask, the
\* unconditional decrement.
Commit(r) ==
    /\ call[r] = "ready"
    /\ Step(r, "done", 0)
    /\ payout' = [payout EXCEPT ![r] = IF Kind[r] = "Direct" THEN "COMPLETED" ELSE "PENDING"]
    /\ LET others == Underway(RequestVendor[r]) \ {r} IN
       /\ crossed' = crossed \cup (others \ Deducting)
       /\ IF r \in Deducting
          THEN /\ earnings' = [earnings EXCEPT ![RequestVendor[r]] = @ - Deduction(r)]
               /\ raced' = IF others \cap Deducting = {}
                           THEN raced ELSE raced \cup {RequestVendor[r]}
          ELSE UNCHANGED <<earnings, raced>>
    /\ UNCHANGED <<orderVars, jobVars, admin, renamed, faults>>

-----------------------------------------------------------------------------
(* AdminPayoutsService: each operation reads the payout and then writes it *)
(* by id; none of them touches the earnings.                               *)

Operation == [process |-> PayoutStatus \ {"NONE", "COMPLETED"},   \* from which status
              mark    |-> {"PENDING"},
              fail    |-> PayoutStatus \ {"NONE"}]
Becomes == [process |-> "COMPLETED", mark |-> "PROCESSING", fail |-> "FAILED"]

AdminRead(a, r) ==
    /\ admin[a] = Idle
    /\ \E op \in DOMAIN Operation :
        /\ payout[r] \in Operation[op]
        /\ admin' = [admin EXCEPT ![a] = [payout |-> Becomes[op], of |-> r]]
    /\ UNCHANGED <<orderVars, earnings, jobVars, callVars, payout, renamed, history, faults>>

\* processPayout writes its transactionId, which may be another than the one
\* a Direct payout was created with.
AdminWrite(a) ==
    /\ admin[a] # Idle
    /\ payout' = [payout EXCEPT ![admin[a].of] = admin[a].payout]
    /\ admin' = [admin EXCEPT ![a] = Idle]
    /\ \/ UNCHANGED renamed
       \/ /\ admin[a].payout = "COMPLETED" /\ Kind[admin[a].of] = "Direct"
          /\ renamed' = renamed \cup {admin[a].of}
    /\ UNCHANGED <<orderVars, earnings, jobVars, callVars, history, faults>>

-----------------------------------------------------------------------------
Next ==
    \/ \E o \in Order : CreateSettlement(o) \/ Deliver(o)
    \/ \E j \in Job : Mark(j) \/ List(j) \/ EndJob(j) \/ JobDies(j)
    \/ \E j \in Job, o \in Order : Finalize(j, o) \/ FinalizeFails(j, o)
    \/ \E r \in Request : FindTransfer(r) \/ CheckDirect(r) \/ ReadAsk(r) \/ CheckAsk(r)
                            \/ ReadWithdraw(r) \/ Refuse(r) \/ Commit(r)
    \/ \E a \in Admin : AdminWrite(a) \/ \E r \in Request : AdminRead(a, r)

Spec == Init /\ [][Next]_vars

\* The cron fires every six hours and its statements are answered.
FairSpec == Spec /\ \A j \in Job :
    /\ WF_vars(Mark(j)) /\ WF_vars(List(j)) /\ WF_vars(EndJob(j))
    /\ \A o \in Order : WF_vars(Finalize(j, o))

-----------------------------------------------------------------------------
TypeOK ==
    /\ delivered \subseteq Order
    /\ settlement \in [Order -> SettlementStatus]
    /\ earnings \in [Vendor -> Int]
    /\ job \in [Job -> {"idle", "marked", "listed"}]
    /\ todo \in [Job -> SUBSET Order]
    /\ call \in [Request -> {"idle", "reading", "ready", "done"}]
    /\ seen \in [Request -> Int]
    /\ payout \in [Request -> PayoutStatus]
    /\ admin \in [Admin -> {Idle} \cup [payout : PayoutStatus \ {"NONE", "PENDING"}, of : Request]]
    /\ renamed \subseteq Request
    /\ raced \subseteq Vendor /\ crossed \subseteq Request
    /\ faults \in Nat

\* processPayout and requestPayout compare the earnings as read and decrement
\* them without a condition (vendor-payouts.service.ts:160, vendors/
\* vendor-payouts.service.ts:166).  The balance of a vendor goes below zero
\* only if two calls that deduct have overlapped.
OverdrawnOnlyByRace == \A v \in Vendor : earnings[v] < 0 => v \in raced

\* The check on transactionId (vendor-payouts.service.ts:143) reads before it
\* creates: a bank transfer is booked twice only by calls that overlap, never
\* by a retry, whatever became of the first payout meanwhile, unless an
\* administrator has given one of the payouts another transactionId.
TransferBookedOnce == \A q, r \in Request :
    /\ q # r /\ SameTransfer(q, r)
    /\ payout[q] # "NONE" /\ payout[r] # "NONE"
    => RequestVendor[r] \in raced \/ {q, r} \cap renamed # {}

\* requestPayout subtracts what is requested already (vendor-payouts.service.ts:
\* 288), in a transaction that "prevents" two concurrent requests (253), which
\* READ COMMITTED does not.  The vendor's PENDING requests exceed the earnings
\* when another is recorded only if a call of the vendor has committed between
\* its read and its record.
RequestsFitUnlessCrossed == [][\A r \in Request \ crossed :
    Kind[r] = "Ask" /\ payout[r] # payout'[r] /\ payout'[r] = "PENDING"
        => AlreadyPending(RequestVendor[r])' <= earnings'[RequestVendor[r]]]_vars

\* A call that is about to deduct has been found covered, and still is.
ReadyCovered == \A r \in Deducting :
    call[r] = "ready" /\ RequestVendor[r] \notin raced => Affords(r)

\* A transfer that is about to be booked has not been booked.
UnbookedYet == \A q, r \in Request :
    /\ q # r /\ SameTransfer(q, r)
    /\ call[r] \in {"reading", "ready"} /\ payout[q] # "NONE"
    => RequestVendor[r] \in raced \/ q \in renamed

\* A payout exists if and only if its call has committed.
PayoutsOfCalls ==
    /\ \A r \in Request : payout[r] # "NONE" => call[r] = "done"
    /\ \A r \in Request : Kind[r] = "Withdraw" /\ call[r] = "ready" => seen[r] >= RequestAmount[r]
    /\ \A a \in Admin : admin[a] # Idle => payout[admin[a].of] # "NONE"

\* What an Ask has read is there, and what it is about to request fits, unless
\* another call has committed since.
AsksCovered == \A r \in Request \ crossed : Kind[r] = "Ask" =>
    /\ call[r] = "reading" => seen[r] <= earnings[RequestVendor[r]]
    /\ call[r] = "ready" =>
        AlreadyPending(RequestVendor[r]) + RequestAmount[r] <= earnings[RequestVendor[r]]
RupeesFinite == \A v \in Vendor : IsFiniteSet(Rupees(PendingOf(v)))

\* The inductive invariants behind the theorems of VendorEarningsProofs.
IInv == TypeOK /\ OverdrawnOnlyByRace /\ TransferBookedOnce /\ ReadyCovered
          /\ UnbookedYet /\ PayoutsOfCalls
AskInv == RupeesFinite /\ AsksCovered

\* Jobs that overlap, fail or die between two settlements credit each order
\* once, and no other write is lost or repeated: pendingEarnings is an account
\* whose bookings are the settled orders and the payouts that deduct.
Bookings == Order \cup Deducting
Booked == {o \in Order : settlement[o] = "SETTLED"} \cup {r \in Deducting : payout[r] # "NONE"}
BookingValue == [b \in Bookings |-> IF b \in Order THEN OrderAmount[b] ELSE -RequestAmount[b]]
BookingOwner == [b \in Bookings |-> IF b \in Order THEN OrderVendor[b] ELSE RequestVendor[b]]

A == INSTANCE Account WITH Owner <- Vendor, Booking <- Bookings, OwnerOf <- BookingOwner,
        Value <- BookingValue, booked <- Booked, balance <- earnings
EarningsAreBooked == A!Spec

\* A delivered order is settled in the end: jobs that die, fail or overlap
\* leave it to the next run.
SettledInTheEnd == \A o \in Order :
    settlement[o] # "NONE" /\ o \in delivered ~> settlement[o] = "SETTLED"
=============================================================================
