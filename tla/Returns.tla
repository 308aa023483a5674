------------------------------- MODULE Returns -------------------------------
(***************************************************************************)
(* Return requests: what administrators and the vendor do to them in calls *)
(* that read the request, write its status by id, and then restock,        *)
(* replace or refund in statements of their own.                           *)
(*                                                                         *)
(* A request returns one unit of each of its products.  Whoever writes a   *)
(* status compares it with what it read, never with what it overwrites.    *)
(***************************************************************************)
EXTENDS Integers, FiniteSets

CONSTANTS
    Return,
    Product,
    Variant,    \* those sold as a variant, which has a row besides the Product's;
                \* each is the only variant of its product
    Stock,      \* [Product -> Nat]: units there are at first
    Items,      \* [Return -> SUBSET Product]: ReturnItem
    Call,       \* requests of administrators and of vendors
    Kind,       \* [Call -> {"Update", "Accept", "Reject", "Refund"}]
    Target,     \* [Call -> Return]
    Asked,      \* [Call -> Status]: what an Update is to write
    MaxFaults   \* bound: calls that die

\* ReturnStatus, and "NONE" for no row yet; the others, REPLACEMENT_SHIPPED and
\* those of the pickup and of QC among them, trigger nothing: "OTHER".
Status == {"NONE", "PENDING_APPROVAL", "APPROVED", "REJECTED", "PICKUP_SCHEDULED", "QC_PASSED",
           "REFUND_INITIATED", "REFUND_COMPLETED", "OTHER"}
Refundable == {"APPROVED", "QC_PASSED", "REFUND_INITIATED"}
Kinds == {"Update", "Accept", "Reject", "Refund"}

ASSUME ItemsAssumption ==
    /\ Variant \subseteq Product
    /\ Stock \in [Product -> Nat] /\ Items \in [Return -> SUBSET Product]
ASSUME CallAssumption ==
    /\ Kind \in [Call -> Kinds] /\ Target \in [Call -> Return]
    /\ Asked \in [Call -> Status \ {"NONE"}]

VARIABLES
    status,     \* ReturnRequest.status
    replaced,   \* the requests with a ReplacementOrder
    refunds,    \* PROCESSED Refunds of each request
    stock,      \* ProductVariant.stock of a variant, Product.stock of the others
    total,      \* Product.stock of each variant
    call,       \* where each call is
    seen,       \* the status an Update has read
    left,       \* the products it has still to restock
    owed,       \* the variant it has restocked but for the Product's row
    back,       \* history: units of each product restocked for each request
    approved,   \* history: requests that have been APPROVED
    passed,     \* history: requests that have been QC_PASSED
    reopened,   \* history: requests that have been QC_PASSED, then something else
    stale,      \* history: calls overtaken by another with the same effect
    crossed     \* history: variants the rows of which were moved apart

vars == <<status, replaced, refunds, stock, call, seen, left, back,
          approved, passed, reopened, stale, total, owed, crossed>>
history == <<back, approved, passed, reopened, stale>>
totals == <<total, owed, crossed>>

Init ==
    /\ status = [r \in Return |-> "NONE"]
    /\ replaced = {}
    /\ refunds = [r \in Return |-> 0]
    /\ stock = Stock
    /\ call = [c \in Call |-> "idle"]
    /\ seen = [c \in Call |-> "NONE"]
    /\ left = [c \in Call |-> {}]
    /\ back = [r \in Return |-> [p \in Product |-> 0]]
    /\ approved = {} /\ passed = {} /\ reopened = {} /\ stale = {}
    /\ total = [p \in Variant |-> Stock[p]]
    /\ owed = [c \in Call |-> {}]
    /\ crossed = {}

-----------------------------------------------------------------------------
\* "failed": the status is written, and no replacement was made.
Underway == {"writing", "restocking", "replacing", "checking", "refunding", "closing"}
Final == {"done", "refused", "failed", "died"}

Goto(c, to) == call' = [call EXCEPT ![c] = to]

\* Calls for the same thing of the same request, where c is.
Rivals(c) == {d \in Call \ {c} :
    /\ Target[d] = Target[c] /\ Kind[d] = Kind[c] /\ call[d] = call[c]
    /\ Kind[c] = "Update" => Asked[d] = Asked[c]}

\* The UPDATE by id, and what its like notices of it.
SetStatus(r, s) ==
    /\ status' = [status EXCEPT ![r] = s]
    /\ approved' = IF s = "APPROVED" THEN approved \cup {r} ELSE approved
    /\ passed' = IF s = "QC_PASSED" THEN passed \cup {r} ELSE passed
    /\ reopened' = IF status[r] = "QC_PASSED" /\ s # "QC_PASSED"
                   THEN reopened \cup {r} ELSE reopened

\* A customer asks for it: the order was delivered, and the window open, when
\* they were looked at.
Request(r) ==
    /\ status[r] = "NONE"
    /\ SetStatus(r, "PENDING_APPROVAL")
    /\ UNCHANGED <<replaced, refunds, stock, call, seen, left, back, stale, totals>>

\* After the read, and for which statuses.
First(c) == IF Kind[c] = "Refund" THEN "checking" ELSE "writing"
Admits(c, s) ==
    CASE Kind[c] \in {"Accept", "Reject"} -> s = "PENDING_APPROVAL"
      [] Kind[c] = "Refund" -> s \in Refundable
      [] OTHER -> s # "NONE"

Read(c) ==
    LET s == status[Target[c]] IN
    /\ call[c] = "idle"
    /\ Goto(c, IF Admits(c, s) THEN First(c) ELSE "refused")
    /\ seen' = IF Kind[c] = "Update" THEN [seen EXCEPT ![c] = s] ELSE seen
    /\ UNCHANGED <<status, replaced, refunds, stock, left, history, totals>>

-----------------------------------------------------------------------------
(* updateStatus and shipReplacement                                        *)

\* Mutant of Write: the status read is not looked at.
WriteAlways(c) ==
    LET r == Target[c] IN
    /\ Kind[c] = "Update" /\ call[c] = "writing"
    /\ SetStatus(r, Asked[c])
    /\ Goto(c, CASE Asked[c] = "QC_PASSED" -> "restocking"
                 [] Asked[c] = "APPROVED" -> "replacing"
                 [] OTHER -> "done")
    /\ left' = [left EXCEPT ![c] = IF Asked[c] = "QC_PASSED" THEN Items[r] ELSE {}]
    /\ stale' = stale \cup Rivals(c)
    /\ seen' = [seen EXCEPT ![c] = "NONE"]
    /\ UNCHANGED <<replaced, refunds, stock, back, totals>>

\* The status, whatever it is by now; what follows depends on what was read.
Write(c) ==
    LET r == Target[c] IN
    /\ Kind[c] = "Update" /\ call[c] = "writing"
    /\ SetStatus(r, Asked[c])
    /\ Goto(c, CASE Asked[c] = "QC_PASSED" /\ seen[c] # "QC_PASSED" -> "restocking"
                 [] Asked[c] = "APPROVED" /\ seen[c] # "APPROVED" -> "replacing"
                 [] OTHER -> "done")
    /\ left' = [left EXCEPT ![c] =
            IF Asked[c] = "QC_PASSED" /\ seen[c] # "QC_PASSED" THEN Items[r] ELSE {}]
    /\ stale' = stale \cup Rivals(c)
    /\ seen' = [seen EXCEPT ![c] = "NONE"]
    /\ UNCHANGED <<replaced, refunds, stock, back, totals>>

\* Mutant of Restock: one item is enough.
RestockOne(c, p) ==
    /\ call[c] = "restocking" /\ owed[c] = {} /\ p \in left[c]
    /\ stock' = [stock EXCEPT ![p] = @ + 1]
    /\ back' = [back EXCEPT ![Target[c]][p] = @ + 1]
    /\ left' = [left EXCEPT ![c] = {}]
    /\ owed' = [owed EXCEPT ![c] = {p} \cap Variant]
    /\ UNCHANGED <<status, replaced, refunds, call, seen, approved, passed, reopened, stale,
                   total, crossed>>

\* restoreStock, item by item, in no transaction: a variant's own row first.
Restock(c, p) ==
    /\ call[c] = "restocking" /\ owed[c] = {} /\ p \in left[c]
    /\ stock' = [stock EXCEPT ![p] = @ + 1]
    /\ back' = [back EXCEPT ![Target[c]][p] = @ + 1]
    /\ left' = [left EXCEPT ![c] = @ \ {p}]
    /\ owed' = [owed EXCEPT ![c] = {p} \cap Variant]
    /\ UNCHANGED <<status, replaced, refunds, call, seen, approved, passed, reopened, stale,
                   total, crossed>>

\* The second UPDATE of restoreStock, of the product of a variant.
RestockProduct(c, p) ==
    /\ call[c] = "restocking" /\ p \in owed[c]
    /\ total' = [total EXCEPT ![p] = @ + 1]
    /\ owed' = [owed EXCEPT ![c] = @ \ {p}]
    /\ UNCHANGED <<status, replaced, refunds, stock, call, seen, left, history, crossed>>

Restocked(c) ==
    /\ call[c] = "restocking" /\ left[c] = {} /\ owed[c] = {}
    /\ Goto(c, "done")
    /\ UNCHANGED <<status, replaced, refunds, stock, seen, left, history, totals>>

\* The calls that have restocked a variant but for the Product's row.
Owing(p) == {c \in Call : p \in owed[c]}

\* Mutant of Replace: deductStock does not get the transaction.
ReplaceOutside(c) ==
    LET r == Target[c]
        there == {p \in Items[r] : stock[p] >= 1} IN
    /\ call[c] = "replacing"
    /\ IF r \in replaced THEN Goto(c, "failed") /\ UNCHANGED <<replaced, stock>>
       ELSE /\ Goto(c, IF there = Items[r] THEN "done" ELSE "failed")
            /\ replaced' = IF there = Items[r] THEN replaced \cup {r} ELSE replaced
            /\ stock' = [p \in Product |-> IF p \in there THEN stock[p] - 1 ELSE stock[p]]
    /\ UNCHANGED <<status, refunds, seen, left, history, totals>>

\* Mutant of Recount: Product.stock is decremented, as that of the others is.
Decremented(r) ==
    /\ total' = [p \in Variant |-> IF p \in Items[r] THEN total[p] - 1 ELSE total[p]]
    /\ crossed' = (crossed \ Items[r]) \cup {p \in Items[r] \cap Variant : Owing(p) # {}}

\* deductStock writes what the variants add up to, which is off by what some
\* call is about to add once more.
Recount(r) ==
    /\ total' = [p \in Variant |-> IF p \in Items[r] THEN stock[p] - 1 ELSE total[p]]
    /\ crossed' = (crossed \ Items[r]) \cup {p \in Items[r] \cap Variant : Owing(p) # {}}

\* createReplacementOrder: an order, a row with the request as its key, and the
\* units, or nothing of them.
Replace(c) ==
    LET r == Target[c] IN
    /\ call[c] = "replacing"
    /\ IF r \notin replaced /\ \A p \in Items[r] : stock[p] >= 1
       THEN /\ replaced' = replaced \cup {r}
            /\ stock' = [p \in Product |-> IF p \in Items[r] THEN stock[p] - 1 ELSE stock[p]]
            /\ Recount(r)
            /\ Goto(c, "done")
       ELSE Goto(c, "failed") /\ UNCHANGED <<replaced, stock, total, crossed>>
    /\ UNCHANGED <<status, refunds, seen, left, owed, history>>

-----------------------------------------------------------------------------
(* The vendor's acceptReturn, rejectReturn and processRefund               *)

\* An accepted request is APPROVED, or already has its pickup.
Answer(c) ==
    /\ Kind[c] \in {"Accept", "Reject"} /\ call[c] = "writing"
    /\ \E s \in (IF Kind[c] = "Reject" THEN {"REJECTED"} ELSE {"APPROVED", "PICKUP_SCHEDULED"}) :
        SetStatus(Target[c], s)
    /\ Goto(c, "done")
    /\ UNCHANGED <<replaced, refunds, stock, seen, left, back, stale, totals>>

\* Mutant of FindRefund: a refund there is goes unnoticed.
FindNothing(c) ==
    /\ call[c] = "checking"
    /\ Goto(c, "refunding")
    /\ UNCHANGED <<status, replaced, refunds, stock, seen, left, history, totals>>

FindRefund(c) ==
    /\ call[c] = "checking"
    /\ Goto(c, IF refunds[Target[c]] = 0 THEN "refunding" ELSE "refused")
    /\ UNCHANGED <<status, replaced, refunds, stock, seen, left, history, totals>>

Refund(c) ==
    /\ call[c] = "refunding"
    /\ refunds' = [refunds EXCEPT ![Target[c]] = @ + 1]
    /\ stale' = stale \cup Rivals(c)
    /\ Goto(c, "closing")
    /\ UNCHANGED <<status, replaced, stock, seen, left,
                   back, approved, passed, reopened, totals>>

Close(c) ==
    /\ call[c] = "closing"
    /\ SetStatus(Target[c], "REFUND_COMPLETED")
    /\ Goto(c, "done")
    /\ UNCHANGED <<replaced, refunds, stock, seen, left, back, stale, totals>>

-----------------------------------------------------------------------------
\* A statement throws or the process dies: what is written stays.
Die(c) ==
    /\ call[c] \in Underway
    /\ Cardinality({d \in Call : call[d] = "died"}) < MaxFaults
    /\ Goto(c, "died")
    /\ seen' = [seen EXCEPT ![c] = "NONE"]
    /\ left' = [left EXCEPT ![c] = {}]
    /\ owed' = [owed EXCEPT ![c] = {}]
    /\ crossed' = crossed \cup owed[c]
    /\ UNCHANGED <<status, replaced, refunds, stock, total, history>>

-----------------------------------------------------------------------------
Goes(c) ==
    \/ Write(c) \/ Restocked(c) \/ Replace(c)
    \/ (\E p \in Product : Restock(c, p) \/ RestockProduct(c, p))
    \/ Answer(c) \/ FindRefund(c) \/ Refund(c) \/ Close(c)

Next ==
    \/ \E r \in Return : Request(r)
    \/ \E c \in Call : Read(c) \/ Goes(c) \/ Die(c)

Spec == Init /\ [][Next]_vars

-----------------------------------------------------------------------------
TypeOK ==
    /\ status \in [Return -> Status]
    /\ replaced \subseteq Return
    /\ refunds \in [Return -> Nat]
    /\ stock \in [Product -> Nat]
    /\ call \in [Call -> {"idle"} \cup Underway \cup Final]
    /\ seen \in [Call -> Status]
    /\ left \in [Call -> SUBSET Product]
    /\ back \in [Return -> [Product -> Nat]]
    /\ approved \subseteq Return /\ passed \subseteq Return /\ reopened \subseteq Return
    /\ stale \subseteq Call
    /\ total \in [Variant -> Nat]
    /\ owed \in [Call -> SUBSET Variant]
    /\ crossed \subseteq Variant

Overtaken(r, k) == \E c \in stale : Target[c] = r /\ Kind[c] = k
DiedOn(r) == \E c \in Call : Target[c] = r /\ call[c] = "died"

\* The vendor's acceptance makes no replacement, a failed one is not retried.
Unserved(r) == \E c \in Call : Target[c] = r /\
                    (call[c] = "failed" \/ (Kind[c] = "Accept" /\ call[c] = "done"))

\* The units of a product that have been restocked: <<r, n>> is the n-th for r.
UnitsBack(p) == UNION {{r} \X (1..back[r][p]) : r \in Return}

\* The units of a replacement are taken in the transaction that inserts its
\* unique row (returns.service.ts:241-276): stock is what there was, what has
\* been restocked, less one replacement of each request that has one.
UnitsTakenOnce == \A p \in Product :
    stock[p] + Cardinality({r \in replaced : p \in Items[r]})
        = Stock[p] + Cardinality(UnitsBack(p))

\* restoreStock adds to Product.stock what deductStock counts anew from the
\* variants (inventory.service.ts:124-135, 159-167): the product has as many as
\* its variant once nobody is between the two updates, unless a call died
\* there, or a replacement was counted there; the next one puts it right.
TotalsAgree == \A p \in Variant \ crossed : Owing(p) # {} \/ total[p] = stock[p]

\* processRefund looks for a refund, then creates one (vendor-returns.service.ts
\* 350 and 368): there are two only if two calls were between the two.
RefundedTwiceOnlyByRace == \A r \in Return : refunds[r] > 1 => Overtaken(r, "Refund")

\* updateStatus restocks on the way into QC_PASSED, as read (returns.service.ts
\* 179): twice only if two calls read before either wrote, or if the request
\* was moved out of QC_PASSED in between.
RestockedTwiceOnlyByRace == \A r \in Return : \A p \in Product :
    back[r][p] > 1 => r \in reopened \/ Overtaken(r, "Update")

\* "updateStatus to APPROVED will create replacement if not already created"
\* (admin-returns.controller.ts:69): unless the vendor was the one to approve
\* it, or a call failed or died, what has been APPROVED is replaced or about to
\* be; and so are the units of what has been QC_PASSED restocked.
ServedOrUnderway == \A r \in Return :
    /\ r \in approved =>
        \/ r \in replaced \/ Unserved(r) \/ DiedOn(r)
        \/ \E c \in Call : Target[c] = r /\ call[c] = "replacing"
    /\ r \in passed => \A p \in Items[r] :
        \/ back[r][p] > 0 \/ DiedOn(r)
        \/ \E c \in Call : Target[c] = r /\ call[c] = "restocking" /\ p \in left[c]

\* What a request is, and what a call has read of it, it has been.
ReadsThePast ==
    /\ \A r \in Return : /\ status[r] = "APPROVED" => r \in approved
                         /\ status[r] = "QC_PASSED" => r \in passed
    /\ \A c \in Call : /\ seen[c] = "APPROVED" => Target[c] \in approved
                       /\ seen[c] = "QC_PASSED" => Target[c] \in passed

\* What a call is doing tells what it is.
StepsApart == \A c \in Call :
    /\ call[c] \in {"checking", "refunding", "closing"} => Kind[c] = "Refund"
    /\ call[c] \in {"restocking", "replacing"} => Kind[c] = "Update"
    /\ call[c] = "restocking" => Asked[c] = "QC_PASSED"

\* What has been QC_PASSED is, until it is reopened.
PassedStays == reopened \subseteq passed /\ \A r \in passed \ reopened : status[r] = "QC_PASSED"

\* A call that nobody has overtaken makes the first refund.
RefundsAlone == \A c \in Call \ stale : call[c] = "refunding" => refunds[Target[c]] = 0

\* An Update that nobody has overtaken, of a request that was not reopened, is
\* the first to restock it, and the only one.
RestocksAlone ==
    /\ \A r \in Return : \A p \in Product : back[r][p] > 0 => r \in passed
    /\ \A c \in Call \ stale :
        Kind[c] = "Update" /\ call[c] = "writing" /\ Asked[c] = "QC_PASSED" /\ seen[c] # "QC_PASSED"
            => Target[c] \notin passed \/ Target[c] \in reopened
    /\ \A c \in Call : call[c] = "restocking" =>
        LET r == Target[c] IN
        /\ r \in passed
        /\ \/ r \in reopened \/ Overtaken(r, "Update")
           \/ Rivals(c) = {} /\ \A p \in left[c] : back[r][p] = 0

\* The inductive invariant behind the theorems of ReturnsProofs.
IInv == TypeOK /\ RefundedTwiceOnlyByRace /\ RestockedTwiceOnlyByRace /\ ServedOrUnderway
          /\ ReadsThePast /\ StepsApart /\ PassedStays /\ RefundsAlone /\ RestocksAlone
=============================================================================
