-------------------------- MODULE VendorMembership --------------------------
(***************************************************************************)
(* Memberships of vendors paid in coins: subscribing and upgrading, which  *)
(* pay, write the membership and write the vendor in three statements; the *)
(* midnight job that renews what ends within a day; administrators who     *)
(* extend or cancel, and who set the vendor's tier; and everything else a  *)
(* vendor spends coins on.                                                 *)
(*                                                                         *)
(* The job runs under RedisLock, which lets a second one in after an       *)
(* overrun (RedisLock!OneJob); here jobs may overlap at any time.          *)
(***************************************************************************)
EXTENDS Integers, FiniteSets

CONSTANTS
    Vendor,
    Tier,       \* MembershipTier by rank, FREE being 0
    Price,      \* [Tier -> Nat]: coins for a month
    Prorated,   \* [Tier -> [Ends -> Int]]: coins for the rest of the month
    Coins,      \* [Vendor -> Nat]: coins a vendor starts with
    Call,       \* requests of vendors
    Kind,       \* [Call -> {"Subscribe", "Upgrade", "Spend"}]
    CallVendor, \* [Call -> Vendor]
    CallTier,   \* [Call -> Tier]: the tier asked for; of a Spend, its price's
    Job,        \* runs of processAutoRenewals that may overlap
    NoMember,   \* no VendorMembership row
    MaxFaults   \* bound: calls that die

\* endDate is more than a day away, within a day, or over; one that is null
\* counts as over.  Nothing ends a membership, so that its daysRemaining may
\* well be negative.
Ends == {"ahead", "soon", "past"}

ASSUME TierAssumption ==
    /\ Tier \subseteq Nat /\ 0 \in Tier /\ Price \in [Tier -> Nat]
    /\ Prorated \in [Tier -> [Ends -> Int]]
ASSUME CallAssumption ==
    /\ Coins \in [Vendor -> Nat] /\ CallVendor \in [Call -> Vendor]
    /\ CallTier \in [Call -> Tier]
Membership == [tier : Tier, ends : Ends, active : BOOLEAN, auto : BOOLEAN]
ASSUME NoMemberAssumption == NoMember \notin Membership

VARIABLES
    coins,      \* Vendor.coinsBalance
    member,     \* the vendor's VendorMembership
    level,      \* Vendor.tier, with the limits that go with it
    call,       \* where each call is
    quote,      \* the coins it is about to pay
    todo,       \* what each job has found to renew
    assigned,   \* history: vendors whose tier was not written with the
                \* membership: by an administrator, since the last upgrade
    stale,      \* history: calls during which another one wrote the membership
    relisted,   \* history: vendors listed twice, or extended while listed
    overspent,  \* history: vendors whose coins fell while they were listed
    free,       \* history: vendors renewed for nothing
    again       \* history: vendors charged for a month they had paid

vars == <<coins, member, level, assigned, call, quote, todo, stale,
          relisted, overspent, free, again>>
jobHistory == <<relisted, overspent, free, again>>

\* The membership that register and the administrators' createVendor make with
\* the vendor, without an end; the onboarding makes none.  createVendor sets the
\* vendor's tier apart, to BASIC as a rule where the membership is FREE.
Registered(t) == [tier |-> t, ends |-> "past", active |-> TRUE, auto |-> FALSE]

Init ==
    /\ coins = Coins
    /\ \E reg \in SUBSET Vendor, first \in [Vendor -> Tier] :
          member = [v \in Vendor |-> IF v \in reg THEN Registered(first[v]) ELSE NoMember]
    /\ level \in [Vendor -> Tier]
    /\ assigned = {v \in Vendor : member[v] # NoMember /\ level[v] # member[v].tier}
    /\ call = [c \in Call |-> "idle"]
    /\ quote = [c \in Call |-> 0]
    /\ todo = [j \in Job |-> {}]
    /\ stale = {} /\ relisted = {} /\ overspent = {} /\ free = {} /\ again = {}

-----------------------------------------------------------------------------
\* "lost": the coins are gone, and there is no membership for them.
Final == {"done", "refused", "lost", "died"}

Goto(c, to, n) ==
    /\ call' = [call EXCEPT ![c] = to]
    /\ quote' = [quote EXCEPT ![c] = n]
Listed(v) == \E j \in Job : \E e \in todo[j] : e.vendor = v

\* UPDATE ... SET coinsBalance = coinsBalance - n WHERE coinsBalance >= n
Deduct(v, n) ==
    /\ coins[v] >= n
    /\ coins' = [coins EXCEPT ![v] = @ - n]
    /\ overspent' = IF Listed(v) THEN overspent \cup {v} ELSE overspent

-----------------------------------------------------------------------------
(* subscribe and upgrade, with paymentMethod COINS                         *)

\* What the call has to pay: the month, or the rest of it.
Cost(c) ==
    IF Kind[c] = "Subscribe" THEN Price[CallTier[c]]
    ELSE Prorated[CallTier[c]][member[CallVendor[c]].ends]

\* Mutant of Eligible: the new tier is only another one.
EligibleOther(c) ==
    LET m == member[CallVendor[c]] IN
    \/ Kind[c] = "Subscribe" /\ m = NoMember
    \/ Kind[c] = "Upgrade" /\ m # NoMember /\ m.tier # CallTier[c]

\* One membership at most; only upwards.
Eligible(c) ==
    LET m == member[CallVendor[c]] IN
    \/ Kind[c] = "Subscribe" /\ m = NoMember
    \/ Kind[c] = "Upgrade" /\ m # NoMember /\ m.tier < CallTier[c]

\* Mutant of Read: neither the membership nor its tier is looked at.
ReadUnchecked(c) ==
    /\ Kind[c] \in {"Subscribe", "Upgrade"} /\ call[c] = "idle"
    /\ IF (Kind[c] = "Upgrade" => member[CallVendor[c]] # NoMember)
            /\ coins[CallVendor[c]] >= Cost(c)
       THEN Goto(c, "paying", Cost(c))
       ELSE Goto(c, "refused", 0)
    /\ UNCHANGED <<coins, member, level, assigned, todo, stale, jobHistory>>

Read(c) ==
    /\ Kind[c] \in {"Subscribe", "Upgrade"} /\ call[c] = "idle"
    /\ IF Eligible(c) /\ coins[CallVendor[c]] >= Cost(c)
       THEN Goto(c, "paying", Cost(c))
       ELSE Goto(c, "refused", 0)
    /\ UNCHANGED <<coins, member, level, assigned, todo, stale, jobHistory>>

\* upgrade skips the payment when the request names no method.
ReadUnpaid(c) ==
    /\ Kind[c] = "Upgrade" /\ call[c] = "idle"
    /\ Eligible(c)
    /\ Goto(c, "writing", 0)
    /\ UNCHANGED <<coins, member, level, assigned, todo, stale, jobHistory>>

\* Mutant of Pay: the UPDATE has lost its condition.
PayAnyway(c) ==
    /\ call[c] = "paying"
    /\ coins' = [coins EXCEPT ![CallVendor[c]] = @ - quote[c]]
    /\ overspent' = IF Listed(CallVendor[c]) THEN overspent \cup {CallVendor[c]} ELSE overspent
    /\ Goto(c, "writing", 0)
    /\ UNCHANGED <<member, level, assigned, todo, stale, relisted, free, again>>

Pay(c) ==
    /\ call[c] = "paying"
    /\ Deduct(CallVendor[c], quote[c])
    /\ Goto(c, "writing", 0)
    /\ UNCHANGED <<member, level, assigned, todo, stale, relisted, free, again>>

\* "Insufficient coins (concurrent update detected)"
PayRefused(c) ==
    /\ call[c] = "paying" /\ coins[CallVendor[c]] < quote[c]
    /\ Goto(c, "refused", 0)
    /\ UNCHANGED <<coins, member, level, assigned, todo, stale, jobHistory>>

\* Other calls of the vendor between their read and their last write.
Others(c) == {d \in Call \ {c} : CallVendor[d] = CallVendor[c]
                                   /\ call[d] \in {"paying", "writing", "levelling"}}

\* Of a call that writes the membership: those it overlaps, and itself if any.
Overlap(c) == IF Others(c) = {} THEN {} ELSE Others(c) \cup {c}

\* vendorId is unique: a second create fails, and its coins are gone.
Create(c) ==
    /\ Kind[c] = "Subscribe" /\ call[c] = "writing"
    /\ IF member[CallVendor[c]] = NoMember
       THEN /\ \E auto \in BOOLEAN : member' = [member EXCEPT ![CallVendor[c]] =
                    [tier |-> CallTier[c], ends |-> "ahead", active |-> TRUE, auto |-> auto]]
            /\ Goto(c, "levelling", 0)
            /\ stale' = stale \cup Overlap(c)
       ELSE Goto(c, "lost", 0) /\ UNCHANGED <<member, stale>>
    /\ UNCHANGED <<coins, level, assigned, todo, jobHistory>>

\* By id, whatever the tier is by now.
Raise(c) ==
    /\ Kind[c] = "Upgrade" /\ call[c] = "writing"
    /\ member' = [member EXCEPT ![CallVendor[c]].tier = CallTier[c]]
    /\ Goto(c, "levelling", 0)
    /\ stale' = stale \cup Overlap(c)
    /\ UNCHANGED <<coins, level, assigned, todo, jobHistory>>

\* Mutant of Level: the vendor keeps the tier it had.
LevelForgotten(c) ==
    /\ call[c] = "levelling"
    /\ Goto(c, "done", 0)
    /\ UNCHANGED <<coins, member, level, assigned, todo, stale, jobHistory>>

\* Vendor.tier, skuLimit and commissionRate.
Level(c) ==
    /\ call[c] = "levelling"
    /\ level' = [level EXCEPT ![CallVendor[c]] = CallTier[c]]
    /\ assigned' = assigned \ {CallVendor[c]}
    /\ Goto(c, "done", 0)
    /\ UNCHANGED <<coins, member, todo, stale, jobHistory>>

\* A statement throws or the process dies: what is written stays.
Die(c) ==
    /\ call[c] \in {"paying", "writing", "levelling"}
    /\ Cardinality({d \in Call : call[d] = "died"}) < MaxFaults
    /\ Goto(c, "died", 0)
    /\ UNCHANGED <<coins, member, level, assigned, todo, stale, jobHistory>>

\* Banner slots, room promotions and boosts: transactions that roll back if the
\* conditional UPDATE finds too few coins.
Spend(c) ==
    /\ Kind[c] = "Spend" /\ call[c] = "idle"
    /\ Deduct(CallVendor[c], Price[CallTier[c]])
    /\ Goto(c, "done", 0)
    /\ UNCHANGED <<member, level, assigned, todo, stale, relisted, free, again>>

-----------------------------------------------------------------------------
(* The membership otherwise                                                *)

Passes(v) ==
    /\ member[v] # NoMember /\ member[v].ends # "past"
    /\ member' = [member EXCEPT ![v].ends = IF @ = "ahead" THEN "soon" ELSE "past"]
    /\ UNCHANGED <<coins, level, assigned, call, quote, todo, stale, jobHistory>>

\* cancelAutoRenewal
StopRenewal(v) ==
    /\ member[v] # NoMember /\ member[v].auto
    /\ member' = [member EXCEPT ![v].auto = FALSE]
    /\ UNCHANGED <<coins, level, assigned, call, quote, todo, stale, jobHistory>>

\* extendSubscription: some months from the end it had, which may be long ago.
Extend(v) ==
    /\ member[v] # NoMember
    /\ \E e \in (IF member[v].ends = "past" THEN Ends ELSE {"ahead"}) :
        member' = [member EXCEPT ![v].ends = e, ![v].active = TRUE]
    /\ relisted' = IF Listed(v) THEN relisted \cup {v} ELSE relisted
    /\ UNCHANGED <<coins, level, assigned, call, quote, todo, stale, overspent, free, again>>

\* cancelSubscription
Cancel(v) ==
    /\ member[v] # NoMember /\ member[v].active
    /\ member' = [member EXCEPT ![v].active = FALSE, ![v].auto = FALSE]
    /\ UNCHANGED <<coins, level, assigned, call, quote, todo, stale, jobHistory>>

\* updateVendor and PATCH admin/vendors/:id: the vendor's tier, whatever the
\* membership's is.
Assign(v) ==
    /\ \E t \in Tier : level' = [level EXCEPT ![v] = t]
    /\ assigned' = assigned \cup {v}
    /\ UNCHANGED <<coins, member, call, quote, todo, stale, jobHistory>>

-----------------------------------------------------------------------------
(* processAutoRenewals                                                     *)

Renewable(v) == member[v] # NoMember /\ member[v].active /\ member[v].auto
                  /\ member[v].ends = "soon"

\* Mutant of List: memberships that end later are listed too.
ListEarly(j) ==
    LET due == {v \in Vendor : member[v] # NoMember /\ member[v].active /\ member[v].auto} IN
    /\ todo[j] = {} /\ due # {}
    /\ todo' = [todo EXCEPT ![j] = {[vendor |-> v, tier |-> member[v].tier,
                    covered |-> coins[v] >= Price[member[v].tier]] : v \in due}]
    /\ relisted' = relisted \cup {v \in due : Listed(v)}
    /\ UNCHANGED <<coins, member, level, assigned, call, quote, stale, overspent, free, again>>

\* Mutant of List: without the comparison with the coins.
ListCovered(j) ==
    LET due == {v \in Vendor : Renewable(v)} IN
    /\ todo[j] = {} /\ due # {}
    /\ todo' = [todo EXCEPT ![j] = {[vendor |-> v, tier |-> member[v].tier,
                    covered |-> TRUE] : v \in due}]
    /\ relisted' = relisted \cup {v \in due : Listed(v)}
    /\ UNCHANGED <<coins, member, level, assigned, call, quote, stale, overspent, free, again>>

\* The memberships, each with its vendor's coins as they are now.
List(j) ==
    LET due == {v \in Vendor : Renewable(v)} IN
    /\ todo[j] = {} /\ due # {}
    /\ todo' = [todo EXCEPT ![j] = {[vendor |-> v, tier |-> member[v].tier,
                    covered |-> coins[v] >= Price[member[v].tier]] : v \in due}]
    /\ relisted' = relisted \cup {v \in due : Listed(v)}
    /\ UNCHANGED <<coins, member, level, assigned, call, quote, stale, overspent, free, again>>

\* The transaction for a vendor that had the coins at the listing.
RenewPaid(j, e) ==
    /\ e \in todo[j] /\ e.covered
    /\ coins[e.vendor] >= Price[e.tier]
    /\ coins' = [coins EXCEPT ![e.vendor] = @ - Price[e.tier]]
    /\ overspent' = IF \E i \in Job \ {j} : \E d \in todo[i] : d.vendor = e.vendor
                    THEN overspent \cup {e.vendor} ELSE overspent
    /\ again' = IF member[e.vendor].ends = "ahead" THEN again \cup {e.vendor} ELSE again
    /\ member' = [member EXCEPT ![e.vendor].ends = "ahead"]
    /\ todo' = [todo EXCEPT ![j] = @ \ {e}]
    /\ UNCHANGED <<level, assigned, call, quote, stale, relisted, free>>

\* Nobody looks at the count of the conditional UPDATE: the month is added all
\* the same.
RenewUnpaid(j, e) ==
    /\ e \in todo[j] /\ e.covered
    /\ coins[e.vendor] < Price[e.tier]
    /\ free' = free \cup {e.vendor}
    /\ member' = [member EXCEPT ![e.vendor].ends = "ahead"]
    /\ todo' = [todo EXCEPT ![j] = @ \ {e}]
    /\ UNCHANGED <<coins, level, assigned, call, quote, stale, relisted, overspent, again>>

\* A payment intent for who had too few coins; a transaction that fails.
Skip(j, e) ==
    /\ e \in todo[j]
    /\ todo' = [todo EXCEPT ![j] = @ \ {e}]
    /\ UNCHANGED <<coins, member, level, assigned, call, quote, stale, jobHistory>>

-----------------------------------------------------------------------------
Next ==
    \/ \E c \in Call : Read(c) \/ ReadUnpaid(c) \/ Pay(c) \/ PayRefused(c) \/ Create(c) \/ Raise(c)
                         \/ Level(c) \/ Die(c) \/ Spend(c)
    \/ \E v \in Vendor : Passes(v) \/ StopRenewal(v) \/ Extend(v) \/ Cancel(v) \/ Assign(v)
    \/ \E j \in Job : List(j) \/ \E e \in todo[j] : RenewPaid(j, e) \/ RenewUnpaid(j, e)
                                                      \/ Skip(j, e)

Spec == Init /\ [][Next]_vars

-----------------------------------------------------------------------------
Entry == [vendor : Vendor, tier : Tier, covered : BOOLEAN]

TypeOK ==
    /\ coins \in [Vendor -> Int]
    /\ member \in [Vendor -> Membership \cup {NoMember}]
    /\ level \in [Vendor -> Tier] /\ assigned \subseteq Vendor
    /\ call \in [Call -> {"idle", "paying", "writing", "levelling"} \cup Final]
    /\ quote \in [Call -> Int]
    /\ todo \in [Job -> SUBSET Entry]
    /\ stale \subseteq Call
    /\ relisted \subseteq Vendor /\ overspent \subseteq Vendor
    /\ free \subseteq Vendor /\ again \subseteq Vendor

\* Every deduction of a vendor's coins is one UPDATE with a condition
\* (vendor-memberships.service.ts:135 and 252, banners.service.ts:270): the
\* coins are never overdrawn, although each is decided on an earlier read.
CoinsNeverNegative == \A v \in Vendor : coins[v] >= 0

\* subscribe looks for a membership, takes the coins and creates one in three
\* statements (vendor-memberships.service.ts:109, 135, 181).  Coins are gone
\* for nothing only if the call died or overlapped another one of the vendor.
LostOnlyByRace == \A c \in Call : call[c] = "lost" => c \in stale

\* Unless it was overtaken, a call finds the membership as it has read it and,
\* when it comes to the vendor, as it has written it.
AsLeft(c) ==
    LET m == member[CallVendor[c]] IN
    /\ Kind[c] = "Subscribe" /\ call[c] \in {"paying", "writing"} => m = NoMember
    /\ Kind[c] = "Upgrade" /\ call[c] \in {"paying", "writing"} => m.tier < CallTier[c]
    /\ call[c] = "levelling" => m.tier = CallTier[c]
WritesAsRead == \A c \in Call :
    /\ c \notin stale => AsLeft(c)
    /\ \/ Kind[c] = "Upgrade" /\ call[c] \in {"paying", "writing"}
       \/ call[c] = "levelling"
       => member[CallVendor[c]] # NoMember

\* The tier is written to the membership and to the vendor (lines 181 and 201,
\* 291 and 305): they agree once the calls are through, unless two of the
\* vendor's overlapped or one died between the two, or an administrator has
\* created the vendor with two tiers or set the one since the last upgrade
\* (admin.service.ts:1670 and 1741, admin-vendors.controller.ts:204).
TiersAgree == \A v \in Vendor \ assigned :
    \/ member[v] = NoMember \/ level[v] = member[v].tier
    \/ \E c \in Call : CallVendor[c] = v /\ (call[c] \in {"levelling", "died"} \/ c \in stale)

\* The count of the conditional UPDATE of a renewal is ignored (line 492): a
\* month is free only for a vendor whose coins were spent since the listing.
FreeOnlyIfSpent == free \subseteq overspent

\* Renewals are not idempotent: a month already there is paid again only if the
\* vendor was listed by two jobs at once, or extended after the listing.
ChargedAgainOnlyByRace == again \subseteq relisted

\* What a job has listed for a vendor that is paid up was listed too soon.
ListedIsDue == \A j \in Job : \A e \in todo[j] :
    /\ member[e.vendor] # NoMember
    /\ member[e.vendor].ends = "ahead" => e.vendor \in relisted
    /\ e.covered /\ coins[e.vendor] < Price[e.tier] => e.vendor \in overspent
    /\ \A i \in Job : \A d \in todo[i] :
        d.vendor = e.vendor => IF i = j THEN d = e ELSE e.vendor \in relisted

\* The inductive invariant behind the theorems of VendorMembershipProofs.
IInv == TypeOK /\ CoinsNeverNegative /\ LostOnlyByRace /\ TiersAgree /\ WritesAsRead
          /\ FreeOnlyIfSpent /\ ChargedAgainOnlyByRace /\ ListedIsDue

\* "Can only upgrade to a higher tier" (line 236) holds of the tier as read: it
\* falls only by an upgrade that another one has overtaken.
TierFallsOnlyByRace == [][\A v \in Vendor :
    member[v] # NoMember => \/ member'[v].tier >= member[v].tier
                            \/ \E c \in stale : CallVendor[c] = v /\ call[c] = "writing"]_vars
=============================================================================
