------------------------------- MODULE Rooms -------------------------------
(***************************************************************************)
(* Group-buying rooms: customers join, leave and buy, orders are linked to *)
(* a room and unlock it, two cron jobs and administrators expire it.       *)
(* Goal rooms unlock when enough is ordered; discount rooms lock when they *)
(* are full or a member buys.                                              *)
(*                                                                         *)
(* RoomsService runs its operations in transactions at READ COMMITTED: the *)
(* reads at their start see what is committed then, and the conditional    *)
(* UPDATE and the unique key of RoomMember decide at the end.  An order's  *)
(* status is kept as rooms see it: open (or cancelled, which a             *)
(* confirmation does not tell from it), counted towards the goal, or safe  *)
(* (counted, and spared by an expiry).                                     *)
(***************************************************************************)
EXTENDS Integers, FiniteSets

CONSTANTS
    Room,
    Discount,       \* the rooms of type LINEAR_DISCOUNT; the others are GOAL_BASED
    Size,           \* [Room -> Int]: size, which is maxMembers in discount rooms
                    \* and of which no DTO is validated
    User,
    Host,           \* [Room -> User \cup {NoUser}]: none for an administrator's room
    NoUser,
    Call,           \* calls of join, leave and purchase
    By,             \* [Call -> User]: one user may call from two devices
    Order,
    Customer,       \* [Order -> User]
    Enough(_, _),   \* whether a set of orders meets unlockMinOrders and unlockMinValue
    Cancels,        \* rooms whose offer has the rule CANCEL_ORDERS
    Link,           \* calls of linkOrder
    LinkRoom,       \* [Link -> Room]
    LinkOf,         \* [Link -> Order]
    Expiry,         \* calls of expireRoom, by its cron or an administrator
    NoRoom,
    MaxFaults       \* bound: checks that fail

ASSUME RoomAssumption ==
    /\ Discount \subseteq Room /\ Cancels \subseteq Room
    /\ Size \in [Room -> Int]
    /\ Host \in [Room -> User \cup {NoUser}] /\ NoUser \notin User
    /\ NoRoom \notin Room
    /\ IsFiniteSet(User)
ASSUME CallAssumption ==
    /\ By \in [Call -> User]
    /\ Customer \in [Order -> User]
    /\ LinkRoom \in [Link -> Room] /\ LinkOf \in [Link -> Order]
    /\ Link \cap Order = {}
    /\ MaxFaults \in Nat
\* More orders are more in number and in value.
ASSUME EnoughAssumption == \A r \in Room : \A S, T \in SUBSET Order :
    /\ Enough(r, S) \in BOOLEAN
    /\ S \subseteq T /\ Enough(r, S) => Enough(r, T)

VARIABLES
    status,     \* Room.status
    count,      \* Room.memberCount
    members,    \* the RoomMember rows of each room
    doing,      \* what each member's call is about to write, and in which room
    state,      \* Order.status, as rooms see it
    roomOf,     \* Order.roomId
    pc,         \* where each linkOrder and each order's confirmation is
    room,       \* the room it checks
    expiry,     \* what each expireRoom has read
    ended,      \* rooms past their endAt
    met,        \* history: rooms whose goal the committed orders have met
    forced,     \* history: rooms of which an administrator has set the status
    missed,     \* history: rooms whose goal was met from the start, that got a
                \* counted order other than by a confirmation, or lost a check
    faults      \* counter for the bound

roomVars == <<status, count, members>>
orderVars == <<state, roomOf>>
checkVars == <<pc, room, missed, faults>>
vars == <<status, count, members, doing, state, roomOf, pc, room, expiry, ended,
          met, forced, missed, faults>>

RoomStatus == {"OPEN", "LOCKED", "UNLOCKED", "EXPIRED"}
Idle == [do |-> "nothing", room |-> NoRoom]
Caller == Link \cup Order

\* The orders that checkUnlockStatus aggregates.
State == {"open", "counted", "safe"}
Counted(r) == {o \in Order : roomOf[o] = r /\ state[o] # "open"}
GoalMet(r) == Enough(r, Counted(r))

\* An order may name a room from its creation, whose member its customer need
\* not be.
Init ==
    /\ status = [r \in Room |-> IF r \in Discount THEN "OPEN" ELSE "LOCKED"]
    /\ members = [r \in Room |-> {Host[r]} \ {NoUser}]
    /\ count = [r \in Room |-> 1]
    /\ doing = [c \in Call |-> Idle]
    /\ state = [o \in Order |-> "open"]
    /\ roomOf \in [Order -> Room \cup {NoRoom}]
    /\ pc = [c \in Caller |-> "idle"]
    /\ room = [c \in Caller |-> NoRoom]
    /\ expiry = [e \in Expiry |-> [room |-> NoRoom, read |-> "EXPIRED"]]
    /\ ended = {}
    /\ met = {r \in Room : GoalMet(r)} /\ forced = {} /\ missed = met
    /\ faults = 0

-----------------------------------------------------------------------------
(* Members                                                                 *)

Joinable(r) == IF r \in Discount THEN "OPEN" ELSE "LOCKED"

\* A call has made its checks and will write to r.
Decides(c, what, r) ==
    /\ doing[c] = Idle
    /\ doing' = [doing EXCEPT ![c] = [do |-> what, room |-> r]]
    /\ UNCHANGED <<roomVars, orderVars, checkVars, expiry, ended, forced>>

JoinRead(c, r) == status[r] = Joinable(r) /\ By[c] \notin members[r] /\ Decides(c, "join", r)

LeaveRead(c, r) ==
    /\ r \in Discount /\ status[r] # "LOCKED" /\ By[c] \in members[r]
    /\ Decides(c, "leave", r)

PurchaseRead(c, r) ==
    /\ r \in Discount /\ status[r] \in {"OPEN", "LOCKED"} /\ By[c] \in members[r]
    /\ Decides(c, "purchase", r)

Writes(c, what, r) ==
    /\ doing[c] = [do |-> what, room |-> r]
    /\ doing' = [doing EXCEPT ![c] = Idle]
    /\ UNCHANGED <<orderVars, checkVars, expiry, ended, forced>>

Enters(u, r) ==
    /\ members' = [members EXCEPT ![r] = @ \cup {u}]
    /\ count' = [count EXCEPT ![r] = @ + 1]
    /\ status' = [status EXCEPT ![r] =
            IF r \in Discount /\ count[r] + 1 >= Size[r] THEN "LOCKED" ELSE @]

\* Mutant of JoinCommit: the capacity is the one that was read with the room.
JoinCommitUnchecked(c, r) ==
    /\ Writes(c, "join", r)
    /\ IF By[c] \notin members[r] THEN Enters(By[c], r) ELSE UNCHANGED roomVars

\* Mutant of JoinCommit: a full discount room stays open.
JoinCommitKeepsOpen(c, r) ==
    /\ Writes(c, "join", r)
    /\ IF status[r] = Joinable(r) /\ count[r] < Size[r] /\ By[c] \notin members[r]
       THEN /\ members' = [members EXCEPT ![r] = @ \cup {By[c]}]
            /\ count' = [count EXCEPT ![r] = @ + 1]
            /\ UNCHANGED status
       ELSE UNCHANGED roomVars

\* join and joinDiscountRoom: the UPDATE conditional on capacity and status, the
\* member, and LOCKED when a discount room is full; or nothing of it.
JoinCommit(c, r) ==
    /\ Writes(c, "join", r)
    /\ IF status[r] = Joinable(r) /\ count[r] < Size[r] /\ By[c] \notin members[r]
       THEN Enters(By[c], r)
       ELSE UNCHANGED roomVars

\* leaveDiscountRoom: deleteMany decides, the status is not looked at again.
LeaveCommit(c, r) ==
    /\ Writes(c, "leave", r)
    /\ IF By[c] \in members[r]
       THEN /\ members' = [members EXCEPT ![r] = @ \ {By[c]}]
            /\ count' = [count EXCEPT ![r] = @ - 1]
       ELSE UNCHANGED <<members, count>>
    /\ UNCHANGED status

\* initiatePurchase locks the room whatever it has become.
PurchaseCommit(c, r) ==
    /\ Writes(c, "purchase", r)
    /\ status' = [status EXCEPT ![r] = "LOCKED"]
    /\ UNCHANGED <<members, count>>

-----------------------------------------------------------------------------
(* Orders and the unlocking                                                *)

Goes(c, from, to) == pc[c] = from /\ pc' = [pc EXCEPT ![c] = to]

\* Whether a linkOrder that has not committed holds the row of the order.
RowLocked(o) ==
    \E l \in Link : LinkOf[l] = o /\ pc[l] \in {"check", "counting", "deciding", "checked"}

LinkRead(l) ==
    /\ Goes(l, "idle", "read")
    /\ Customer[LinkOf[l]] \in members[LinkRoom[l]]
    /\ roomOf[LinkOf[l]] = NoRoom
    /\ room' = [room EXCEPT ![l] = LinkRoom[l]]
    /\ UNCHANGED <<roomVars, doing, orderVars, expiry, ended, forced, missed, faults>>

\* order.update waits for the row; roomMember.update throws once the member left.
LinkWrite(l) ==
    /\ ~RowLocked(LinkOf[l])
    /\ Goes(l, "read", IF Customer[LinkOf[l]] \in members[LinkRoom[l]] THEN "check" ELSE "done")
    /\ UNCHANGED <<roomVars, doing, orderVars, room, expiry, ended, forced, missed, faults>>

\* Its own check has not seen the link: when the order already counts, or its
\* confirmation has already read that it has no room, nobody checks the room.
LinkCommit(l) ==
    LET o == LinkOf[l] IN
    /\ Goes(l, "checked", "done")
    /\ roomOf' = [roomOf EXCEPT ![o] = LinkRoom[l]]
    /\ missed' = IF state[o] # "open" \/ pc[o] # "idle"
                 THEN missed \cup {LinkRoom[l]} ELSE missed
    /\ UNCHANGED <<roomVars, doing, state, room, expiry, ended, forced, faults>>

\* confirmOrder reads the orders of one payment, and goes on if any of them is
\* not final yet, ...
ConfirmRead(o) ==
    /\ Goes(o, "idle", "read")
    /\ room' = [room EXCEPT ![o] = roomOf[o]]
    /\ UNCHANGED <<roomVars, doing, orderVars, expiry, ended, forced, missed, faults>>

\* Mutant of Confirm: the room is checked before the confirmation is committed.
ConfirmAfterCheck(o) ==
    /\ ~RowLocked(o)
    /\ \/ /\ Goes(o, "read", "check") /\ room[o] # NoRoom /\ UNCHANGED state
       \/ /\ Goes(o, "checked", "idle")
          /\ state' = [state EXCEPT ![o] = IF @ = "open" THEN "counted" ELSE @]
    /\ UNCHANGED <<roomVars, doing, roomOf, room, expiry, ended, forced, missed, faults>>

\* ... confirms them in a transaction, cancelled ones too, and then checks the
\* rooms it has read, also of an order that was final already.
Confirm(o) ==
    /\ ~RowLocked(o)
    /\ Goes(o, "read", IF room[o] # NoRoom THEN "check" ELSE "idle")
    /\ state' = [state EXCEPT ![o] = IF @ = "open" THEN "counted" ELSE @]
    /\ UNCHANGED <<roomVars, doing, roomOf, room, expiry, ended, forced, missed, faults>>

\* The transaction fails, for another order of the payment or for its stock.
ConfirmFails(o) ==
    /\ Goes(o, "read", "idle")
    /\ UNCHANGED <<roomVars, doing, orderVars, room, expiry, ended, forced, missed, faults>>

ConfirmDone(o) ==
    /\ Goes(o, "checked", "idle")
    /\ UNCHANGED <<roomVars, doing, orderVars, room, expiry, ended, forced, missed, faults>>

\* checkUnlockStatus, in a transaction of its own: the room, ...
CheckRoom(c) ==
    /\ Goes(c, "check",
            IF status[room[c]] \in {"UNLOCKED", "EXPIRED"} THEN "checked" ELSE "counting")
    /\ UNCHANGED <<roomVars, doing, orderVars, room, expiry, ended, forced, missed, faults>>

\* Mutant of CheckOrders: the orders that are not paid yet count too.
CheckOrdersUnpaid(c) ==
    /\ Goes(c, "counting",
            IF Enough(room[c], {o \in Order : roomOf[o] = room[c]})
            THEN "deciding" ELSE "checked")
    /\ UNCHANGED <<roomVars, doing, orderVars, room, expiry, ended, forced, missed, faults>>

\* Mutant of CheckOrders: CONFIRMED and PACKED are not in the list.
CheckOrdersSafe(c) ==
    /\ Goes(c, "counting",
            IF Enough(room[c], {o \in Order : roomOf[o] = room[c] /\ state[o] = "safe"})
            THEN "deciding" ELSE "checked")
    /\ UNCHANGED <<roomVars, doing, orderVars, room, expiry, ended, forced, missed, faults>>

\* ... its orders, ...
CheckOrders(c) ==
    /\ Goes(c, "counting", IF GoalMet(room[c]) THEN "deciding" ELSE "checked")
    /\ UNCHANGED <<roomVars, doing, orderVars, room, expiry, ended, forced, missed, faults>>

\* ... and the UPDATE, which only an unlocked room is spared, not an expired one.
CheckWrite(c) ==
    /\ Goes(c, "deciding", "checked")
    /\ status' = [status EXCEPT ![room[c]] = "UNLOCKED"]
    /\ UNCHANGED <<count, members, doing, orderVars, room, expiry, ended, forced, missed, faults>>

\* The check fails: linkOrder fails with it, the confirmation goes on without.
CheckFails(c) ==
    /\ faults < MaxFaults /\ faults' = faults + 1
    /\ pc[c] \in {"check", "counting", "deciding"}
    /\ pc' = [pc EXCEPT ![c] = IF c \in Order THEN "idle" ELSE "done"]
    /\ missed' = IF c \in Order THEN missed \cup {room[c]} ELSE missed
    /\ UNCHANGED <<roomVars, doing, orderVars, room, expiry, ended, forced>>

\* Vendors, administrators, cancellations and returns set any status.  Nobody
\* checks the room of an order that becomes counted so: a payment that an
\* administrator sets to SUCCESS, a status that an administrator sets, the
\* replacement of a return.
Move(o, to) ==
    /\ state[o] # to /\ ~RowLocked(o)
    /\ state' = [state EXCEPT ![o] = to]
    /\ missed' = IF state[o] = "open" THEN missed \cup ({roomOf[o]} \ {NoRoom}) ELSE missed
    /\ UNCHANGED <<roomVars, doing, roomOf, pc, room, expiry, ended, forced, faults>>

-----------------------------------------------------------------------------
(* Administrators and the crons                                            *)

ForceUnlock(r) ==
    /\ status' = [status EXCEPT ![r] = "UNLOCKED"]
    /\ forced' = forced \cup {r}
    /\ UNCHANGED <<count, members, doing, orderVars, checkVars, expiry, ended>>

CloseRoom(r) ==
    /\ status' = [status EXCEPT ![r] = "EXPIRED"]
    /\ UNCHANGED <<count, members, doing, orderVars, checkVars, expiry, ended, forced>>

\* PATCH of a room, of whatever the body names; here of its status.
Patch(r, to) ==
    /\ status' = [status EXCEPT ![r] = to]
    /\ forced' = forced \cup {r}
    /\ UNCHANGED <<count, members, doing, orderVars, checkVars, expiry, ended>>

\* expireRoom, called by its cron every ten minutes or by an administrator.
ExpireRead(e, r) ==
    /\ expiry[e].room = NoRoom /\ status[r] # "EXPIRED"
    /\ expiry' = [expiry EXCEPT ![e] = [room |-> r, read |-> status[r]]]
    /\ UNCHANGED <<roomVars, doing, orderVars, checkVars, ended, forced>>

\* What was read decides about the orders, the room expires whatever it is now.
ExpireCommit(e) ==
    LET r == expiry[e].room IN
    /\ r # NoRoom
    /\ \A o \in Order : roomOf[o] = r => ~RowLocked(o)
    /\ expiry' = [expiry EXCEPT ![e].room = NoRoom]
    /\ status' = [status EXCEPT ![r] = "EXPIRED"]
    /\ state' = [o \in Order |->
            IF r \in Cancels /\ expiry[e].read # "UNLOCKED" /\ roomOf[o] = r /\ state[o] # "safe"
            THEN "open" ELSE state[o]]
    /\ UNCHANGED <<count, members, doing, roomOf, checkVars, ended, forced>>

\* Its audit row names the administrator SYSTEM: where there is none, the
\* foreign key rolls everything back.
ExpireFails(e) ==
    /\ expiry[e].room # NoRoom
    /\ expiry' = [expiry EXCEPT ![e].room = NoRoom]
    /\ UNCHANGED <<roomVars, doing, orderVars, checkVars, ended, forced>>

End(r) ==
    /\ ended' = ended \cup {r}
    /\ UNCHANGED <<roomVars, doing, orderVars, checkVars, expiry, forced>>

\* handleRoomExpiry, every minute: the orders are left as they are.
ExpireEnded ==
    /\ \E r \in ended : status[r] = "LOCKED"
    /\ status' = [r \in Room |-> IF r \in ended /\ status[r] = "LOCKED" THEN "EXPIRED" ELSE status[r]]
    /\ UNCHANGED <<count, members, doing, orderVars, checkVars, expiry, ended, forced>>

-----------------------------------------------------------------------------
Member(c) ==
    \E r \in Room :
        \/ JoinRead(c, r) \/ LeaveRead(c, r) \/ PurchaseRead(c, r)
        \/ JoinCommit(c, r) \/ LeaveCommit(c, r) \/ PurchaseCommit(c, r)

Check(c) == CheckRoom(c) \/ CheckOrders(c) \/ CheckWrite(c)
LinkStep(l) == LinkWrite(l) \/ LinkCommit(l) \/ Check(l)
ConfirmStep(o) == Confirm(o) \/ ConfirmDone(o) \/ Check(o)

Act ==
    \/ \E c \in Call : Member(c)
    \/ \E l \in Link : LinkRead(l) \/ LinkStep(l)
    \/ \E o \in Order : ConfirmRead(o) \/ ConfirmStep(o) \/ ConfirmFails(o)
                         \/ \E to \in State : Move(o, to)
    \/ \E c \in Caller : CheckFails(c)
    \/ \E r \in Room : ForceUnlock(r) \/ CloseRoom(r) \/ End(r) \/ \E to \in RoomStatus : Patch(r, to)
    \/ \E e \in Expiry : ExpireCommit(e) \/ ExpireFails(e) \/ \E r \in Room : ExpireRead(e, r)
    \/ ExpireEnded

Observed == met' = met \cup {r \in Room : GoalMet(r)'}

Next == Act /\ Observed

Spec == Init /\ [][Next]_vars

\* A call that has begun goes on.
Fairness ==
    /\ \A l \in Link : WF_vars(LinkStep(l) /\ Observed)
    /\ \A o \in Order : WF_vars(ConfirmStep(o) /\ Observed)

FairSpec == Spec /\ Fairness

-----------------------------------------------------------------------------
TypeOK ==
    /\ status \in [Room -> RoomStatus]
    /\ count \in [Room -> Int]
    /\ members \in [Room -> SUBSET User]
    /\ doing \in [Call -> [do : {"nothing", "join", "leave", "purchase"}, room : Room \cup {NoRoom}]]
    /\ state \in [Order -> State]
    /\ roomOf \in [Order -> Room \cup {NoRoom}]
    /\ pc \in [Caller -> {"idle", "read", "check", "counting", "deciding", "checked", "done"}]
    /\ room \in [Caller -> Room \cup {NoRoom}]
    /\ expiry \in [Expiry -> [room : Room \cup {NoRoom}, read : RoomStatus]]
    /\ ended \subseteq Room /\ met \subseteq Room /\ forced \subseteq Room /\ missed \subseteq Room
    /\ faults \in 0..MaxFaults

\* An administrator's room starts with a member count of one and no member.
Phantom(r) == IF Host[r] = NoUser THEN 1 ELSE 0

\* However joins and leaves race, from several devices of a user too,
\* memberCount is the number of members (one more in an administrator's room)
\* and no join takes it past the room's size.
MembersCounted == \A r \in Room :
    count[r] = Cardinality(members[r]) + Phantom(r) /\ (count[r] <= Size[r] \/ count[r] <= 1)

\* "LOCK room when maxMembers reached" (rooms.service.ts:284): no interleaving of
\* joins, leaves and purchases leaves a discount room open that joins have
\* filled, but for an administrator who opens it again.  A room made for one
\* is full from the start, and open.
FullRoomLocked == \A r \in Discount \ forced :
    count[r] >= Size[r] /\ count[r] > 1 => status[r] # "OPEN"

\* A room is unlocked only by an administrator, or after a moment at which the
\* counted orders committed to it met its goal.
UnlockJustified == \A r \in Room : status[r] = "UNLOCKED" => r \in forced \cup met

Checking == {"check", "counting", "deciding"}

\* A goal room whose goal is met is unlocked or expired, or a confirmation is
\* still to check it: whatever confirmations, links, cancellations and expiries
\* cross, no order that completes the goal goes by unnoticed, but by the ways in
\* which nobody looks (missed), or when an administrator sets the status.
UnlockedOrUnderway == \A r \in Room \ (Discount \cup missed \cup forced) :
    GoalMet(r) => \/ status[r] \in {"UNLOCKED", "EXPIRED"}
                  \/ \E o \in Order : room[o] = r /\ pc[o] \in Checking

\* A check that has decided to unlock has seen the goal met; a check is always
\* about a room, and the goals that are met have been observed.
ChecksAreHonest ==
    /\ \A c \in Caller :
        /\ pc[c] \in Checking => room[c] \in Room
        /\ pc[c] = "deciding" => room[c] \in met
    /\ \A l \in Link : pc[l] # "idle" => room[l] = LinkRoom[l]
    /\ \A r \in Room : GoalMet(r) => r \in met

\* What a confirmation has read of its order's room is so, or the link that has
\* changed it is known to be missed; only discount rooms are bought in.
RoomsAsRead ==
    /\ \A o \in Order : pc[o] # "idle" => roomOf[o] = room[o] \/ roomOf[o] \in missed
    /\ \A c \in Call : doing[c].do = "purchase" => doing[c].room \in Discount

IInv == TypeOK /\ MembersCounted /\ FullRoomLocked /\ UnlockJustified /\ UnlockedOrUnderway
          /\ ChecksAreHonest /\ RoomsAsRead

\* When confirmed orders meet the goal of a room, it is unlocked in the end,
\* however the confirmations interleave: the checks that UnlockedOrUnderway
\* speaks of get through, unless the room expires, the goal is lost, or the
\* status is an administrator's.
UnlockedInTheEnd == \A r \in Room \ Discount :
    (GoalMet(r) /\ r \notin missed)
        ~> (status[r] \in {"UNLOCKED", "EXPIRED"} \/ ~GoalMet(r) \/ r \in missed \cup forced)
=============================================================================
