---------------------------- MODULE RoomsProofs ----------------------------
(***************************************************************************)
(* Proofs about Rooms, for any rooms, users, calls, orders and goals.      *)
(***************************************************************************)
EXTENDS Rooms, FiniteSetTheorems, TLAPS

\* A set of users is finite, and its cardinality follows its elements.
LEMMA MembersFinite ==
    ASSUME NEW S \in SUBSET User
    PROVE  /\ IsFiniteSet(S) /\ Cardinality(S) \in Nat
           /\ \A u \in User : /\ u \notin S => Cardinality(S \cup {u}) = Cardinality(S) + 1
                              /\ u \in S => Cardinality(S \ {u}) = Cardinality(S) - 1
<1>1. IsFiniteSet(S)
  BY RoomAssumption, FS_Subset
<1> QED
  BY <1>1, FS_CardinalityType, FS_AddElement, FS_RemoveElement

\* A step that leaves rooms, orders, checks and forced alone keeps what is said of them.
RoomParts == MembersCounted /\ FullRoomLocked
CheckParts == UnlockJustified /\ ChecksAreHonest
GoalParts == UnlockedOrUnderway /\ RoomsAsRead

\* Rooms are strict about few orders: with less of them no goal gets met.
LEMMA FewerOrders ==
    ASSUME NEW r \in Room, roomOf' \in [Order -> Room \cup {NoRoom}],
           Counted(r)' \subseteq Counted(r), GoalMet(r)'
    PROVE  GoalMet(r)
<1>1. Counted(r)' \in SUBSET Order /\ Counted(r) \in SUBSET Order
  BY DEF Counted
<1>2. Enough(r, Counted(r)')
  BY DEF GoalMet
<1> QED
  BY <1>1, <1>2, EnoughAssumption DEF GoalMet

LEMMA InitEstablishes ==
    ASSUME Init
    PROVE  IInv
<1>1. TypeOK
  <2>1. \A r \in Room : {Host[r]} \ {NoUser} \in SUBSET User
    BY RoomAssumption
  <2>2. met \subseteq Room
    BY DEF Init
  <2> QED
    BY <2>1, <2>2, CallAssumption DEF Init, TypeOK, RoomStatus, State, Idle
<1>2. MembersCounted
  <2> SUFFICES ASSUME NEW r \in Room
               PROVE  count[r] = Cardinality(members[r]) + Phantom(r) /\ count[r] <= 1
    BY DEF MembersCounted
  <2>0. count[r] = 1
    BY DEF Init
  <2>1. CASE Host[r] = NoUser
    <3>1. members[r] = {}
      BY <2>1 DEF Init
    <3>2. Cardinality(members[r]) = 0
      BY <3>1, FS_EmptySet
    <3> QED
      BY <2>0, <2>1, <3>2 DEF Phantom
  <2>2. CASE Host[r] # NoUser
    <3>1. members[r] = {Host[r]}
      BY <2>2 DEF Init
    <3>2. Cardinality(members[r]) = 1
      BY <3>1, FS_Singleton
    <3> QED
      BY <2>0, <2>2, <3>2 DEF Phantom
  <2> QED
    BY <2>1, <2>2
<1>3. FullRoomLocked
  BY RoomAssumption DEF Init, FullRoomLocked
<1>5. GoalParts
  <2>1. \A o \in Order : o \in Caller
    BY DEF Caller
  <2>2. \A r \in Room : GoalMet(r) => r \in missed
    BY DEF Init
  <2> QED
    BY <2>1, <2>2 DEF Init, Idle, GoalParts, UnlockedOrUnderway, RoomsAsRead
<1>4. CheckParts
  <2>1. \A r \in Room : status[r] # "UNLOCKED"
    BY DEF Init
  <2>2. (\A c \in Caller : pc[c] = "idle") /\ Link \subseteq Caller
    BY DEF Init, Caller
  <2>3. met = {r \in Room : GoalMet(r)}
    BY DEF Init
  <2> QED
    BY <2>1, <2>2, <2>3 DEF CheckParts, UnlockJustified, ChecksAreHonest, Checking
<1> QED
  BY <1>1, <1>2, <1>3, <1>4, <1>5 DEF IInv, CheckParts, GoalParts

-----------------------------------------------------------------------------
(* Members                                                                 *)

LEMMA MemberKeepsTypes ==
    ASSUME IInv, Observed, NEW c \in Call, Member(c)
    PROVE  TypeOK'
<1> PICK r \in Room : \/ JoinRead(c, r) \/ LeaveRead(c, r) \/ PurchaseRead(c, r)
                      \/ JoinCommit(c, r) \/ LeaveCommit(c, r) \/ PurchaseCommit(c, r)
  BY DEF Member
<1>1. met' \subseteq Room
  BY DEF IInv, TypeOK, Observed
<1>2. doing' \in [Call -> [do : {"nothing", "join", "leave", "purchase"}, room : Room \cup {NoRoom}]]
  BY DEF IInv, TypeOK, JoinRead, LeaveRead, PurchaseRead, Decides, JoinCommit, LeaveCommit,
     PurchaseCommit, Writes, Idle
<1>3. /\ status' \in [Room -> RoomStatus] /\ count' \in [Room -> Int]
      /\ members' \in [Room -> SUBSET User]
  BY CallAssumption DEF IInv, TypeOK, JoinRead, LeaveRead, PurchaseRead, Decides, JoinCommit,
     LeaveCommit, PurchaseCommit, Enters, RoomStatus, roomVars
<1>4. UNCHANGED <<orderVars, checkVars, expiry, ended, forced>>
  BY DEF JoinRead, LeaveRead, PurchaseRead, Decides, JoinCommit, LeaveCommit, PurchaseCommit, Writes
<1> QED
  BY <1>1, <1>2, <1>3, <1>4 DEF IInv, TypeOK, orderVars, checkVars

\* What is counted is what is there, and the last place locks the room.
LEMMA MemberKeepsRooms ==
    ASSUME IInv, NEW c \in Call, Member(c)
    PROVE  RoomParts'
<1> PICK r \in Room : \/ JoinRead(c, r) \/ LeaveRead(c, r) \/ PurchaseRead(c, r)
                      \/ JoinCommit(c, r) \/ LeaveCommit(c, r) \/ PurchaseCommit(c, r)
  BY DEF Member
<1> DEFINE u == By[c]
<1>a. u \in User /\ members[r] \in SUBSET User /\ count[r] \in Int /\ Size[r] \in Int
  BY CallAssumption, RoomAssumption DEF IInv, TypeOK
<1>b. /\ u \notin members[r] => Cardinality(members[r] \cup {u}) = Cardinality(members[r]) + 1
      /\ u \in members[r] => Cardinality(members[r] \ {u}) = Cardinality(members[r]) - 1
      /\ Cardinality(members[r]) \in Nat
  BY <1>a, MembersFinite
<1>p. Phantom(r) \in Int
  BY DEF Phantom
<1>q. /\ count \in [Room -> Int] /\ members \in [Room -> SUBSET User] /\ status \in [Room -> RoomStatus]
      /\ MembersCounted /\ FullRoomLocked /\ Discount \subseteq Room /\ Size \in [Room -> Int]
  BY RoomAssumption DEF IInv, TypeOK
<1>f. forced' = forced
  BY DEF JoinRead, LeaveRead, PurchaseRead, Decides, JoinCommit, LeaveCommit, PurchaseCommit, Writes
<1> HIDE DEF u
<1>1. CASE UNCHANGED roomVars
  BY <1>1, <1>f, <1>q DEF RoomParts, MembersCounted, FullRoomLocked, roomVars
<1>2. CASE status[r] = Joinable(r) /\ count[r] < Size[r] /\ u \notin members[r] /\ Enters(u, r)
  <2>1. members' = [members EXCEPT ![r] = @ \cup {u}] /\ count' = [count EXCEPT ![r] = @ + 1]
    BY <1>2 DEF Enters
  <2>2. MembersCounted'
    BY <1>2, <2>1, <1>a, <1>b, <1>p, <1>q DEF MembersCounted
  <2>3. FullRoomLocked'
    BY <1>2, <2>1, <1>a, <1>f, <1>q DEF FullRoomLocked, Enters
  <2> QED
    BY <2>2, <2>3 DEF RoomParts
<1>3. CASE LeaveCommit(c, r) /\ u \in members[r]
  <2>1. /\ members' = [members EXCEPT ![r] = @ \ {u}] /\ count' = [count EXCEPT ![r] = @ - 1]
        /\ status' = status
    BY <1>3 DEF LeaveCommit, u
  <2>2. MembersCounted'
    BY <2>1, <1>3, <1>a, <1>b, <1>p, <1>q DEF MembersCounted
  <2>3. count[r] <= Size[r] \/ count[r] <= 1
    BY <1>q DEF MembersCounted
  <2>4. FullRoomLocked'
    BY <2>1, <2>3, <1>a, <1>f, <1>q DEF FullRoomLocked
  <2> QED
    BY <2>2, <2>4 DEF RoomParts
<1>4. CASE PurchaseCommit(c, r)
  BY <1>4, <1>f, <1>q DEF RoomParts, MembersCounted, FullRoomLocked, PurchaseCommit
<1> QED
  BY <1>1, <1>2, <1>3, <1>4 DEF JoinRead, LeaveRead, PurchaseRead, Decides, JoinCommit, LeaveCommit,
     roomVars, u

LEMMA MemberKeepsChecks ==
    ASSUME IInv, Observed, NEW c \in Call, Member(c)
    PROVE  CheckParts'
<1> PICK r \in Room : \/ JoinRead(c, r) \/ LeaveRead(c, r) \/ PurchaseRead(c, r)
                      \/ JoinCommit(c, r) \/ LeaveCommit(c, r) \/ PurchaseCommit(c, r)
  BY DEF Member
<1>1. UNCHANGED <<orderVars, checkVars, forced>>
  BY DEF JoinRead, LeaveRead, PurchaseRead, Decides, JoinCommit, LeaveCommit, PurchaseCommit, Writes
<1>2. \A s \in Room : status'[s] = "UNLOCKED" => status[s] = "UNLOCKED"
  BY DEF IInv, TypeOK, JoinRead, LeaveRead, PurchaseRead, Decides, JoinCommit, LeaveCommit,
     PurchaseCommit, Enters, roomVars
<1> QED
  BY <1>1, <1>2 DEF IInv, CheckParts, UnlockJustified, ChecksAreHonest, Observed, checkVars

-----------------------------------------------------------------------------
(* Orders, checks, administrators and crons                                *)

\* Every step that is not a member's.
OrderStep ==
    \/ \E l \in Link : LinkRead(l) \/ LinkStep(l)
    \/ \E o \in Order : ConfirmRead(o) \/ ConfirmStep(o) \/ ConfirmFails(o)
                         \/ \E to \in State : Move(o, to)
    \/ \E c \in Caller : CheckFails(c)
RoomStep ==
    \/ \E r \in Room : ForceUnlock(r) \/ CloseRoom(r) \/ End(r)
                        \/ \E to \in RoomStatus : Patch(r, to)
    \/ \E e \in Expiry : ExpireCommit(e) \/ ExpireFails(e) \/ \E r \in Room : ExpireRead(e, r)
    \/ ExpireEnded

\* They do not change members, and only an administrator's PATCH opens a room.
LEMMA OthersKeepRooms ==
    ASSUME IInv, OrderStep \/ RoomStep
    PROVE  RoomParts'
<1>1. /\ UNCHANGED <<count, members>>
      /\ forced \subseteq forced'
      /\ \A r \in Room : status'[r] = "OPEN" => status[r] = "OPEN" \/ r \in forced'
  <2>1. CASE OrderStep
    BY <2>1 DEF OrderStep, IInv, TypeOK, roomVars, LinkRead, LinkStep, LinkWrite, LinkCommit, Check,
       CheckRoom, CheckOrders, CheckWrite, ConfirmRead, ConfirmStep, Confirm, ConfirmDone,
       ConfirmFails, Move, CheckFails
  <2>2. CASE RoomStep
    BY <2>2 DEF RoomStep, IInv, TypeOK, roomVars, ForceUnlock, CloseRoom, Patch, End,
       ExpireCommit, ExpireFails, ExpireRead, ExpireEnded
  <2> QED
    BY <2>1, <2>2
<1> QED
  BY <1>1, RoomAssumption DEF IInv, RoomParts, MembersCounted, FullRoomLocked

LEMMA CheckStepKeeps ==
    ASSUME IInv, Observed, NEW c \in Caller, Check(c) \/ CheckFails(c)
    PROVE  TypeOK' /\ CheckParts'
<1>m. met' \subseteq Room /\ met \subseteq met' /\ UNCHANGED <<orderVars, room>> /\ forced' = forced
  BY CallAssumption DEF IInv, Checking, TypeOK, Observed, Check, CheckRoom, CheckOrders, CheckWrite, CheckFails
<1>h. pc[c] \in Checking => room[c] \in Room
  BY DEF IInv, Checking, ChecksAreHonest
<1>t. TypeOK'
  <2>1. pc' \in [Caller -> {"idle", "read", "check", "counting", "deciding", "checked", "done"}]
    BY DEF IInv, TypeOK, Check, CheckRoom, CheckOrders, CheckWrite, CheckFails, Goes
  <2>2. missed' \subseteq Room /\ faults' \in 0..MaxFaults
    BY <1>h, CallAssumption DEF IInv, TypeOK, Checking, Check, CheckRoom, CheckOrders, CheckWrite,
       CheckFails
  <2>3. status' \in [Room -> RoomStatus]
    BY DEF IInv, TypeOK, RoomStatus, Check, CheckRoom, CheckOrders, CheckWrite, CheckFails, roomVars
  <2>4. UNCHANGED <<count, members, doing, expiry, ended>>
    BY DEF Check, CheckRoom, CheckOrders, CheckWrite, CheckFails, roomVars
  <2> QED
    BY <1>m, <2>1, <2>2, <2>3, <2>4 DEF IInv, TypeOK, orderVars
<1>1. \A d \in Caller : pc'[d] = "deciding" => room[d] \in met
  BY DEF IInv, Checking, TypeOK, ChecksAreHonest, Check, CheckRoom, CheckOrders, CheckWrite, CheckFails, Goes
<1>2. \A d \in Caller : pc'[d] \in Checking => pc[d] \in Checking
  BY DEF IInv, Checking, TypeOK, Check, CheckRoom, CheckOrders, CheckWrite, CheckFails, Goes
<1>3. \A l \in Link : pc'[l] # "idle" => pc[l] # "idle"
  BY DEF IInv, Checking, TypeOK, Check, CheckRoom, CheckOrders, CheckWrite, CheckFails, Goes, Caller
<1>4. \A r \in Room : status'[r] = "UNLOCKED" => r \in forced \cup met
  BY <1>h DEF IInv, Checking, TypeOK, UnlockJustified, ChecksAreHonest, Check, CheckRoom, CheckOrders,
     CheckWrite, CheckFails, Goes, roomVars
<1> QED
  BY <1>m, <1>t, <1>1, <1>2, <1>3, <1>4 DEF IInv, Checking, CheckParts, UnlockJustified, ChecksAreHonest,
     Observed

\* Links and orders move between their reads and their writes.
LEMMA OrderMoveKeeps ==
    ASSUME IInv, Observed,
           \/ \E l \in Link : LinkRead(l) \/ LinkWrite(l) \/ LinkCommit(l)
           \/ \E o \in Order : ConfirmRead(o) \/ Confirm(o) \/ ConfirmDone(o) \/ ConfirmFails(o)
                                \/ \E to \in State : Move(o, to)
    PROVE  TypeOK' /\ CheckParts'
<1>m. met' \subseteq Room /\ met \subseteq met' /\ UNCHANGED <<status, forced>>
  BY DEF IInv, Checking, TypeOK, Observed, roomVars, LinkRead, LinkWrite, LinkCommit, ConfirmRead, Confirm,
     ConfirmDone, ConfirmFails, Move
<1>t. TypeOK'
  <2>1. CASE \E l \in Link : LinkRead(l) \/ LinkWrite(l) \/ LinkCommit(l)
    <3> PICK l \in Link : LinkRead(l) \/ LinkWrite(l) \/ LinkCommit(l)
      BY <2>1
    <3>1. LinkRoom[l] \in Room /\ LinkOf[l] \in Order /\ l \in Caller
      BY CallAssumption DEF Caller
    <3>2. /\ pc' \in [Caller -> {"idle", "read", "check", "counting", "deciding", "checked", "done"}]
          /\ room' \in [Caller -> Room \cup {NoRoom}]
      BY <3>1 DEF IInv, Checking, TypeOK, Goes, LinkRead, LinkWrite, LinkCommit
    <3>3. /\ state' = state /\ roomOf' \in [Order -> Room \cup {NoRoom}]
          /\ missed' \subseteq Room /\ faults' = faults
      BY <3>1 DEF IInv, Checking, TypeOK, orderVars, LinkRead, LinkWrite, LinkCommit
    <3>4. UNCHANGED <<count, members, doing, expiry, ended>>
      BY DEF roomVars, LinkRead, LinkWrite, LinkCommit
    <3> QED
      BY <1>m, <3>2, <3>3, <3>4 DEF IInv, Checking, TypeOK
  <2>2. CASE \E o \in Order : ConfirmRead(o) \/ Confirm(o) \/ ConfirmDone(o) \/ ConfirmFails(o)
                                \/ \E to \in State : Move(o, to)
    <3> PICK o \in Order : ConfirmRead(o) \/ Confirm(o) \/ ConfirmDone(o) \/ ConfirmFails(o)
                                \/ \E to \in State : Move(o, to)
      BY <2>2
    <3>2. /\ pc' \in [Caller -> {"idle", "read", "check", "counting", "deciding", "checked", "done"}]
          /\ room' \in [Caller -> Room \cup {NoRoom}]
      BY DEF IInv, Checking, TypeOK, Caller, checkVars, Goes, ConfirmRead, Confirm, ConfirmDone, ConfirmFails, Move
    <3>3. /\ state' \in [Order -> State] /\ roomOf' = roomOf
          /\ missed' \subseteq Room /\ faults' = faults
      BY DEF IInv, Checking, TypeOK, State, orderVars, checkVars, ConfirmRead, Confirm, ConfirmDone, ConfirmFails, Move
    <3>4. UNCHANGED <<count, members, doing, expiry, ended>>
      BY DEF roomVars, ConfirmRead, Confirm, ConfirmDone, ConfirmFails, Move
    <3> QED
      BY <1>m, <3>2, <3>3, <3>4 DEF IInv, Checking, TypeOK
  <2> QED
    BY <2>1, <2>2
<1>1. /\ \A d \in Caller : pc'[d] = "deciding" => pc[d] = "deciding" /\ room'[d] = room[d]
      /\ \A d \in Caller : pc'[d] \in {"check", "counting"} => room'[d] \in Room
      /\ \A l \in Link : pc'[l] # "idle" => room'[l] = LinkRoom[l]
  BY CallAssumption DEF IInv, Checking, TypeOK, ChecksAreHonest, orderVars, checkVars, Goes, Caller, LinkRead,
     LinkWrite, LinkCommit, ConfirmRead, Confirm, ConfirmDone, ConfirmFails, Move
<1> QED
  BY <1>m, <1>t, <1>1 DEF IInv, Checking, CheckParts, UnlockJustified, ChecksAreHonest, Observed

LEMMA RoomStepKeeps ==
    ASSUME IInv, Observed, RoomStep
    PROVE  TypeOK' /\ CheckParts'
<1>m. met' \subseteq Room /\ met \subseteq met' /\ forced \subseteq forced' /\ UNCHANGED checkVars
  BY DEF IInv, TypeOK, Observed, RoomStep, ForceUnlock, CloseRoom, Patch, End, ExpireCommit,
     ExpireFails, ExpireRead, ExpireEnded
<1>t. TypeOK'
  <2>1. CASE \E r \in Room : \/ ForceUnlock(r) \/ CloseRoom(r) \/ End(r)
                              \/ \E to \in RoomStatus : Patch(r, to)
    BY <1>m, <2>1 DEF IInv, TypeOK, RoomStatus, roomVars, orderVars, checkVars, ForceUnlock,
       CloseRoom, Patch, End
  <2>2. ASSUME NEW e \in Expiry, ExpireCommit(e)
        PROVE  TypeOK'
    <3>1. expiry[e] \in [room : Room \cup {NoRoom}, read : RoomStatus]
      BY DEF IInv, TypeOK
    <3>2. expiry' \in [Expiry -> [room : Room \cup {NoRoom}, read : RoomStatus]]
      BY <2>2, <3>1 DEF IInv, TypeOK, ExpireCommit
    <3>3. status' \in [Room -> RoomStatus]
      BY <2>2, <3>1 DEF IInv, TypeOK, ExpireCommit, RoomStatus
    <3>4. state' \in [Order -> State]
      BY <2>2 DEF IInv, TypeOK, State, ExpireCommit
    <3> QED
      BY <1>m, <2>2, <3>2, <3>3, <3>4 DEF IInv, TypeOK, checkVars, ExpireCommit
  <2>3. ASSUME NEW e \in Expiry, NEW r \in Room, ExpireRead(e, r)
        PROVE  TypeOK'
    BY <1>m, <2>3 DEF IInv, TypeOK, roomVars, orderVars, checkVars, ExpireRead
  <2>5. ASSUME NEW e \in Expiry, ExpireFails(e)
        PROVE  TypeOK'
    BY <1>m, <2>5 DEF IInv, TypeOK, roomVars, orderVars, checkVars, ExpireFails
  <2>4. CASE ExpireEnded
    BY <1>m, <2>4 DEF IInv, TypeOK, RoomStatus, orderVars, checkVars, ExpireEnded
  <2> QED
    BY <2>1, <2>2, <2>3, <2>4, <2>5 DEF RoomStep
<1>1. \A r \in Room : status'[r] = "UNLOCKED" => status[r] = "UNLOCKED" \/ r \in forced'
  BY DEF IInv, TypeOK, roomVars, RoomStep, ForceUnlock, CloseRoom, Patch, End, ExpireCommit,
     ExpireFails, ExpireRead, ExpireEnded
<1> QED
  BY <1>m, <1>t, <1>1 DEF IInv, CheckParts, UnlockJustified, ChecksAreHonest, Observed, checkVars

-----------------------------------------------------------------------------
(* Goals that are met are noticed                                          *)

LEMMA PurchasesStayDiscounted ==
    ASSUME IInv, Act, NEW c \in Call, doing'[c].do = "purchase"
    PROVE  doing'[c].room \in Discount
<1>1. CASE \E d \in Call : Member(d)
  <2> PICK d \in Call, r \in Room :
          \/ JoinRead(d, r) \/ LeaveRead(d, r) \/ PurchaseRead(d, r)
          \/ JoinCommit(d, r) \/ LeaveCommit(d, r) \/ PurchaseCommit(d, r)
    BY <1>1 DEF Member
  <2>1. \/ doing' = [doing EXCEPT ![d] = Idle]
        \/ doing' = [doing EXCEPT ![d] = [do |-> "join", room |-> r]]
        \/ doing' = [doing EXCEPT ![d] = [do |-> "leave", room |-> r]]
        \/ doing' = [doing EXCEPT ![d] = [do |-> "purchase", room |-> r]] /\ r \in Discount
    BY DEF JoinRead, LeaveRead, PurchaseRead, Decides, JoinCommit, LeaveCommit, PurchaseCommit,
       Writes
  <2>2. CASE d = c
    <3>1. c \in DOMAIN doing
      BY DEF IInv, TypeOK
    <3>2. \/ doing'[c] = Idle
          \/ doing'[c] = [do |-> "join", room |-> r]
          \/ doing'[c] = [do |-> "leave", room |-> r]
          \/ doing'[c] = [do |-> "purchase", room |-> r] /\ r \in Discount
      BY <2>1, <2>2, <3>1
    <3> QED
      BY <3>2 DEF Idle
  <2>3. CASE d # c
    <3>1. doing'[c] = doing[c]
      BY <2>1, <2>3 DEF IInv, TypeOK
    <3> QED
      BY <3>1 DEF IInv, RoomsAsRead
  <2> QED
    BY <2>2, <2>3
<1>2. CASE OrderStep
  <2>1. doing' = doing
    BY <1>2 DEF OrderStep, LinkRead, LinkStep, LinkWrite, LinkCommit, Check, CheckRoom, CheckOrders,
       CheckWrite, ConfirmRead, ConfirmStep, Confirm, ConfirmDone, ConfirmFails, Move, CheckFails
  <2> QED
    BY <2>1 DEF IInv, RoomsAsRead
<1>3. CASE RoomStep
  <2>1. doing' = doing
    BY <1>3 DEF RoomStep, ForceUnlock, CloseRoom, Patch, End, ExpireCommit, ExpireFails, ExpireRead,
       ExpireEnded
  <2> QED
    BY <2>1 DEF IInv, RoomsAsRead
<1> QED
  BY <1>1, <1>2, <1>3 DEF Act, OrderStep, RoomStep

LEMMA ReadsStayTrue ==
    ASSUME IInv, Act
    PROVE  RoomsAsRead'
<1> SUFFICES ASSUME NEW p \in Order, pc'[p] # "idle"
             PROVE  roomOf'[p] = room'[p] \/ roomOf'[p] \in missed'
  BY PurchasesStayDiscounted DEF RoomsAsRead
<1>p. p \in Caller /\ (pc[p] # "idle" => roomOf[p] = room[p] \/ roomOf[p] \in missed)
  BY DEF Caller, IInv, RoomsAsRead
<1>1. CASE \E l \in Link : LinkCommit(l)
  <2> PICK l \in Link : LinkCommit(l)
    BY <1>1
  <2>1. /\ pc'[p] = pc[p]
        /\ roomOf' = [roomOf EXCEPT ![LinkOf[l]] = LinkRoom[l]] /\ room' = room
        /\ missed \subseteq missed'
        /\ pc[LinkOf[l]] # "idle" => LinkRoom[l] \in missed'
    BY <1>p, CallAssumption DEF LinkCommit, Goes, IInv, TypeOK
  <2> QED
    BY <1>p, <2>1 DEF IInv, TypeOK
<1>2. CASE \E o \in Order : ConfirmRead(o)
  <2> PICK o \in Order : ConfirmRead(o)
    BY <1>2
  <2>1. /\ pc' = [pc EXCEPT ![o] = "read"] /\ room' = [room EXCEPT ![o] = roomOf[o]]
        /\ UNCHANGED <<roomOf, missed>>
    BY DEF ConfirmRead, Goes, orderVars
  <2> QED
    BY <1>p, <2>1 DEF IInv, TypeOK
<1>3. CASE \E l \in Link : LinkRead(l) \/ LinkWrite(l)
  BY <1>p, <1>3, CallAssumption DEF IInv, TypeOK, Goes, orderVars, LinkRead, LinkWrite
<1>4. CASE \E c \in Caller : Check(c) \/ CheckFails(c)
  BY <1>p, <1>4 DEF IInv, TypeOK, Goes, orderVars, Check, CheckRoom, CheckOrders, CheckWrite, CheckFails
<1>5. CASE \E o \in Order : \/ Confirm(o) \/ ConfirmDone(o) \/ ConfirmFails(o)
                          \/ \E to \in State : Move(o, to)
  BY <1>p, <1>5 DEF IInv, TypeOK, Goes, orderVars, Confirm, ConfirmDone, ConfirmFails, Move
<1>6. CASE RoomStep \/ \E c \in Call : Member(c)
  <2>1. UNCHANGED <<roomOf, checkVars>>
    BY <1>6 DEF RoomStep, ForceUnlock, CloseRoom, Patch, End, ExpireCommit, ExpireFails, ExpireRead,
       ExpireEnded, orderVars, Member, JoinRead, LeaveRead, PurchaseRead, Decides, JoinCommit,
       LeaveCommit, PurchaseCommit, Writes
  <2> QED
    BY <1>p, <2>1 DEF checkVars
<1> QED
  BY <1>1, <1>2, <1>3, <1>4, <1>5, <1>6 DEF Act, RoomStep, LinkStep, ConfirmStep, Caller

\* A step that adds no order to a room keeps its goal noticed, when the checks
\* of confirmations stay where they are.
LEMMA QuietStep ==
    ASSUME IInv, NEW r \in Room, TypeOK',
           Counted(r)' \subseteq Counted(r),
           missed \subseteq missed', forced \subseteq forced',
           status[r] \in {"UNLOCKED", "EXPIRED"} =>
               status'[r] \in {"UNLOCKED", "EXPIRED"} \/ r \in forced',
           \A o \in Order : pc[o] \in Checking /\ room[o] = r =>
               (pc'[o] \in Checking /\ room'[o] = r)
                   \/ status'[r] \in {"UNLOCKED", "EXPIRED"} \/ ~GoalMet(r) \/ r \in missed',
           r \notin Discount \cup missed' \cup forced', GoalMet(r)'
    PROVE  \/ status'[r] \in {"UNLOCKED", "EXPIRED"}
           \/ \E o \in Order : room'[o] = r /\ pc'[o] \in Checking
<1>1. GoalMet(r)
  BY FewerOrders DEF TypeOK
<1>2. \/ status[r] \in {"UNLOCKED", "EXPIRED"}
      \/ \E o \in Order : room[o] = r /\ pc[o] \in Checking
  BY <1>1 DEF IInv, UnlockedOrUnderway
<1> QED
  BY <1>1, <1>2

LEMMA GoalsStayNoticed ==
    ASSUME IInv, Act, TypeOK'
    PROVE  GoalParts'
<1> SUFFICES ASSUME NEW r \in Room, r \notin Discount \cup missed' \cup forced', GoalMet(r)'
             PROVE  \/ status'[r] \in {"UNLOCKED", "EXPIRED"}
                    \/ \E o \in Order : room'[o] = r /\ pc'[o] \in Checking
  BY ReadsStayTrue DEF GoalParts, UnlockedOrUnderway
<1>t. TypeOK /\ TypeOK' /\ \A o \in Order : o \in Caller /\ o \notin Link
  BY CallAssumption DEF IInv, Caller
<1>1. CASE \E c \in Call : Member(c)
  <2> PICK c \in Call, q \in Room :
          \/ JoinRead(c, q) \/ LeaveRead(c, q) \/ PurchaseRead(c, q)
          \/ JoinCommit(c, q) \/ LeaveCommit(c, q) \/ PurchaseCommit(c, q)
    BY <1>1 DEF Member
  <2>3. UNCHANGED <<orderVars, checkVars, forced>>
    BY DEF JoinRead, LeaveRead, PurchaseRead, Decides, JoinCommit, LeaveCommit, PurchaseCommit,
       Writes
  <2>4. ASSUME PurchaseCommit(c, q) PROVE status'[r] = status[r]
    <3>1. doing[c] = [do |-> "purchase", room |-> q]
      BY <2>4 DEF PurchaseCommit, Writes
    <3>2. q \in Discount
      BY <3>1 DEF IInv, RoomsAsRead
    <3> QED
      BY <2>4, <3>2, <1>t DEF PurchaseCommit, TypeOK
  <2>5. ASSUME ~PurchaseCommit(c, q) PROVE status'[r] = status[r]
    BY <2>5, <1>t DEF TypeOK, JoinRead, LeaveRead, PurchaseRead, Decides, JoinCommit, LeaveCommit,
       Enters, roomVars
  <2>1. UNCHANGED <<orderVars, checkVars, forced>> /\ status'[r] = status[r]
    BY <2>3, <2>4, <2>5
  <2>2. Counted(r)' = Counted(r)
    BY <2>1 DEF Counted, orderVars
  <2> QED
    BY <2>1, <2>2, QuietStep DEF checkVars
<1>2. CASE \E l \in Link : LinkCommit(l)
  <2> PICK l \in Link : LinkCommit(l)
    BY <1>2
  <2> DEFINE o == LinkOf[l]
  <2>1. /\ \A p \in Order : pc'[p] = pc[p]
        /\ UNCHANGED <<state, status, forced, room>> /\ missed \subseteq missed'
    BY <1>t DEF LinkCommit, Goes, TypeOK, roomVars
  <2>2. roomOf' = [roomOf EXCEPT ![o] = LinkRoom[l]] /\ o \in Order
    BY CallAssumption DEF LinkCommit
  <2>3. LinkRoom[l] = r => state[o] = "open"
    BY DEF LinkCommit
  <2>4. Counted(r)' \subseteq Counted(r)
    BY <1>t, <2>1, <2>2, <2>3 DEF Counted, TypeOK
  <2> QED
    BY <1>t, <2>1, <2>4, QuietStep
<1>3. CASE \E o \in Order : Confirm(o)
  <2> PICK o \in Order : Confirm(o)
    BY <1>3
  <2>1. /\ UNCHANGED <<roomOf, room, status, missed, forced>>
        /\ pc[o] = "read" /\ pc' = [pc EXCEPT ![o] = IF room[o] # NoRoom THEN "check" ELSE "idle"]
        /\ state' = [state EXCEPT ![o] = IF @ = "open" THEN "counted" ELSE @]
    BY DEF Confirm, Goes, roomVars
  <2>2. CASE roomOf[o] = r
    <3>1. room[o] = r
      BY <2>1, <2>2 DEF IInv, RoomsAsRead
    <3>2. pc'[o] = "check" /\ room'[o] = r
      BY <1>t, <2>1, <3>1, RoomAssumption DEF TypeOK
    <3> QED
      BY <3>2 DEF Checking
  <2>3. CASE roomOf[o] # r
    <3>1. Counted(r)' \subseteq Counted(r)
      BY <1>t, <2>1, <2>3 DEF Counted, TypeOK
    <3> QED
      BY <1>t, <2>1, <3>1, QuietStep DEF Checking, TypeOK
  <2> QED
    BY <2>2, <2>3
<1>4. CASE \E o \in Order, to \in State : Move(o, to)
  <2> PICK o \in Order, to \in State : Move(o, to)
    BY <1>4
  <2>1. /\ UNCHANGED <<roomOf, room, status, forced, pc>> /\ missed \subseteq missed'
        /\ state' = [state EXCEPT ![o] = to]
    BY DEF Move, roomVars
  <2>2. roomOf[o] = r => state[o] # "open"
    BY RoomAssumption DEF Move
  <2>3. Counted(r)' \subseteq Counted(r)
    BY <1>t, <2>1, <2>2 DEF Counted, TypeOK
  <2> QED
    BY <2>1, <2>3, QuietStep
<1>5. CASE \E c \in Caller : Check(c) \/ CheckFails(c)
  <2> PICK c \in Caller : Check(c) \/ CheckFails(c)
    BY <1>5
  <2>1. /\ UNCHANGED <<orderVars, room, forced>> /\ missed \subseteq missed'
        /\ \A o \in Order : o # c => pc'[o] = pc[o]
        /\ status[r] \in {"UNLOCKED", "EXPIRED"} => status'[r] \in {"UNLOCKED", "EXPIRED"}
    BY <1>t DEF TypeOK, Check, CheckRoom, CheckOrders, CheckWrite, CheckFails, Goes, roomVars
  <2>2. Counted(r)' = Counted(r)
    BY <2>1 DEF Counted, orderVars
  <2>3. c \in Order /\ room[c] = r =>
            pc'[c] \in Checking \/ status'[r] \in {"UNLOCKED", "EXPIRED"}
                \/ ~GoalMet(r) \/ r \in missed'
    BY <1>t DEF TypeOK, Check, CheckRoom, CheckOrders, CheckWrite, CheckFails, Goes, Checking,
       roomVars
  <2> QED
    BY <2>1, <2>2, <2>3, QuietStep
<1>6. CASE \/ \E l \in Link : LinkRead(l) \/ LinkWrite(l)
           \/ \E o \in Order : ConfirmRead(o) \/ ConfirmDone(o) \/ ConfirmFails(o)
  <2>1. /\ UNCHANGED <<orderVars, status, missed, forced>>
        /\ \A o \in Order : pc[o] \in Checking => pc'[o] = pc[o] /\ room'[o] = room[o]
    BY <1>6, <1>t DEF TypeOK, Goes, Checking, roomVars, LinkRead, LinkWrite, ConfirmRead,
       ConfirmDone, ConfirmFails
  <2>2. Counted(r)' = Counted(r)
    BY <2>1 DEF Counted, orderVars
  <2> QED
    BY <2>1, <2>2, QuietStep
<1>7. CASE RoomStep
  <2>1. /\ UNCHANGED <<roomOf, checkVars>> /\ forced \subseteq forced'
        /\ \A o \in Order : state'[o] # "open" => state[o] # "open"
        /\ status[r] \in {"UNLOCKED", "EXPIRED"} =>
               status'[r] \in {"UNLOCKED", "EXPIRED"} \/ r \in forced'
    BY <1>7, <1>t DEF TypeOK, RoomStep, ForceUnlock, CloseRoom, Patch, End, ExpireCommit,
       ExpireFails, ExpireRead, ExpireEnded, roomVars, orderVars
  <2>2. Counted(r)' \subseteq Counted(r)
    BY <2>1 DEF Counted
  <2> QED
    BY <2>1, <2>2, QuietStep DEF checkVars
<1> QED
  BY <1>1, <1>2, <1>3, <1>4, <1>5, <1>6, <1>7
     DEF Act, RoomStep, LinkStep, ConfirmStep, Caller

LEMMA StepKeeps ==
    ASSUME IInv, [Next]_vars
    PROVE  IInv'
<1>t. ASSUME Next PROVE TypeOK'
  BY <1>t, MemberKeepsTypes, CheckStepKeeps, OrderMoveKeeps, RoomStepKeeps
     DEF Next, Act, LinkStep, ConfirmStep, RoomStep, Caller
<1>g. ASSUME Next PROVE GoalParts'
  BY <1>g, <1>t, GoalsStayNoticed DEF Next
<1>1. CASE Next
  <2>1. CASE \E c \in Call : Member(c)
    BY <1>1, <1>g, <2>1, MemberKeepsTypes, MemberKeepsRooms, MemberKeepsChecks
       DEF Next, IInv, RoomParts, CheckParts, GoalParts
  <2>2. CASE OrderStep
    BY <1>1, <1>g, <2>2, OthersKeepRooms, CheckStepKeeps, OrderMoveKeeps
       DEF Next, IInv, RoomParts, CheckParts, GoalParts, OrderStep, LinkStep, ConfirmStep, Caller
  <2>3. CASE RoomStep
    BY <1>1, <1>g, <2>3, OthersKeepRooms, RoomStepKeeps
       DEF Next, IInv, RoomParts, CheckParts, GoalParts
  <2> QED
    BY <1>1, <2>1, <2>2, <2>3 DEF Next, Act, OrderStep, RoomStep
<1>2. CASE UNCHANGED vars
  BY <1>2 DEF vars, IInv, TypeOK, MembersCounted, FullRoomLocked, UnlockJustified, ChecksAreHonest,
     UnlockedOrUnderway, RoomsAsRead, GoalMet, Counted
<1> QED
  BY <1>1, <1>2

\* The inductive invariant holds in every reachable state of the rooms.
THEOREM Invariance == Spec => []IInv
BY InitEstablishes, StepKeeps, PTL DEF Spec

\* The member count is that of the members and no join takes it past the room's
\* size, however join, joinDiscountRoom and leaveDiscountRoom interleave.
THEOREM MembersAreCounted == Spec => []MembersCounted
<1>1. IInv => MembersCounted
  BY DEF IInv
<1> QED
  BY <1>1, Invariance, PTL

\* A discount room that joins have filled is never open, but for an
\* administrator's PATCH of its status.
THEOREM FullRoomsAreLocked == Spec => []FullRoomLocked
<1>1. IInv => FullRoomLocked
  BY DEF IInv
<1> QED
  BY <1>1, Invariance, PTL

\* Without an administrator, only a goal that was met unlocks a room.
THEOREM UnlocksAreJustified == Spec => []UnlockJustified
<1>1. IInv => UnlockJustified
  BY DEF IInv
<1> QED
  BY <1>1, Invariance, PTL

\* No order that completes a room's goal by being confirmed goes by unnoticed:
\* the room is unlocked or expired, or a confirmation is still to check it.
THEOREM GoalsAreNoticed == Spec => []UnlockedOrUnderway
<1>1. IInv => UnlockedOrUnderway
  BY DEF IInv
<1> QED
  BY <1>1, Invariance, PTL
=============================================================================
