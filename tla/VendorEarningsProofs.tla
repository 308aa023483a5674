------------------------ MODULE VendorEarningsProofs ------------------------
(***************************************************************************)
(* Proofs about VendorEarnings, for any vendors, orders, amounts, cron     *)
(* jobs, payout calls and administrators: type correctness, that earnings  *)
(* are overdrawn and overasked only by calls that overlap, that a transfer *)
(* is booked once, and that the module implements Account.                 *)
(***************************************************************************)
EXTENDS VendorEarnings, FiniteSetTheorems, TLAPS

\* The parts of IInv that relate the calls to the earnings and the payouts.
CallsOK == OverdrawnOnlyByRace /\ TransferBookedOnce /\ ReadyCovered /\ UnbookedYet

LEMMA InitEstablishes ==
    ASSUME Init
    PROVE  IInv
BY RequestAssumption DEF Init, IInv, TypeOK, OverdrawnOnlyByRace, TransferBookedOnce, ReadyCovered,
   UnbookedYet, PayoutsOfCalls, SettlementStatus, PayoutStatus, Deducting, Idle

\* Every step keeps the types.
LEMMA StepKeepsTypes ==
    ASSUME IInv, NEW r \in Request,
           \/ FindTransfer(r) \/ CheckDirect(r) \/ ReadAsk(r) \/ CheckAsk(r)
           \/ ReadWithdraw(r) \/ Refuse(r)
    PROVE  TypeOK'
BY RequestAssumption DEF IInv, TypeOK, FindTransfer, CheckDirect, ReadAsk, CheckAsk, ReadWithdraw,
   Refuse, Step, orderVars, jobVars, history

LEMMA CommitKeepsTypes ==
    ASSUME IInv, NEW r \in Request, Commit(r)
    PROVE  TypeOK'
<1>1. Deduction(r) \in Int /\ RequestVendor[r] \in Vendor
  BY RequestAssumption DEF IInv, TypeOK, Deduction
<1>2. earnings' \in [Vendor -> Int] /\ raced' \subseteq Vendor
  BY <1>1 DEF IInv, TypeOK, Commit
<1>4. crossed' \subseteq Request
  BY DEF IInv, TypeOK, Commit, Underway
<1>3. /\ call' \in [Request -> {"idle", "reading", "ready", "done"}]
      /\ seen' \in [Request -> Int] /\ payout' \in [Request -> PayoutStatus]
  BY DEF IInv, TypeOK, Commit, Step, PayoutStatus
<1> QED
  BY <1>2, <1>3, <1>4 DEF IInv, TypeOK, Commit, orderVars, jobVars

LEMMA CronKeepsTypes ==
    ASSUME IInv, NEW j \in Job,
           \/ Mark(j) \/ List(j) \/ EndJob(j) \/ JobDies(j)
           \/ \E o \in Order : Finalize(j, o) \/ FinalizeFails(j, o)
    PROVE  TypeOK'
<1>1. CASE Mark(j)
  BY <1>1 DEF IInv, TypeOK, Mark, SettlementStatus, callVars, history
<1>2. CASE List(j) \/ EndJob(j) \/ JobDies(j)
  BY <1>2 DEF IInv, TypeOK, List, EndJob, JobDies, orderVars, callVars, history
<1>3. CASE \E o \in Order : Finalize(j, o)
  BY <1>3, OrderAssumption DEF IInv, TypeOK, Finalize, SettlementStatus, callVars, history
<1>4. CASE \E o \in Order : FinalizeFails(j, o)
  BY <1>4 DEF IInv, TypeOK, FinalizeFails, orderVars, callVars, history
<1> QED
  BY <1>1, <1>2, <1>3, <1>4

LEMMA EnvironmentKeepsTypes ==
    ASSUME IInv, NEW o \in Order, CreateSettlement(o) \/ Deliver(o)
    PROVE  TypeOK'
BY DEF IInv, TypeOK, CreateSettlement, Deliver, SettlementStatus, jobVars, callVars, history

LEMMA AdminKeepsTypes ==
    ASSUME IInv, NEW a \in Admin, AdminWrite(a) \/ \E r \in Request : AdminRead(a, r)
    PROVE  TypeOK'
<1>1. CASE AdminWrite(a)
  <2>1. admin[a].payout \in PayoutStatus /\ admin[a].of \in Request
    BY <1>1 DEF IInv, TypeOK, AdminWrite
  <2> QED
    BY <1>1, <2>1 DEF IInv, TypeOK, AdminWrite, orderVars, jobVars, callVars, history
<1>2. ASSUME NEW r \in Request, AdminRead(a, r)
      PROVE  TypeOK'
  <2>1. PICK op \in DOMAIN Operation :
            admin' = [admin EXCEPT ![a] = [payout |-> Becomes[op], of |-> r]]
    BY <1>2 DEF AdminRead
  <2>2. Becomes[op] \in PayoutStatus \ {"NONE", "PENDING"}
    BY DEF Operation, Becomes, PayoutStatus
  <2> QED
    BY <1>2, <2>1, <2>2 DEF IInv, TypeOK, AdminRead, orderVars, jobVars, callVars, history
<1> QED
  BY <1>1, <1>2

\* Steps that only add to the earnings and neither move a call nor create a
\* payout cannot disturb what the calls rely on.
LEMMA BystandersKeep ==
    ASSUME IInv, TypeOK', call' = call, raced' = raced, renamed \subseteq renamed',
           \A v \in Vendor : earnings'[v] >= earnings[v],
           \A r \in Request : payout'[r] = "NONE" <=> payout[r] = "NONE"
    PROVE  CallsOK'
<1>1. OverdrawnOnlyByRace'
  BY DEF IInv, TypeOK, OverdrawnOnlyByRace
<1>2. TransferBookedOnce' /\ UnbookedYet'
  BY DEF IInv, TransferBookedOnce, UnbookedYet, SameTransfer
<1>3. ReadyCovered'
  BY RequestAssumption DEF IInv, TypeOK, ReadyCovered, Affords, Deducting
<1> QED
  BY <1>1, <1>2, <1>3 DEF CallsOK

LEMMA CronKeeps ==
    ASSUME IInv, NEW j \in Job,
           \/ Mark(j) \/ List(j) \/ EndJob(j) \/ JobDies(j)
           \/ \E o \in Order : Finalize(j, o) \/ FinalizeFails(j, o)
    PROVE  IInv'
<1>1. TypeOK'
  BY CronKeepsTypes
<1>2. UNCHANGED <<call, seen, payout, admin, renamed, raced>>
  BY DEF Mark, List, EndJob, JobDies, Finalize, FinalizeFails, callVars, history
<1>3. \A v \in Vendor : earnings'[v] >= earnings[v]
  BY OrderAssumption DEF IInv, TypeOK, Mark, List, EndJob, JobDies, Finalize, FinalizeFails
<1>4. CallsOK'
  BY <1>1, <1>2, <1>3, BystandersKeep
<1>5. PayoutsOfCalls'
  BY <1>2 DEF IInv, PayoutsOfCalls
<1> QED
  BY <1>1, <1>4, <1>5 DEF IInv, CallsOK

LEMMA EnvironmentKeeps ==
    ASSUME IInv, NEW o \in Order, CreateSettlement(o) \/ Deliver(o)
    PROVE  IInv'
<1>1. TypeOK'
  BY EnvironmentKeepsTypes
<1>2. UNCHANGED <<earnings, call, seen, payout, admin, renamed, raced>>
  BY DEF CreateSettlement, Deliver, callVars, history
<1>3. CallsOK'
  BY <1>1, <1>2, BystandersKeep DEF IInv, TypeOK
<1>4. PayoutsOfCalls'
  BY <1>2 DEF IInv, PayoutsOfCalls
<1> QED
  BY <1>1, <1>3, <1>4 DEF IInv, CallsOK

\* Administrators change the status of payouts that exist.
LEMMA AdminKeeps ==
    ASSUME IInv, NEW a \in Admin, AdminWrite(a) \/ \E r \in Request : AdminRead(a, r)
    PROVE  IInv'
<1>1. TypeOK'
  BY AdminKeepsTypes
<1>2. UNCHANGED <<earnings, call, seen, raced>> /\ renamed \subseteq renamed'
  BY DEF AdminWrite, AdminRead, callVars, history
<1>3. \A r \in Request : payout'[r] = "NONE" <=> payout[r] = "NONE"
  <2>1. CASE AdminWrite(a)
    <3>1. admin[a].payout # "NONE" /\ admin[a].of \in Request /\ payout[admin[a].of] # "NONE"
      BY <2>1 DEF IInv, TypeOK, PayoutsOfCalls, AdminWrite
    <3> QED
      BY <2>1, <3>1 DEF IInv, TypeOK, AdminWrite
  <2>2. CASE \E r \in Request : AdminRead(a, r)
    BY <2>2 DEF AdminRead
  <2> QED
    BY <2>1, <2>2
<1>4. CallsOK'
  BY <1>1, <1>2, <1>3, BystandersKeep DEF IInv, TypeOK
<1>5. \A b \in Admin : admin'[b] # Idle => payout[admin'[b].of] # "NONE" /\ admin'[b].of \in Request
  <2>1. CASE AdminWrite(a)
    BY <2>1 DEF IInv, TypeOK, PayoutsOfCalls, AdminWrite
  <2>2. ASSUME NEW r \in Request, AdminRead(a, r)
        PROVE  \A b \in Admin : admin'[b] # Idle => payout[admin'[b].of] # "NONE" /\ admin'[b].of \in Request
    <3>1. PICK op \in DOMAIN Operation :
            /\ payout[r] \in Operation[op]
            /\ admin' = [admin EXCEPT ![a] = [payout |-> Becomes[op], of |-> r]]
      BY <2>2 DEF AdminRead
    <3>2. payout[r] # "NONE"
      BY <3>1 DEF Operation
    <3> QED
      BY <3>1, <3>2 DEF IInv, TypeOK, PayoutsOfCalls
  <2> QED
    BY <2>1, <2>2
<1>6. PayoutsOfCalls'
  BY <1>2, <1>3, <1>5 DEF IInv, PayoutsOfCalls
<1> QED
  BY <1>1, <1>4, <1>6 DEF IInv, CallsOK

\* The reads of a call.
LEMMA ReadsKeep ==
    ASSUME IInv, NEW r \in Request,
           \/ FindTransfer(r) \/ CheckDirect(r) \/ ReadAsk(r) \/ CheckAsk(r)
           \/ ReadWithdraw(r) \/ Refuse(r)
    PROVE  IInv'
<1>1. TypeOK'
  BY StepKeepsTypes
<1>2. UNCHANGED <<earnings, payout, admin, renamed, raced>> /\ call[r] # "done"
      /\ \A q \in Request : q # r => call'[q] = call[q] /\ seen'[q] = seen[q]
  BY DEF FindTransfer, CheckDirect, ReadAsk, CheckAsk, ReadWithdraw, Refuse, Step,
     IInv, TypeOK, history
<1>3. OverdrawnOnlyByRace' /\ TransferBookedOnce'
  BY <1>2 DEF IInv, OverdrawnOnlyByRace, TransferBookedOnce
<1>4. call'[r] = "ready" /\ r \in Deducting => Affords(r)
  BY DEF FindTransfer, CheckDirect, ReadAsk, CheckAsk, ReadWithdraw, Refuse, Step,
     IInv, TypeOK, Deducting
<1>5. ReadyCovered'
  BY <1>2, <1>4 DEF IInv, ReadyCovered, Affords, Deducting
<1>6. UnbookedYet'
  <2> SUFFICES ASSUME NEW q \in Request, NEW s \in Request, q # s, SameTransfer(q, s),
                      call'[s] \in {"reading", "ready"}, payout[q] # "NONE"
               PROVE  RequestVendor[s] \in raced \/ q \in renamed
    BY <1>2 DEF UnbookedYet, SameTransfer
  <2>1. CASE s # r \/ call[s] \in {"reading", "ready"}
    BY <1>2, <2>1 DEF IInv, UnbookedYet
  <2>2. CASE s = r /\ call[s] \notin {"reading", "ready"}
    BY <2>2 DEF FindTransfer, CheckDirect, ReadAsk, CheckAsk, ReadWithdraw, Refuse,
       Step, IInv, TypeOK, SameTransfer
  <2> QED
    BY <2>1, <2>2
<1>7. Kind[r] = "Withdraw" /\ call'[r] = "ready" => seen'[r] >= RequestAmount[r]
  BY DEF FindTransfer, CheckDirect, ReadAsk, CheckAsk, ReadWithdraw, Refuse, Step,
     IInv, TypeOK, Affords
<1>8. PayoutsOfCalls'
  BY <1>2, <1>7 DEF IInv, PayoutsOfCalls
<1> QED
  BY <1>1, <1>3, <1>5, <1>6, <1>8 DEF IInv

\* A withdrawal takes off the whole amount: it has read at least that.
LEMMA WholeDeduction ==
    ASSUME IInv, NEW r \in Request, Commit(r)
    PROVE  Deduction(r) = RequestAmount[r]
<1>1. Kind[r] = "Withdraw" => seen[r] >= RequestAmount[r]
  BY DEF IInv, PayoutsOfCalls, Commit
<1>2. seen[r] \in Int /\ RequestAmount[r] \in Int
  BY RequestAssumption DEF IInv, TypeOK
<1> QED
  BY <1>1, <1>2 DEF Deduction

\* The commit of a call: whoever of the same vendor has started to read is
\* in a race from here on.
LEMMA CommitKeeps ==
    ASSUME IInv, NEW r \in Request, Commit(r)
    PROVE  IInv'
<1> DEFINE v == RequestVendor[r]
<1>1. TypeOK'
  BY CommitKeepsTypes
<1>2. /\ call[r] = "ready" /\ call' = [call EXCEPT ![r] = "done"]
      /\ raced \subseteq raced' /\ admin' = admin /\ renamed' = renamed /\ payout'[r] # "NONE"
      /\ \A q \in Request : q # r => payout'[q] = payout[q] /\ seen'[q] = seen[q]
  BY DEF Commit, Step, IInv, TypeOK
<1>3. ASSUME r \in Deducting PROVE CallsOK'
  <2>1. earnings' = [earnings EXCEPT ![v] = @ - RequestAmount[r]]
    BY <1>3, WholeDeduction DEF Commit
  <2>2. \A q \in Deducting : q # r /\ RequestVendor[q] = v /\ call[q] \in {"reading", "ready"}
            => v \in raced'
    BY <1>3 DEF Commit, Underway, Deducting
  <2>3. OverdrawnOnlyByRace'
    <3> SUFFICES ASSUME NEW w \in Vendor, earnings'[w] < 0, w \notin raced'
                 PROVE  FALSE
      BY DEF OverdrawnOnlyByRace
    <3>1. CASE w # v
      BY <1>2, <2>1, <3>1 DEF IInv, TypeOK, OverdrawnOnlyByRace
    <3>2. CASE w = v
      <4>1. earnings[v] >= RequestAmount[r]
        BY <1>2, <1>3, <3>2 DEF IInv, ReadyCovered, Affords
      <4>2. earnings[v] \in Int /\ RequestAmount[r] \in Int /\ v \in Vendor
        BY RequestAssumption DEF IInv, TypeOK
      <4>3. earnings'[v] = earnings[v] - RequestAmount[r]
        BY <2>1, <4>2 DEF IInv, TypeOK
      <4> QED
        BY <3>2, <4>1, <4>2, <4>3
    <3> QED
      BY <3>1, <3>2
  <2>4. ReadyCovered'
    <3> SUFFICES ASSUME NEW q \in Deducting, call'[q] = "ready", RequestVendor[q] \notin raced'
                 PROVE  earnings'[RequestVendor[q]] >= RequestAmount[q]
      BY DEF ReadyCovered, Affords
    <3>1. q # r /\ RequestVendor[q] # v
      BY <1>2, <2>2 DEF IInv, TypeOK, Deducting
    <3> QED
      BY <1>2, <2>1, <3>1, RequestAssumption DEF IInv, TypeOK, ReadyCovered, Affords, Deducting
  <2>5. UnbookedYet' /\ TransferBookedOnce'
    <3>1. ASSUME NEW q \in Request, q # r, SameTransfer(q, r), call[q] \in {"reading", "ready"}
          PROVE  RequestVendor[q] \in raced'
      BY <2>2, <3>1, RequestAssumption DEF SameTransfer, Deducting, Kinds
    <3>2. ASSUME NEW q \in Request, q # r, SameTransfer(q, r), payout[q] # "NONE"
          PROVE  RequestVendor[q] \in raced' \/ q \in renamed
      BY <1>2, <3>2, RequestAssumption DEF IInv, UnbookedYet, SameTransfer
    <3>3. UnbookedYet'
      BY <1>2, <3>1 DEF IInv, TypeOK, UnbookedYet, SameTransfer
    <3>4. TransferBookedOnce'
      BY <1>2, <3>2, RequestAssumption DEF IInv, TypeOK, TransferBookedOnce, SameTransfer
    <3> QED
      BY <3>3, <3>4
  <2> QED
    BY <2>3, <2>4, <2>5 DEF CallsOK
<1>4. ASSUME r \notin Deducting PROVE CallsOK'
  <2>1. UNCHANGED <<earnings, raced>>
    BY <1>4, Zenon DEF Commit
  <2>4. Kind[r] = "Ask"
    BY <1>4 DEF Deducting
  <2>2. OverdrawnOnlyByRace' /\ ReadyCovered'
    BY <1>2, <2>1 DEF IInv, TypeOK, OverdrawnOnlyByRace, ReadyCovered, Affords, Deducting
  <2>3. TransferBookedOnce' /\ UnbookedYet'
    BY <1>2, <2>1, <2>4 DEF IInv, TypeOK, TransferBookedOnce, UnbookedYet, SameTransfer
  <2> QED
    BY <2>2, <2>3 DEF CallsOK
<1>5. PayoutsOfCalls'
  <2>1. \A a \in Admin : admin[a] # Idle => payout'[admin[a].of] # "NONE"
    <3> SUFFICES ASSUME NEW a \in Admin, admin[a] # Idle
                 PROVE  payout'[admin[a].of] # "NONE"
      OBVIOUS
    <3>1. admin[a].of \in Request /\ payout[admin[a].of] # "NONE"
      BY DEF IInv, TypeOK, PayoutsOfCalls
    <3> QED
      BY <1>2, <3>1
  <2>2. \A q \in Request : payout'[q] # "NONE" => call'[q] = "done"
    BY <1>2 DEF IInv, TypeOK, PayoutsOfCalls
  <2> QED
    BY <1>2, <2>1, <2>2 DEF IInv, TypeOK, PayoutsOfCalls
<1> QED
  BY <1>1, <1>3, <1>4, <1>5 DEF IInv, CallsOK

\* IInv is inductive.
LEMMA NextKeeps ==
    ASSUME IInv, [Next]_vars
    PROVE  IInv'
<1>1. CASE UNCHANGED vars
  BY <1>1 DEF vars, IInv, TypeOK, OverdrawnOnlyByRace, TransferBookedOnce, ReadyCovered,
     UnbookedYet, PayoutsOfCalls, Affords
<1> QED
  BY <1>1, EnvironmentKeeps, CronKeeps, ReadsKeep, CommitKeeps, AdminKeeps DEF Next

THEOREM Invariance == Spec => []IInv
BY InitEstablishes, NextKeeps, PTL DEF Spec

THEOREM TypeCorrect == Spec => []TypeOK
<1>1. IInv => TypeOK
  BY DEF IInv
<1> QED
  BY <1>1, Invariance, PTL

THEOREM NoOverdraftWithoutRace == Spec => []OverdrawnOnlyByRace
<1>1. IInv => OverdrawnOnlyByRace
  BY DEF IInv
<1> QED
  BY <1>1, Invariance, PTL

THEOREM RetryBooksNothing == Spec => []TransferBookedOnce
<1>1. IInv => TransferBookedOnce
  BY DEF IInv
<1> QED
  BY <1>1, Invariance, PTL

-----------------------------------------------------------------------------
(* Refinement                                                              *)

\* What an order or a payout means to the account.
LEMMA Values ==
    /\ \A o \in Order : o \in Bookings /\ BookingValue[o] = OrderAmount[o]
                          /\ BookingOwner[o] = OrderVendor[o]
    /\ \A r \in Deducting : r \in Bookings /\ BookingValue[r] = -RequestAmount[r]
                              /\ BookingOwner[r] = RequestVendor[r]
BY BoundAssumption DEF Bookings, BookingValue, BookingOwner, Deducting

\* finalizeSettlement books an order, or finds that it has been booked.
LEMMA FinalizeBooks ==
    ASSUME IInv, NEW j \in Job, NEW o \in Order, Finalize(j, o)
    PROVE  [A!Next]_(A!vars)
<1>1. CASE settlement[o] = "ELIGIBLE"
  <2>1. settlement' = [settlement EXCEPT ![o] = "SETTLED"] /\ payout' = payout
    BY <1>1 DEF Finalize
  <2>2. o \notin Booked
    BY <1>1, BoundAssumption DEF Booked, Deducting
  <2>3. Booked' = Booked \cup {o}
    BY <2>1 DEF Booked, IInv, TypeOK
  <2>4. earnings' = [earnings EXCEPT ![BookingOwner[o]] = @ + BookingValue[o]]
    BY <1>1, Values DEF Finalize
  <2> QED
    BY <2>2, <2>3, <2>4, Values DEF A!Next, A!Book
<1>2. CASE settlement[o] # "ELIGIBLE"
  BY <1>2 DEF Finalize, callVars, A!vars, Booked
<1> QED
  BY <1>1, <1>2

\* The commit of a payout call books it if it deducts.
LEMMA CommitBooks ==
    ASSUME IInv, NEW r \in Request, Commit(r)
    PROVE  [A!Next]_(A!vars)
<1>1. /\ settlement' = settlement /\ payout[r] = "NONE" /\ payout'[r] # "NONE"
      /\ \A q \in Request : q # r => payout'[q] = payout[q]
  BY DEF Commit, orderVars, IInv, TypeOK, PayoutsOfCalls
<1>2. CASE r \in Deducting
  <2>1. r \notin Booked
    BY <1>1, BoundAssumption DEF Booked, Deducting
  <2>2. Booked' = Booked \cup {r}
    BY <1>1, <1>2 DEF Booked, Deducting
  <2>3. earnings' = [earnings EXCEPT ![RequestVendor[r]] = @ - RequestAmount[r]]
    BY <1>2, WholeDeduction DEF Commit
  <2>4. RequestVendor[r] \in Vendor /\ RequestAmount[r] \in Int /\ earnings \in [Vendor -> Int]
    BY RequestAssumption DEF IInv, TypeOK
  <2>5. earnings' = [earnings EXCEPT ![BookingOwner[r]] = @ + BookingValue[r]]
    BY <1>2, <2>3, <2>4, Values
  <2> QED
    BY <1>2, <2>1, <2>2, <2>5, Values DEF A!Next, A!Book
<1>3. CASE r \notin Deducting
  <2>1. earnings' = earnings
    BY <1>3, Zenon DEF Commit
  <2>2. Booked' = Booked
    BY <1>1, <1>3 DEF Booked, Deducting
  <2> QED
    BY <2>1, <2>2 DEF A!vars
<1> QED
  BY <1>2, <1>3

\* No other step settles an order or creates a payout.
LEMMA OthersBookNothing ==
    ASSUME IInv, [Next]_vars, \A r \in Request : ~Commit(r),
           \A j \in Job, o \in Order : ~Finalize(j, o)
    PROVE  UNCHANGED <<Booked, earnings>>
<1>1. ASSUME NEW o \in Order, CreateSettlement(o) \/ Deliver(o)
      PROVE  UNCHANGED <<Booked, earnings>>
  BY <1>1 DEF CreateSettlement, Deliver, Booked, IInv, TypeOK
<1>2. ASSUME NEW j \in Job, Mark(j)
      PROVE  UNCHANGED <<Booked, earnings>>
  BY <1>2 DEF Mark, Booked
<1>3. ASSUME NEW j \in Job,
             List(j) \/ EndJob(j) \/ JobDies(j) \/ \E o \in Order : FinalizeFails(j, o)
      PROVE  UNCHANGED <<Booked, earnings>>
  BY <1>3 DEF List, EndJob, JobDies, FinalizeFails, orderVars, Booked
<1>4. ASSUME NEW r \in Request,
             \/ FindTransfer(r) \/ CheckDirect(r) \/ ReadAsk(r) \/ CheckAsk(r)
             \/ ReadWithdraw(r) \/ Refuse(r)
      PROVE  UNCHANGED <<Booked, earnings>>
  BY <1>4 DEF FindTransfer, CheckDirect, ReadAsk, CheckAsk, ReadWithdraw, Refuse,
     orderVars, Booked
<1>5. ASSUME NEW a \in Admin, AdminWrite(a) \/ \E r \in Request : AdminRead(a, r)
      PROVE  UNCHANGED <<Booked, earnings>>
  <2>1. UNCHANGED <<settlement, earnings>>
    BY <1>5 DEF AdminWrite, AdminRead, orderVars
  <2>2. \A r \in Request : payout'[r] = "NONE" <=> payout[r] = "NONE"
    <3>1. CASE AdminWrite(a)
      <4>1. admin[a].payout # "NONE" /\ admin[a].of \in Request /\ payout[admin[a].of] # "NONE"
        BY <3>1 DEF IInv, TypeOK, PayoutsOfCalls, AdminWrite
      <4> QED
        BY <3>1, <4>1 DEF IInv, TypeOK, AdminWrite
    <3>2. CASE \E r \in Request : AdminRead(a, r)
      BY <3>2 DEF AdminRead
    <3> QED
      BY <1>5, <3>1, <3>2
  <2> QED
    BY <2>1, <2>2 DEF Booked, Deducting
<1>6. CASE UNCHANGED vars
  BY <1>6 DEF vars, Booked
<1> QED
  BY <1>1, <1>2, <1>3, <1>4, <1>5, <1>6 DEF Next

\* pendingEarnings moves by bookings only, and by each settled order and each
\* deducting payout once, however jobs and calls overlap, fail and die.
THEOREM Refinement == Spec => EarningsAreBooked
<1>1. Init => A!Init
  BY DEF Init, A!Init, Booked, Deducting
<1>2. IInv /\ [Next]_vars => [A!Next]_(A!vars)
  BY FinalizeBooks, CommitBooks, OthersBookNothing DEF A!vars
<1> QED
  BY <1>1, <1>2, Invariance, PTL DEF Spec, EarningsAreBooked, A!Spec

-----------------------------------------------------------------------------
(* Requests that wait for an administrator                                 *)

\* The rupees of one more request.
LEMMA OneMoreRequest ==
    ASSUME NEW S, NEW r \in Request, r \notin S, IsFiniteSet(Rupees(S))
    PROVE  /\ IsFiniteSet(Rupees(S \cup {r}))
           /\ Cardinality(Rupees(S \cup {r})) = Cardinality(Rupees(S)) + RequestAmount[r]
           /\ Cardinality(Rupees(S)) \in Nat
<1>1. RequestAmount[r] \in Nat
  BY RequestAssumption
<1> DEFINE W == {r} \X (1..RequestAmount[r])
<1>2. IsFiniteSet(W) /\ Cardinality(W) = RequestAmount[r]
  <2>1. IsFiniteSet({r}) /\ Cardinality({r}) = 1
    BY FS_Singleton
  <2>2. IsFiniteSet(1..RequestAmount[r]) /\ Cardinality(1..RequestAmount[r]) = RequestAmount[r]
    BY <1>1, FS_Interval
  <2>3. /\ IsFiniteSet({r} \X (1..RequestAmount[r]))
        /\ Cardinality({r} \X (1..RequestAmount[r]))
              = Cardinality({r}) * Cardinality(1..RequestAmount[r])
    BY <2>1, <2>2, FS_Product
  <2> QED
    BY <1>1, <2>1, <2>2, <2>3
<1> HIDE DEF W
<1>3. Rupees(S \cup {r}) = Rupees(S) \cup W
  <2>1. \A x : x \in Rupees(S \cup {r})
                  <=> x \in W \/ \E q \in S : x \in {q} \X (1..RequestAmount[q])
    BY DEF Rupees, W
  <2>2. \A x : x \in Rupees(S) <=> \E q \in S : x \in {q} \X (1..RequestAmount[q])
    BY DEF Rupees
  <2> QED
    BY <2>1, <2>2
<1>4. Rupees(S) \cap W = {}
  BY DEF Rupees, W
<1>5. /\ IsFiniteSet(Rupees(S) \cup W)
      /\ Cardinality(Rupees(S) \cup W) = Cardinality(Rupees(S)) + Cardinality(W) - Cardinality({})
  BY <1>2, <1>4, FS_Union
<1>6. Cardinality({}) = 0 /\ Cardinality(Rupees(S)) \in Nat
  BY FS_EmptySet, FS_CardinalityType
<1>7. Cardinality(Rupees(S) \cup W) = Cardinality(Rupees(S)) + RequestAmount[r]
  BY <1>1, <1>2, <1>5, <1>6
<1> QED
  BY <1>3, <1>5, <1>6, <1>7

\* Fewer requests ask for no more.
LEMMA FewerRequests ==
    ASSUME NEW S, IsFiniteSet(Rupees(S)), NEW T \in SUBSET S
    PROVE  /\ IsFiniteSet(Rupees(T))
           /\ Cardinality(Rupees(T)) \in Nat /\ Cardinality(Rupees(S)) \in Nat
           /\ Cardinality(Rupees(T)) <= Cardinality(Rupees(S))
<1>1. Rupees(T) \subseteq Rupees(S)
  BY DEF Rupees
<1> QED
  BY <1>1, FS_Subset, FS_CardinalityType

\* A step that adds only to the earnings and ends requests at most, and after
\* which no other call is about to request, keeps AskInv.
LEMMA AskFrame ==
    ASSUME TypeOK, TypeOK', AskInv, crossed' = crossed,
           \A r \in Request : Kind[r] = "Ask" => call'[r] = "done"
                                                  \/ (call'[r] = call[r] /\ seen'[r] = seen[r]),
           \A v \in Vendor : earnings'[v] >= earnings[v],
           \A r \in Request : payout'[r] = "PENDING" => payout[r] = "PENDING"
    PROVE  AskInv'
<1>1. ASSUME NEW v \in Vendor
      PROVE  /\ IsFiniteSet(Rupees(PendingOf(v)))'
             /\ AlreadyPending(v)' <= AlreadyPending(v)
             /\ AlreadyPending(v) \in Int /\ AlreadyPending(v)' \in Int
  <2>1. PICK S : S = PendingOf(v)
    OBVIOUS
  <2>2. PICK T : T = PendingOf(v)'
    OBVIOUS
  <2>3. T \subseteq S /\ IsFiniteSet(Rupees(S))
    BY <2>1, <2>2 DEF PendingOf, AskInv, RupeesFinite
  <2>4. /\ IsFiniteSet(Rupees(T))
        /\ Cardinality(Rupees(T)) \in Nat /\ Cardinality(Rupees(S)) \in Nat
        /\ Cardinality(Rupees(T)) <= Cardinality(Rupees(S))
    BY <2>3, FewerRequests
  <2> QED
    BY <2>1, <2>2, <2>4 DEF AlreadyPending, Rupees
<1>2. RupeesFinite'
  BY <1>1 DEF RupeesFinite
<1>3. AsksCovered'
  <2> SUFFICES ASSUME NEW r \in Request, r \notin crossed, Kind[r] = "Ask"
               PROVE  /\ call'[r] = "reading" => seen'[r] <= earnings'[RequestVendor[r]]
                      /\ call'[r] = "ready" =>
                            AlreadyPending(RequestVendor[r])' + RequestAmount[r]
                                <= earnings'[RequestVendor[r]]
    BY DEF AsksCovered
  <2>1. RequestVendor[r] \in Vendor /\ RequestAmount[r] \in Int
    BY RequestAssumption
  <2>2. PICK v \in Vendor : v = RequestVendor[r]
    BY <2>1
  <2>3. earnings[v] \in Int /\ earnings'[v] \in Int /\ earnings'[v] >= earnings[v] /\ seen[r] \in Int
    BY DEF TypeOK
  <2>4. CASE call'[r] = "reading"
    BY <2>2, <2>3, <2>4 DEF AskInv, AsksCovered
  <2>5. CASE call'[r] = "ready"
    <3>1. AlreadyPending(v) + RequestAmount[r] <= earnings[v]
      BY <2>2, <2>5 DEF AskInv, AsksCovered
    <3>2. PICK m \in Int, n \in Int : m = AlreadyPending(v) /\ n = AlreadyPending(v)' /\ n <= m
      BY <1>1
    <3>3. n + RequestAmount[r] <= earnings'[v]
      BY <2>1, <2>3, <3>1, <3>2
    <3> QED
      BY <2>2, <2>5, <3>2, <3>3
  <2> QED
    BY <2>4, <2>5
<1> QED
  BY <1>2, <1>3 DEF AskInv
\* Jobs, deliveries and administrators: the earnings only grow, and requests only
\* leave PENDING.
LEMMA OthersKeepAsks ==
    ASSUME IInv, TypeOK', AskInv,
           \/ \E o \in Order : CreateSettlement(o) \/ Deliver(o)
           \/ \E j \in Job :
                \/ Mark(j) \/ List(j) \/ EndJob(j) \/ JobDies(j)
                \/ \E o \in Order : Finalize(j, o) \/ FinalizeFails(j, o)
           \/ \E a \in Admin : AdminWrite(a) \/ \E r \in Request : AdminRead(a, r)
    PROVE  AskInv'
<1>1. UNCHANGED <<call, seen, crossed>>
  BY DEF CreateSettlement, Deliver, Mark, List, EndJob, JobDies, Finalize, FinalizeFails,
     AdminWrite, AdminRead, callVars, history
<1>2. \A v \in Vendor : earnings'[v] >= earnings[v]
  <2>1. ASSUME NEW j \in Job, NEW o \in Order, Finalize(j, o)
        PROVE  \A v \in Vendor : earnings'[v] >= earnings[v]
    BY <2>1, OrderAssumption DEF IInv, TypeOK, Finalize
  <2>2. ASSUME earnings' = earnings
        PROVE  \A v \in Vendor : earnings'[v] >= earnings[v]
    BY <2>2 DEF IInv, TypeOK
  <2> QED
    BY <2>1, <2>2 DEF CreateSettlement, Deliver, Mark, List, EndJob, JobDies, FinalizeFails,
       AdminWrite, AdminRead
<1>3. \A r \in Request : payout'[r] = "PENDING" => payout[r] = "PENDING"
  <2>1. ASSUME NEW a \in Admin, AdminWrite(a)
        PROVE  \A r \in Request : payout'[r] = "PENDING" => payout[r] = "PENDING"
    BY <2>1 DEF IInv, TypeOK, AdminWrite
  <2> QED
    BY <2>1 DEF CreateSettlement, Deliver, Mark, List, EndJob, JobDies, Finalize, FinalizeFails,
       AdminRead
<1> QED
  BY <1>1, <1>2, <1>3, AskFrame DEF IInv

\* What an Ask reads is there, and what it finds to fit does.
LEMMA ReadsKeepAsks ==
    ASSUME IInv, TypeOK', AskInv, NEW r \in Request,
           \/ FindTransfer(r) \/ CheckDirect(r) \/ ReadAsk(r) \/ CheckAsk(r)
           \/ ReadWithdraw(r) \/ Refuse(r)
    PROVE  AskInv'
<1>1. UNCHANGED <<earnings, payout, crossed>>
  BY DEF FindTransfer, CheckDirect, ReadAsk, CheckAsk, ReadWithdraw, Refuse, history
<1>2. \A q \in Request : q # r => call'[q] = call[q] /\ seen'[q] = seen[q]
  BY DEF FindTransfer, CheckDirect, ReadAsk, CheckAsk, ReadWithdraw, Refuse, Step, IInv, TypeOK
<1>3. CASE Kind[r] # "Ask" \/ call'[r] = "done"
  <2>1. \A v \in Vendor : earnings'[v] >= earnings[v]
    BY <1>1 DEF IInv, TypeOK
  <2> QED
    BY <1>1, <1>2, <1>3, <2>1, AskFrame DEF IInv
<1>4. CASE Kind[r] = "Ask" /\ call'[r] # "done"
  <2>1. PICK v \in Vendor : v = RequestVendor[r]
    BY RequestAssumption
  <2>2. \A w \in Vendor : AlreadyPending(w)' = AlreadyPending(w)
    BY <1>1 DEF AlreadyPending, Rupees, PendingOf
  <2>3. RupeesFinite'
    BY <1>1 DEF AskInv, RupeesFinite, Rupees, PendingOf
  <2>4. ASSUME r \notin crossed
        PROVE  /\ call'[r] = "reading" => seen'[r] <= earnings[v]
               /\ call'[r] = "ready" => AlreadyPending(v) + RequestAmount[r] <= earnings[v]
    <3>1. earnings[v] \in Int /\ RequestAmount[r] \in Int /\ seen[r] \in Int
      BY RequestAssumption DEF IInv, TypeOK
    <3>2. CASE ReadAsk(r)
      BY <2>1, <3>1, <3>2 DEF ReadAsk, Step, IInv, TypeOK
    <3>3. CASE CheckAsk(r)
      <4>1. seen[r] <= earnings[v]
        BY <1>4, <2>1, <2>4, <3>3 DEF AskInv, AsksCovered, CheckAsk
      <4>2. call'[r] = "ready" /\ ~(RequestAmount[r] > seen[r] - AlreadyPending(v))
        BY <1>4, <2>1, <3>3 DEF CheckAsk, Step, IInv, TypeOK
      <4>3. AlreadyPending(v) \in Nat
        BY FS_CardinalityType DEF AskInv, RupeesFinite, AlreadyPending
      <4> QED
        BY <3>1, <4>1, <4>2, <4>3
    <3> QED
      BY <1>4, <3>2, <3>3 DEF FindTransfer, CheckDirect, ReadWithdraw, Refuse, Step, IInv, TypeOK
  <2>5. AsksCovered'
    <3> SUFFICES ASSUME NEW q \in Request, q \notin crossed, Kind[q] = "Ask"
                 PROVE  /\ call'[q] = "reading" => seen'[q] <= earnings[RequestVendor[q]]
                        /\ call'[q] = "ready" =>
                              AlreadyPending(RequestVendor[q]) + RequestAmount[q]
                                  <= earnings[RequestVendor[q]]
      BY <1>1, <2>2, RequestAssumption DEF AsksCovered
    <3>1. CASE q = r
      BY <2>1, <2>4, <3>1
    <3>2. CASE q # r
      BY <1>2, <3>2 DEF AskInv, AsksCovered
    <3> QED
      BY <3>1, <3>2
  <2> QED
    BY <2>3, <2>5 DEF AskInv
<1> QED
  BY <1>3, <1>4

\* A commit adds its own request at most, and crosses the vendor's other Asks.
LEMMA CommitPending ==
    ASSUME IInv, AskInv, NEW r \in Request, Commit(r)
    PROVE  /\ \A v \in Vendor : v # RequestVendor[r] => PendingOf(v)' = PendingOf(v)
           /\ r \notin PendingOf(RequestVendor[r])
           /\ IF Kind[r] = "Direct" THEN PendingOf(RequestVendor[r])' = PendingOf(RequestVendor[r])
              ELSE PendingOf(RequestVendor[r])' = PendingOf(RequestVendor[r]) \cup {r}
<1>1. /\ payout[r] = "NONE" /\ payout'[r] = IF Kind[r] = "Direct" THEN "COMPLETED" ELSE "PENDING"
      /\ \A q \in Request : q # r => payout'[q] = payout[q]
  BY DEF Commit, IInv, TypeOK, PayoutsOfCalls
<1> QED
  BY <1>1 DEF PendingOf

LEMMA CommitKeepsAsks ==
    ASSUME IInv, TypeOK', AskInv, NEW r \in Request, Commit(r)
    PROVE  AskInv'
<1>1. PICK v \in Vendor : v = RequestVendor[r]
  BY RequestAssumption
<1>2. RupeesFinite'
  <2> SUFFICES ASSUME NEW w \in Vendor
               PROVE  IsFiniteSet(Rupees(PendingOf(w)'))
    BY DEF RupeesFinite, Rupees
  <2>1. IsFiniteSet(Rupees(PendingOf(w)))
    BY DEF AskInv, RupeesFinite
  <2>2. PendingOf(w)' = PendingOf(w) \/ (w = v /\ PendingOf(w)' = PendingOf(w) \cup {r})
    BY <1>1, CommitPending
  <2>3. w = v => r \notin PendingOf(w)
    BY <1>1, CommitPending
  <2> QED
    BY <2>1, <2>2, <2>3, OneMoreRequest
<1>3. AsksCovered'
  <2> SUFFICES ASSUME NEW q \in Request, q \notin crossed', Kind[q] = "Ask",
                      call'[q] \in {"reading", "ready"}
               PROVE  /\ call'[q] = "reading" => seen'[q] <= earnings'[RequestVendor[q]]
                      /\ call'[q] = "ready" =>
                            AlreadyPending(RequestVendor[q])' + RequestAmount[q]
                                <= earnings'[RequestVendor[q]]
    BY DEF AsksCovered
  <2>1. q # r /\ call'[q] = call[q] /\ seen'[q] = seen[q]
    BY DEF Commit, Step, IInv, TypeOK
  <2>2. q \notin crossed /\ RequestVendor[q] # v
    BY <1>1, <2>1 DEF Commit, Underway, Deducting
  <2>3. PICK w \in Vendor : w = RequestVendor[q]
    BY RequestAssumption
  <2>4. earnings'[w] = earnings[w]
    BY <1>1, <2>2, <2>3 DEF Commit, IInv, TypeOK
  <2>5. AlreadyPending(w)' = AlreadyPending(w)
    BY <1>1, <2>2, <2>3, CommitPending DEF AlreadyPending, Rupees
  <2> QED
    BY <2>1, <2>2, <2>3, <2>4, <2>5 DEF AskInv, AsksCovered
<1> QED
  BY <1>2, <1>3 DEF AskInv

\* AskInv is inductive.
LEMMA NextKeepsAsks ==
    ASSUME IInv, TypeOK', AskInv, [Next]_vars
    PROVE  AskInv'
<1>1. CASE UNCHANGED vars
  <2>1. \A v \in Vendor : earnings'[v] >= earnings[v]
    BY <1>1 DEF vars, IInv, TypeOK
  <2> QED
    BY <1>1, <2>1, AskFrame DEF vars, IInv
<1> QED
  BY <1>1, OthersKeepAsks, ReadsKeepAsks, CommitKeepsAsks DEF Next

\* A request that no commit has crossed fits when it is recorded.
LEMMA RecordedFits ==
    ASSUME IInv, AskInv, [Next]_vars, NEW r \in Request, r \notin crossed,
           Kind[r] = "Ask", payout[r] # payout'[r], payout'[r] = "PENDING"
    PROVE  AlreadyPending(RequestVendor[r])' <= earnings'[RequestVendor[r]]
<1>1. Commit(r)
  <2>1. ASSUME NEW a \in Admin, AdminWrite(a)
        PROVE  FALSE
    BY <2>1 DEF IInv, TypeOK, AdminWrite
  <2>2. ASSUME NEW q \in Request, Commit(q)
        PROVE  Commit(r)
    BY <2>2 DEF Commit, IInv, TypeOK
  <2> QED
    BY <2>1, <2>2 DEF Next, vars, CreateSettlement, Deliver, Mark, List, EndJob, JobDies, Finalize,
       FinalizeFails, FindTransfer, CheckDirect, ReadAsk, CheckAsk, ReadWithdraw, Refuse, AdminRead
<1>2. PICK v \in Vendor : v = RequestVendor[r]
  BY RequestAssumption
<1>3. AlreadyPending(v) + RequestAmount[r] <= earnings[v]
  BY <1>1, <1>2 DEF AskInv, AsksCovered, Commit
<1>4. earnings' = earnings
  BY <1>1, Zenon DEF Commit, Deducting
<1>5. PICK S : S = PendingOf(v)
  OBVIOUS
<1>6. r \notin S /\ PendingOf(v)' = S \cup {r} /\ IsFiniteSet(Rupees(S))
  BY <1>1, <1>2, <1>5, CommitPending DEF AskInv, RupeesFinite
<1>7. Cardinality(Rupees(S \cup {r})) = Cardinality(Rupees(S)) + RequestAmount[r]
  BY <1>6, OneMoreRequest
<1>8. AlreadyPending(v)' = Cardinality(Rupees(S \cup {r}))
  BY <1>6 DEF AlreadyPending, Rupees
<1> QED
  BY <1>2, <1>3, <1>4, <1>5, <1>7, <1>8 DEF AlreadyPending

\* The PENDING requests of a vendor fit into the earnings when one of them is
\* recorded, unless a call of the vendor has committed between its read and its
\* record: for any vendors, amounts and calls.
THEOREM NoOverAskingAlone == Spec => RequestsFitUnlessCrossed
<1>1. Init => AskInv
  <2> SUFFICES ASSUME Init PROVE AskInv
    OBVIOUS
  <2>1. \A v \in Vendor : Rupees(PendingOf(v)) = {}
    BY DEF Init, PendingOf, Rupees
  <2>2. RupeesFinite
    BY <2>1, FS_EmptySet DEF RupeesFinite
  <2>3. AsksCovered
    BY DEF Init, AsksCovered
  <2> QED
    BY <2>2, <2>3 DEF AskInv
<1>2. IInv => TypeOK
  BY DEF IInv
<1>3. IInv /\ TypeOK' /\ AskInv /\ [Next]_vars => AskInv'
  BY NextKeepsAsks
<1>4. IInv /\ AskInv /\ [Next]_vars =>
        [\A r \in Request \ crossed :
            Kind[r] = "Ask" /\ payout[r] # payout'[r] /\ payout'[r] = "PENDING"
                => AlreadyPending(RequestVendor[r])' <= earnings'[RequestVendor[r]]]_vars
  BY RecordedFits
<1> QED
  BY <1>1, <1>2, <1>3, <1>4, Invariance, PTL DEF Spec, RequestsFitUnlessCrossed
=============================================================================
