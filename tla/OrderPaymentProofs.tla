------------------------- MODULE OrderPaymentProofs -------------------------
(***************************************************************************)
(* Proofs about OrderPayment, for any orders, coins, Razorpay orders and   *)
(* calls, and any statuses the administrators may set: type correctness,   *)
(* that an order's stock and coins are taken once, that they are given     *)
(* back more often only by the overlaps that history names, that a payment *)
(* says SUCCESS only if it was made or an administrator said so, and that  *)
(* the key of a confirmation says "completed" only of what was confirmed.  *)
(***************************************************************************)
EXTENDS OrderPayment, TLAPS

-----------------------------------------------------------------------------
(* What leaves its variables alone preserves a conjunct of IInv.           *)

\* DeductedOnce depends on the status, its exits from Final and the deductions.
LEMMA DeductedFrame ==
    ASSUME DeductedOnce, UNCHANGED <<status, exits, taken>>
    PROVE  DeductedOnce'
BY DEF DeductedOnce

\* ChargedOnce depends on coinsUsedDebited and on what was charged and refunded.
LEMMA ChargedFrame ==
    ASSUME ChargedOnce, UNCHANGED <<debited, charged, refunded>>
    PROVE  ChargedOnce'
BY DEF ChargedOnce

\* PaidMeansCaptured survives any payment at Razorpay.
LEMMA PaidFrame ==
    ASSUME PaidMeansCaptured, UNCHANGED <<payment, payOrder, vouched>>, captured \subseteq captured'
    PROVE  PaidMeansCaptured'
BY DEF PaidMeansCaptured

\* EventsAreTrue survives any payment at Razorpay.
LEMMA EventsFrame ==
    ASSUME EventsAreTrue, UNCHANGED event, captured \subseteq captured'
    PROVE  EventsAreTrue'
BY DEF EventsAreTrue

\* Writing a status by id: leaving Final is counted in exits.
LEMMA SetStatusFacts ==
    ASSUME TypeOK, DeductedOnce, UNCHANGED taken,
           NEW o \in Order, NEW to \in Status, SetStatus(o, to)
    PROVE  /\ status' \in [Order -> Status] /\ exits' \in [Order -> Nat]
           /\ loose' \subseteq Order /\ DeductedOnce'
<1>1. status' \in [Order -> Status] /\ exits' \in [Order -> Nat] /\ loose' \subseteq Order
  BY DEF TypeOK, SetStatus
<1>2. ASSUME NEW x \in Order
      PROVE  taken'[x] <= exits'[x] + IF status'[x] \in Final THEN 1 ELSE 0
  <2>1. taken[x] \in Nat /\ exits[x] \in Nat
    BY DEF TypeOK
  <2>2. taken[x] <= exits[x] + IF status[x] \in Final THEN 1 ELSE 0
    BY DEF DeductedOnce
  <2>3. CASE x = o
    <3>1. status'[x] = to
      BY <2>3 DEF SetStatus, TypeOK
    <3>2. exits'[x] = exits[x] + IF status[x] \in Final /\ to \notin Final THEN 1 ELSE 0
      BY <2>3 DEF SetStatus, TypeOK
    <3> QED
      BY <2>1, <2>2, <3>1, <3>2
  <2>4. CASE x # o
    BY <2>1, <2>2, <2>4 DEF SetStatus, TypeOK
  <2> QED
    BY <2>3, <2>4
<1> QED
  BY <1>1, <1>2 DEF DeductedOnce

-----------------------------------------------------------------------------
(* confirmOrder                                                            *)

\* confirmOrder's first look at the Redis flag preserves IInv.
LEMMA ConfirmCheckKeeps ==
    ASSUME IInv, NEW c \in ConfirmCall, ConfirmCheck(c)
    PROVE  IInv'
<1>1. TypeOK'
  BY DEF IInv, TypeOK, ConfirmCheck, Goto, Call, Where, orderVars, payVars,
     gateway, local, history
<1>2. DeductedOnce'
  BY DeductedFrame DEF ConfirmCheck, IInv, orderVars, history
<1>3. ChargedOnce'
  BY ChargedFrame DEF ConfirmCheck, IInv, orderVars, history
<1>4. PaidMeansCaptured'
  BY PaidFrame DEF ConfirmCheck, IInv, payVars, gateway
<1>5. EventsAreTrue'
  BY EventsFrame DEF ConfirmCheck, IInv, gateway, local
<1> QED
  BY <1>1, <1>2, <1>3, <1>4, <1>5 DEF IInv

\* confirmOrder's setting of the flag preserves IInv.
LEMMA ConfirmSetKeeps ==
    ASSUME IInv, NEW c \in ConfirmCall, ConfirmSet(c)
    PROVE  IInv'
<1>1. TypeOK'
  BY DEF IInv, TypeOK, ConfirmSet, Goto, Call, Where, orderVars, payVars,
     gateway, local, history
<1>2. DeductedOnce'
  BY DeductedFrame DEF ConfirmSet, IInv, orderVars, history
<1>3. ChargedOnce'
  BY ChargedFrame DEF ConfirmSet, IInv, orderVars, history
<1>4. PaidMeansCaptured'
  BY PaidFrame DEF ConfirmSet, IInv, payVars, gateway
<1>5. EventsAreTrue'
  BY EventsFrame DEF ConfirmSet, IInv, gateway, local
<1> QED
  BY <1>1, <1>2, <1>3, <1>4, <1>5 DEF IInv

\* processConfirmOrder's read preserves IInv.
LEMMA ConfirmReadKeeps ==
    ASSUME IInv, NEW c \in ConfirmCall, ConfirmRead(c)
    PROVE  IInv'
<1>1. TypeOK'
  BY DEF IInv, TypeOK, ConfirmRead, Goto, Call, Where, orderVars, payVars,
     gateway, history
<1>2. DeductedOnce'
  BY DeductedFrame DEF ConfirmRead, IInv, orderVars, history
<1>3. ChargedOnce'
  BY ChargedFrame DEF ConfirmRead, IInv, orderVars, history
<1>4. PaidMeansCaptured'
  BY PaidFrame DEF ConfirmRead, IInv, payVars, gateway
<1>5. EventsAreTrue'
  BY EventsFrame DEF ConfirmRead, IInv, gateway
<1> QED
  BY <1>1, <1>2, <1>3, <1>4, <1>5 DEF IInv

\* ConfirmTx order by order.
LEMMA ConfirmTxFacts ==
    ASSUME TypeOK, NEW c \in ConfirmCall, ConfirmTx(c), NEW o \in Order
    PROVE  /\ \/ o \in found[c] /\ status[o] \notin Final
                 /\ status'[o] = "CONFIRMED" /\ taken'[o] = taken[o] + 1
              \/ status'[o] = status[o] /\ taken'[o] = taken[o]
           /\ \/ ~debited[o] /\ debited'[o] = TRUE /\ charged'[o] = charged[o] + 1
              \/ debited'[o] = debited[o] /\ charged'[o] = charged[o]
<1>1. status'[o] = (IF o \in found[c] /\ status[o] \notin Final THEN "CONFIRMED" ELSE status[o])
  BY DEF ConfirmTx
<1>2. taken'[o] = (IF o \in found[c] /\ status[o] \notin Final THEN taken[o] + 1 ELSE taken[o])
  BY DEF ConfirmTx
<1> DEFINE owed == o \in found[c] /\ status[o] \notin Final /\ CoinsUsed[o] > 0 /\ ~debited[o]
<1>3. debited'[o] = (owed \/ debited[o])
  BY Zenon DEF ConfirmTx
<1>4. charged'[o] = (IF owed THEN charged[o] + 1 ELSE charged[o])
  BY DEF ConfirmTx
<1>5. debited[o] \in BOOLEAN
  BY DEF TypeOK
<1>6. \/ ~debited[o] /\ debited'[o] = TRUE /\ charged'[o] = charged[o] + 1
      \/ debited'[o] = debited[o] /\ charged'[o] = charged[o]
  <2>1. CASE owed
    BY <1>3, <1>4, <1>5, <2>1
  <2>2. CASE ~owed
    BY <1>3, <1>4, <1>5, <2>2
  <2> QED
    BY <2>1, <2>2
<1> QED
  BY <1>1, <1>2, <1>6

\* The confirming transaction preserves IInv: an order it deducts becomes final.
LEMMA ConfirmTxKeeps ==
    ASSUME IInv, NEW c \in ConfirmCall, ConfirmTx(c)
    PROVE  IInv'
<1>1. TypeOK'
  <2>1. status' \in [Order -> Status] /\ taken' \in [Order -> Nat]
    BY DEF IInv, TypeOK, ConfirmTx, Status
  <2>2. charged' \in [Order -> Nat]
    BY DEF IInv, TypeOK, ConfirmTx
  <2>3. debited' \in [Order -> BOOLEAN]
    BY DEF ConfirmTx
  <2>4. at' \in [Call -> Where]
    BY DEF IInv, TypeOK, ConfirmTx, Goto, Call, Where
  <2> QED
    BY <2>1, <2>2, <2>3, <2>4 DEF IInv, TypeOK, ConfirmTx, payVars, gateway,
       local
<1>2. DeductedOnce'
  <2> SUFFICES ASSUME NEW o \in Order
               PROVE  taken'[o] <= exits'[o] + IF status'[o] \in Final THEN 1 ELSE 0
    BY DEF DeductedOnce
  <2>1. taken[o] \in Nat /\ exits[o] \in Nat /\ exits'[o] = exits[o]
    BY DEF IInv, TypeOK, ConfirmTx
  <2>2. taken[o] <= exits[o] + IF status[o] \in Final THEN 1 ELSE 0
    BY DEF IInv, DeductedOnce
  <2>3. \/ status[o] \notin Final /\ status'[o] = "CONFIRMED" /\ taken'[o] = taken[o] + 1
        \/ status'[o] = status[o] /\ taken'[o] = taken[o]
    BY ConfirmTxFacts DEF IInv
  <2> QED
    BY <2>1, <2>2, <2>3 DEF Final
<1>3. ChargedOnce'
  <2> SUFFICES ASSUME NEW o \in Order
               PROVE  charged'[o] <= refunded'[o] + IF debited'[o] THEN 1 ELSE 0
    BY DEF ChargedOnce
  <2>1. charged[o] \in Nat /\ refunded[o] \in Nat /\ refunded'[o] = refunded[o]
    BY DEF IInv, TypeOK, ConfirmTx
  <2>2. charged[o] <= refunded[o] + IF debited[o] THEN 1 ELSE 0
    BY DEF IInv, ChargedOnce
  <2>3. CASE ~debited[o] /\ debited'[o] = TRUE /\ charged'[o] = charged[o] + 1
    BY <2>1, <2>2, <2>3
  <2>4. CASE debited'[o] = debited[o] /\ charged'[o] = charged[o]
    BY <2>1, <2>2, <2>4
  <2> QED
    BY <2>3, <2>4, ConfirmTxFacts DEF IInv
<1>4. PaidMeansCaptured'
  BY PaidFrame DEF ConfirmTx, IInv, payVars, gateway
<1>5. EventsAreTrue'
  BY EventsFrame DEF ConfirmTx, IInv, gateway, local
<1> QED
  BY <1>1, <1>2, <1>3, <1>4, <1>5 DEF IInv

\* A confirmation that is rolled back preserves IInv.
LEMMA ConfirmAbortKeeps ==
    ASSUME IInv, NEW c \in ConfirmCall, ConfirmAbort(c)
    PROVE  IInv'
<1>1. TypeOK'
  BY DEF IInv, TypeOK, ConfirmAbort, Goto, Call, Where, orderVars, payVars,
     gateway, local, history
<1>2. DeductedOnce'
  BY DeductedFrame DEF ConfirmAbort, IInv, orderVars, history
<1>3. ChargedOnce'
  BY ChargedFrame DEF ConfirmAbort, IInv, orderVars, history
<1>4. PaidMeansCaptured'
  BY PaidFrame DEF ConfirmAbort, IInv, payVars, gateway
<1>5. EventsAreTrue'
  BY EventsFrame DEF ConfirmAbort, IInv, gateway, local
<1> QED
  BY <1>1, <1>2, <1>3, <1>4, <1>5 DEF IInv

\* Setting the flag to completed preserves IInv.
LEMMA ConfirmCompleteKeeps ==
    ASSUME IInv, NEW c \in ConfirmCall, ConfirmComplete(c)
    PROVE  IInv'
<1>1. TypeOK'
  BY DEF IInv, TypeOK, ConfirmComplete, Goto, Call, Where, orderVars, payVars,
     gateway, local, history
<1>2. DeductedOnce'
  BY DeductedFrame DEF ConfirmComplete, IInv, orderVars, history
<1>3. ChargedOnce'
  BY ChargedFrame DEF ConfirmComplete, IInv, orderVars, history
<1>4. PaidMeansCaptured'
  BY PaidFrame DEF ConfirmComplete, IInv, payVars, gateway
<1>5. EventsAreTrue'
  BY EventsFrame DEF ConfirmComplete, IInv, gateway, local
<1> QED
  BY <1>1, <1>2, <1>3, <1>4, <1>5 DEF IInv

\* The catch of confirmOrder, which deletes the flag, preserves IInv.
LEMMA ConfirmClearKeeps ==
    ASSUME IInv, NEW c \in ConfirmCall, ConfirmClear(c)
    PROVE  IInv'
<1>1. TypeOK'
  BY DEF IInv, TypeOK, ConfirmClear, Goto, Call, Where, orderVars, payVars,
     gateway, local, history
<1>2. DeductedOnce'
  BY DeductedFrame DEF ConfirmClear, IInv, orderVars, history
<1>3. ChargedOnce'
  BY ChargedFrame DEF ConfirmClear, IInv, orderVars, history
<1>4. PaidMeansCaptured'
  BY PaidFrame DEF ConfirmClear, IInv, payVars, gateway
<1>5. EventsAreTrue'
  BY EventsFrame DEF ConfirmClear, IInv, gateway, local
<1> QED
  BY <1>1, <1>2, <1>3, <1>4, <1>5 DEF IInv

\* The end of a flag's time to live preserves IInv.
LEMMA FlagExpiresKeeps ==
    ASSUME IInv, NEW p \in Provider, FlagExpires(p)
    PROVE  IInv'
<1>1. TypeOK'
  BY DEF IInv, TypeOK, FlagExpires, orderVars, payVars, gateway, local, history
<1>2. DeductedOnce'
  BY DeductedFrame DEF FlagExpires, IInv, orderVars, history
<1>3. ChargedOnce'
  BY ChargedFrame DEF FlagExpires, IInv, orderVars, history
<1>4. PaidMeansCaptured'
  BY PaidFrame DEF FlagExpires, IInv, payVars, gateway
<1>5. EventsAreTrue'
  BY EventsFrame DEF FlagExpires, IInv, gateway, local
<1> QED
  BY <1>1, <1>2, <1>3, <1>4, <1>5 DEF IInv

-----------------------------------------------------------------------------
(* Cancellation and status changes                                         *)

\* cancelOrder's read preserves IInv.
LEMMA CancelReadKeeps ==
    ASSUME IInv, NEW k \in CancelCall, CancelRead(k)
    PROVE  IInv'
<1>1. TypeOK'
  BY CallAssumption DEF IInv, TypeOK, CancelRead, Goto, Call, Where,
     orderVars, payVars, gateway, history
<1>2. DeductedOnce'
  BY DeductedFrame DEF CancelRead, IInv, orderVars, history
<1>3. ChargedOnce'
  BY ChargedFrame DEF CancelRead, IInv, orderVars, history
<1>4. PaidMeansCaptured'
  BY PaidFrame DEF CancelRead, IInv, payVars, gateway
<1>5. EventsAreTrue'
  BY EventsFrame DEF CancelRead, IInv, gateway
<1> QED
  BY <1>1, <1>2, <1>3, <1>4, <1>5 DEF IInv

\* cancelOrder's transaction preserves IInv, though it acts on an old read.
LEMMA CancelTxKeeps ==
    ASSUME IInv, NEW k \in CancelCall, CancelTx(k)
    PROVE  IInv'
<1>1. TypeOK'
  <2>1. Target[k] \in Order /\ taken' = taken /\ SetStatus(Target[k], "CANCELLED")
    BY CallAssumption DEF CancelTx
  <2>2. status' \in [Order -> Status] /\ exits' \in [Order -> Nat] /\ loose' \subseteq Order
    BY <2>1, SetStatusFacts DEF IInv, Status
  <2>3. debited' \in [Order -> BOOLEAN]
    BY <2>1 DEF IInv, TypeOK, CancelTx
  <2>4. refunded' \in [Order -> Nat]
    BY <2>1 DEF IInv, TypeOK, CancelTx
  <2>5. payment' \in [Order -> PaymentStatus \cup {"none"}]
    BY <2>1 DEF IInv, TypeOK, CancelTx, PaymentStatus
  <2>6. at' \in [Call -> Where]
    BY DEF IInv, TypeOK, CancelTx, Goto, Call, Where
  <2>7. overtaken' \subseteq CancelCall
    BY DEF IInv, TypeOK, CancelTx, RefundersOf
  <2> QED
    BY <2>2, <2>3, <2>4, <2>5, <2>6, <2>7 DEF IInv, TypeOK, CancelTx, gateway, local
<1>2. DeductedOnce'
  <2>1. Target[k] \in Order /\ taken' = taken /\ SetStatus(Target[k], "CANCELLED")
    BY CallAssumption DEF CancelTx
  <2> QED
    BY <2>1, SetStatusFacts DEF IInv, Status
<1>3. ChargedOnce'
  <2> DEFINE t == Target[k]
             refund == seen[k].debited /\ CoinsUsed[t] > 0
  <2> SUFFICES ASSUME NEW o \in Order
               PROVE  charged'[o] <= refunded'[o] + IF debited'[o] THEN 1 ELSE 0
    BY DEF ChargedOnce
  <2>1. charged[o] \in Nat /\ refunded[o] \in Nat /\ charged'[o] = charged[o]
    BY DEF IInv, TypeOK, CancelTx
  <2>2. charged[o] <= refunded[o] + IF debited[o] THEN 1 ELSE 0
    BY DEF IInv, ChargedOnce
  <2>3. refunded'[o] = refunded[o] + (IF o = t /\ refund THEN 1 ELSE 0)
    BY <2>1 DEF IInv, TypeOK, CancelTx
  <2>4. CASE o = t /\ refund
    BY <2>1, <2>2, <2>3, <2>4
  <2>5. CASE ~(o = t /\ refund)
    <3>1. debited'[o] = debited[o]
      BY <2>5 DEF IInv, TypeOK, CancelTx
    <3> QED
      BY <2>1, <2>2, <2>3, <2>5, <3>1
  <2> QED
    BY <2>4, <2>5
<1>4. PaidMeansCaptured'
  <2>1. \A o \in Order : payment'[o] = "SUCCESS" => payment[o] = "SUCCESS"
    BY DEF IInv, TypeOK, CancelTx
  <2> QED
    BY <2>1 DEF IInv, PaidMeansCaptured, CancelTx, gateway
<1>5. EventsAreTrue'
  BY EventsFrame DEF CancelTx, IInv, gateway, local
<1> QED
  BY <1>1, <1>2, <1>3, <1>4, <1>5 DEF IInv

\* The vendor's check of the status preserves IInv.
LEMMA VendorReadKeeps ==
    ASSUME IInv, NEW v \in VendorCall, VendorRead(v)
    PROVE  IInv'
<1>1. TypeOK'
  BY CallAssumption DEF IInv, TypeOK, VendorRead, Goto, Call, Where, payVars,
     gateway, local, history
<1>2. DeductedOnce'
  BY DeductedFrame DEF VendorRead, IInv, history
<1>3. ChargedOnce'
  BY ChargedFrame DEF VendorRead, IInv, history
<1>4. PaidMeansCaptured'
  BY PaidFrame DEF VendorRead, IInv, payVars, gateway
<1>5. EventsAreTrue'
  BY EventsFrame DEF VendorRead, IInv, gateway, local
<1> QED
  BY <1>1, <1>2, <1>3, <1>4, <1>5 DEF IInv

\* The vendor's restoring of stock preserves IInv.
LEMMA VendorRestoreKeeps ==
    ASSUME IInv, NEW v \in VendorCall, VendorRestore(v)
    PROVE  IInv'
<1>1. TypeOK'
  BY CallAssumption DEF IInv, TypeOK, VendorRestore, Goto, Call, Where,
     orderVars, payVars, gateway, local
<1>2. DeductedOnce'
  BY DeductedFrame DEF VendorRestore, IInv, orderVars
<1>3. ChargedOnce'
  BY ChargedFrame DEF VendorRestore, IInv, orderVars
<1>4. PaidMeansCaptured'
  BY PaidFrame DEF VendorRestore, IInv, payVars, gateway
<1>5. EventsAreTrue'
  BY EventsFrame DEF VendorRestore, IInv, gateway, local
<1> QED
  BY <1>1, <1>2, <1>3, <1>4, <1>5 DEF IInv

\* The vendor's cancellation preserves IInv.
LEMMA VendorCancelKeeps ==
    ASSUME IInv, NEW v \in VendorCall, VendorCancel(v)
    PROVE  IInv'
<1>1. TypeOK'
  <2>1. Target[v] \in Order /\ "CANCELLED" \in Status /\ taken' = taken /\ SetStatus(Target[v], "CANCELLED")
    BY CallAssumption DEF VendorCancel, IInv, TypeOK, Status, history
  <2>2. status' \in [Order -> Status] /\ exits' \in [Order -> Nat] /\ loose' \subseteq Order
    BY <2>1, SetStatusFacts DEF IInv
  <2> QED
    BY <2>2 DEF IInv, TypeOK, VendorCancel, Goto, Call, Where, payVars,
       gateway, local, history
<1>2. DeductedOnce'
  <2>1. Target[v] \in Order /\ "CANCELLED" \in Status /\ taken' = taken /\ SetStatus(Target[v], "CANCELLED")
    BY CallAssumption DEF VendorCancel, IInv, TypeOK, Status, history
  <2> QED
    BY <2>1, SetStatusFacts DEF IInv
<1>3. ChargedOnce'
  BY ChargedFrame DEF VendorCancel, IInv, history
<1>4. PaidMeansCaptured'
  BY PaidFrame DEF VendorCancel, IInv, payVars, gateway
<1>5. EventsAreTrue'
  BY EventsFrame DEF VendorCancel, IInv, gateway, local
<1> QED
  BY <1>1, <1>2, <1>3, <1>4, <1>5 DEF IInv

\* The read and validation of a move preserve IInv.
LEMMA MoveReadKeeps ==
    ASSUME IInv, NEW m \in MoveCall, MoveRead(m)
    PROVE  IInv'
<1>1. TypeOK'
  <2>1. PICK to \in Moves(status[Target[m]]) : next' = [next EXCEPT ![m] = to]
    BY DEF MoveRead
  <2>2. to \in Status
    BY <2>1 DEF Moves, Status
  <2>3. next' \in [MoveCall -> Status]
    BY <2>1, <2>2 DEF IInv, TypeOK
  <2> QED
    BY <2>3 DEF IInv, TypeOK, MoveRead, Goto, Call, Where, orderVars, payVars,
       gateway, history
<1>2. DeductedOnce'
  BY DeductedFrame DEF MoveRead, IInv, orderVars, history
<1>3. ChargedOnce'
  BY ChargedFrame DEF MoveRead, IInv, orderVars, history
<1>4. PaidMeansCaptured'
  BY PaidFrame DEF MoveRead, IInv, payVars, gateway
<1>5. EventsAreTrue'
  BY EventsFrame DEF MoveRead, IInv, gateway
<1> QED
  BY <1>1, <1>2, <1>3, <1>4, <1>5 DEF IInv

\* The write of a move preserves IInv, whatever the status is by then.
LEMMA MoveWriteKeeps ==
    ASSUME IInv, NEW m \in MoveCall, MoveWrite(m)
    PROVE  IInv'
<1>1. TypeOK'
  <2>1. Target[m] \in Order /\ next[m] \in Status /\ taken' = taken /\ SetStatus(Target[m], next[m])
    BY CallAssumption DEF MoveWrite, IInv, TypeOK, Status, history
  <2>2. status' \in [Order -> Status] /\ exits' \in [Order -> Nat] /\ loose' \subseteq Order
    BY <2>1, SetStatusFacts DEF IInv
  <2> QED
    BY <2>2 DEF IInv, TypeOK, MoveWrite, Goto, Call, Where, payVars, gateway,
       local, history
<1>2. DeductedOnce'
  <2>1. Target[m] \in Order /\ next[m] \in Status /\ taken' = taken /\ SetStatus(Target[m], next[m])
    BY CallAssumption DEF MoveWrite, IInv, TypeOK, Status, history
  <2> QED
    BY <2>1, SetStatusFacts DEF IInv
<1>3. ChargedOnce'
  BY ChargedFrame DEF MoveWrite, IInv, history
<1>4. PaidMeansCaptured'
  BY PaidFrame DEF MoveWrite, IInv, payVars, gateway
<1>5. EventsAreTrue'
  BY EventsFrame DEF MoveWrite, IInv, gateway, local
<1> QED
  BY <1>1, <1>2, <1>3, <1>4, <1>5 DEF IInv

\* An administrator's override of the status preserves IInv.
LEMMA AdminMoveKeeps ==
    ASSUME IInv, NEW o \in Order, NEW to \in AdminTargets, AdminMove(o, to)
    PROVE  IInv'
<1>1. TypeOK'
  <2>1. o \in Order /\ to \in Status /\ taken' = taken /\ SetStatus(o, to)
    BY OrderAssumption DEF AdminMove, IInv, TypeOK, Status, history
  <2>2. status' \in [Order -> Status] /\ exits' \in [Order -> Nat] /\ loose' \subseteq Order
    BY <2>1, SetStatusFacts DEF IInv
  <2> QED
    BY <2>2 DEF IInv, TypeOK, AdminMove, payVars, gateway, local, history
<1>2. DeductedOnce'
  <2>1. o \in Order /\ to \in Status /\ taken' = taken /\ SetStatus(o, to)
    BY OrderAssumption DEF AdminMove, IInv, TypeOK, Status, history
  <2> QED
    BY <2>1, SetStatusFacts DEF IInv
<1>3. ChargedOnce'
  BY ChargedFrame DEF AdminMove, IInv, history
<1>4. PaidMeansCaptured'
  BY PaidFrame DEF AdminMove, IInv, payVars, gateway
<1>5. EventsAreTrue'
  BY EventsFrame DEF AdminMove, IInv, gateway, local
<1> QED
  BY <1>1, <1>2, <1>3, <1>4, <1>5 DEF IInv

\* The read of updatePaymentStatus preserves IInv.
LEMMA AdminReadKeeps ==
    ASSUME IInv, NEW a \in AdminCall, AdminRead(a)
    PROVE  IInv'
<1>1. TypeOK'
  <2>1. PICK to \in PaymentStatus :
            asked' = [asked EXCEPT ![a] = [to |-> to, row |-> payment[Target[a]] # "none",
                                           pending |-> status[Target[a]] = "PENDING"]]
    BY DEF AdminRead
  <2> DEFINE question == [to |-> to, row |-> payment[Target[a]] # "none",
                          pending |-> status[Target[a]] = "PENDING"]
  <2>2. question \in [to : PaymentStatus \cup {"none"}, row : BOOLEAN, pending : BOOLEAN]
    BY DEF PaymentStatus
  <2>3. asked' \in [AdminCall -> [to : PaymentStatus \cup {"none"}, row : BOOLEAN, pending : BOOLEAN]]
    BY <2>1, <2>2 DEF IInv, TypeOK
  <2> QED
    BY <2>3 DEF IInv, TypeOK, AdminRead, Goto, Call, Where, orderVars,
       payVars, gateway, history
<1>2. DeductedOnce'
  BY DeductedFrame DEF AdminRead, IInv, orderVars, history
<1>3. ChargedOnce'
  BY ChargedFrame DEF AdminRead, IInv, orderVars, history
<1>4. PaidMeansCaptured'
  BY PaidFrame DEF AdminRead, IInv, payVars, gateway
<1>5. EventsAreTrue'
  BY EventsFrame DEF AdminRead, IInv, gateway
<1> QED
  BY <1>1, <1>2, <1>3, <1>4, <1>5 DEF IInv

\* The write of updatePaymentStatus preserves IInv: a SUCCESS it writes is vouched for.
LEMMA AdminWriteKeeps ==
    ASSUME IInv, NEW a \in AdminCall, AdminWrite(a)
    PROVE  IInv'
<1>1. TypeOK'
  <2>1. Target[a] \in Order /\ asked[a].to \in PaymentStatus \cup {"none"}
    BY CallAssumption DEF IInv, TypeOK
  <2>2. status' \in [Order -> Status]
    BY <2>1 DEF IInv, TypeOK, AdminWrite, Status
  <2>3. payment' \in [Order -> PaymentStatus \cup {"none"}]
    <3>1. payment' = payment \/ payment' = [payment EXCEPT ![Target[a]] = asked[a].to]
      BY DEF AdminWrite
    <3> QED
      BY <2>1, <3>1 DEF IInv, TypeOK
  <2>4. vouched' \subseteq Order /\ loose' \subseteq Order
    BY <2>1 DEF IInv, TypeOK, AdminWrite
  <2> QED
    BY <2>2, <2>3, <2>4 DEF IInv, TypeOK, AdminWrite, Goto, Call, Where,
       gateway, local, history
<1>2. DeductedOnce'
  <2> SUFFICES ASSUME NEW o \in Order
               PROVE  taken'[o] <= exits'[o] + IF status'[o] \in Final THEN 1 ELSE 0
    BY DEF DeductedOnce
  <2>1. taken[o] \in Nat /\ exits[o] \in Nat /\ taken'[o] = taken[o] /\ exits'[o] = exits[o]
    BY DEF IInv, TypeOK, AdminWrite, history
  <2>2. taken[o] <= exits[o] + IF status[o] \in Final THEN 1 ELSE 0
    BY DEF IInv, DeductedOnce
  <2>3. status'[o] = status[o] \/ status'[o] = "CONFIRMED"
    BY DEF IInv, TypeOK, AdminWrite
  <2> QED
    BY <2>1, <2>2, <2>3 DEF Final
<1>3. ChargedOnce'
  BY ChargedFrame DEF AdminWrite, IInv, history
<1>4. PaidMeansCaptured'
  <2> SUFFICES ASSUME NEW o \in Order, payment'[o] = "SUCCESS"
               PROVE  payOrder'[o] \in captured' \/ o \in vouched'
    BY DEF PaidMeansCaptured
  <2>1. payment[o] = "SUCCESS" \/ o \in vouched'
    BY DEF IInv, TypeOK, AdminWrite
  <2>2. vouched \subseteq vouched' /\ captured' = captured /\ payOrder' = payOrder
    BY DEF AdminWrite, gateway
  <2> QED
    BY <2>1, <2>2 DEF IInv, PaidMeansCaptured
<1>5. EventsAreTrue'
  BY EventsFrame DEF AdminWrite, IInv, gateway, local
<1> QED
  BY <1>1, <1>2, <1>3, <1>4, <1>5 DEF IInv

-----------------------------------------------------------------------------
(* Payments                                                                *)

\* createOrder's check of the payment preserves IInv.
LEMMA PayReadKeeps ==
    ASSUME IInv, NEW c \in PayCall, PayRead(c)
    PROVE  IInv'
<1>1. TypeOK'
  BY DEF IInv, TypeOK, PayRead, Goto, Call, Where, orderVars, payVars,
     gateway, local, history
<1>2. DeductedOnce'
  BY DeductedFrame DEF PayRead, IInv, orderVars, history
<1>3. ChargedOnce'
  BY ChargedFrame DEF PayRead, IInv, orderVars, history
<1>4. PaidMeansCaptured'
  BY PaidFrame DEF PayRead, IInv, payVars, gateway
<1>5. EventsAreTrue'
  BY EventsFrame DEF PayRead, IInv, gateway, local
<1> QED
  BY <1>1, <1>2, <1>3, <1>4, <1>5 DEF IInv

\* createOrder's upsert preserves IInv: with the new Razorpay order goes PENDING.
LEMMA PayUpsertKeeps ==
    ASSUME IInv, NEW c \in PayCall, PayUpsert(c)
    PROVE  IInv'
<1>1. TypeOK'
  <2>1. Target[c] \in Order /\ c \in Provider
    BY CallAssumption, OrderAssumption
  <2> QED
    BY <2>1 DEF IInv, TypeOK, PayUpsert, Goto, Call, Where, PaymentStatus,
       orderVars, gateway, local, history
<1>2. DeductedOnce'
  BY DeductedFrame DEF PayUpsert, IInv, orderVars, history
<1>3. ChargedOnce'
  BY ChargedFrame DEF PayUpsert, IInv, orderVars, history
<1>4. PaidMeansCaptured'
  <2>1. \A o \in Order : payment'[o] = "SUCCESS" => payment[o] = "SUCCESS" /\ payOrder'[o] = payOrder[o]
    BY DEF IInv, TypeOK, PayUpsert
  <2> QED
    BY <2>1 DEF IInv, PaidMeansCaptured, PayUpsert, gateway
<1>5. EventsAreTrue'
  BY EventsFrame DEF PayUpsert, IInv, gateway, local
<1> QED
  BY <1>1, <1>2, <1>3, <1>4, <1>5 DEF IInv

\* Linking the new Razorpay order preserves IInv.
LEMMA PayLinkKeeps ==
    ASSUME IInv, NEW c \in PayCall, PayLink(c)
    PROVE  IInv'
<1>1. TypeOK'
  <2>1. Target[c] \in Order /\ c \in Provider
    BY CallAssumption, OrderAssumption
  <2> QED
    BY <2>1 DEF IInv, TypeOK, PayLink, Goto, Call, Where, payVars, gateway,
       local, history
<1>2. DeductedOnce'
  BY DeductedFrame DEF PayLink, IInv, history
<1>3. ChargedOnce'
  BY ChargedFrame DEF PayLink, IInv, history
<1>4. PaidMeansCaptured'
  BY PaidFrame DEF PayLink, IInv, payVars, gateway
<1>5. EventsAreTrue'
  BY EventsFrame DEF PayLink, IInv, gateway, local
<1> QED
  BY <1>1, <1>2, <1>3, <1>4, <1>5 DEF IInv

\* A createOrder that fails preserves IInv.
LEMMA PayFailsKeeps ==
    ASSUME IInv, NEW c \in PayCall, PayFails(c)
    PROVE  IInv'
<1>1. TypeOK'
  BY DEF IInv, TypeOK, PayFails, Goto, Call, Where, orderVars, payVars,
     gateway, local, history
<1>2. DeductedOnce'
  BY DeductedFrame DEF PayFails, IInv, orderVars, history
<1>3. ChargedOnce'
  BY ChargedFrame DEF PayFails, IInv, orderVars, history
<1>4. PaidMeansCaptured'
  BY PaidFrame DEF PayFails, IInv, payVars, gateway
<1>5. EventsAreTrue'
  BY EventsFrame DEF PayFails, IInv, gateway, local
<1> QED
  BY <1>1, <1>2, <1>3, <1>4, <1>5 DEF IInv

\* A payment by the customer preserves IInv.
LEMMA CaptureKeeps ==
    ASSUME IInv, NEW p \in Provider, Capture(p)
    PROVE  IInv'
<1>1. TypeOK'
  BY DEF IInv, TypeOK, Capture, orderVars, payVars, local, history
<1>2. DeductedOnce'
  BY DeductedFrame DEF Capture, IInv, orderVars, history
<1>3. ChargedOnce'
  BY ChargedFrame DEF Capture, IInv, orderVars, history
<1>4. PaidMeansCaptured'
  BY PaidFrame DEF Capture, IInv, payVars
<1>5. EventsAreTrue'
  BY EventsFrame DEF Capture, IInv, local
<1> QED
  BY <1>1, <1>2, <1>3, <1>4, <1>5 DEF IInv

\* A failed attempt to pay preserves IInv.
LEMMA AttemptFailsKeeps ==
    ASSUME IInv, NEW p \in Provider, AttemptFails(p)
    PROVE  IInv'
<1>1. TypeOK'
  BY DEF IInv, TypeOK, AttemptFails, orderVars, payVars, local, history
<1>2. DeductedOnce'
  BY DeductedFrame DEF AttemptFails, IInv, orderVars, history
<1>3. ChargedOnce'
  BY ChargedFrame DEF AttemptFails, IInv, orderVars, history
<1>4. PaidMeansCaptured'
  BY PaidFrame DEF AttemptFails, IInv, payVars
<1>5. EventsAreTrue'
  BY EventsFrame DEF AttemptFails, IInv, local
<1> QED
  BY <1>1, <1>2, <1>3, <1>4, <1>5 DEF IInv

\* The read of a webhook or of verifyPayment preserves IInv.
LEMMA HandleReadKeeps ==
    ASSUME IInv, NEW w \in Worker, NEW e \in Event, HandleRead(w, e)
    PROVE  IInv'
<1>1. TypeOK'
  BY DEF IInv, TypeOK, HandleRead, orderVars, payVars, history, Acknowledge
<1>2. DeductedOnce'
  BY DeductedFrame DEF HandleRead, IInv, orderVars, history
<1>3. ChargedOnce'
  BY ChargedFrame DEF HandleRead, IInv, orderVars, history
<1>4. PaidMeansCaptured'
  BY PaidFrame DEF HandleRead, IInv, payVars
<1>5. EventsAreTrue'
  <2> SUFFICES ASSUME NEW x \in Worker, event'[x].kind \in {"captured", "verify"}
               PROVE  event'[x].prov \in captured'
    BY DEF EventsAreTrue
  <2>1. captured' = captured /\ (event'[x] = event[x] \/ event'[x] = e)
    BY DEF IInv, TypeOK, HandleRead
  <2>2. e.kind \in {"captured", "verify"} => e.prov \in captured
    BY DEF HandleRead, Deliverable
  <2> QED
    BY <2>1, <2>2 DEF IInv, EventsAreTrue
<1> QED
  BY <1>1, <1>2, <1>3, <1>4, <1>5 DEF IInv

\* The update by a webhook or by verifyPayment preserves IInv: what it marks
\* paid names the Razorpay order of its event.
LEMMA HandleWriteKeeps ==
    ASSUME IInv, NEW w \in Worker, HandleWrite(w)
    PROVE  IInv'
<1>1. TypeOK'
  <2>1. payment' \in [Order -> PaymentStatus \cup {"none"}]
    BY DEF IInv, TypeOK, HandleWrite, PaymentStatus
  <2>2. unacked' \subseteq captured'
    BY DEF IInv, TypeOK, HandleWrite, Acknowledge
  <2>3. event' \in [Worker -> Event \cup {NoEvent}]
    BY DEF IInv, TypeOK, HandleWrite
  <2> QED
    BY <2>1, <2>2, <2>3 DEF IInv, TypeOK, HandleWrite, orderVars, history
<1>2. DeductedOnce'
  BY DeductedFrame DEF HandleWrite, IInv, orderVars, history
<1>3. ChargedOnce'
  BY ChargedFrame DEF HandleWrite, IInv, orderVars, history
<1>4. PaidMeansCaptured'
  <2> SUFFICES ASSUME NEW o \in Order, payment'[o] = "SUCCESS"
               PROVE  payOrder'[o] \in captured' \/ o \in vouched'
    BY DEF PaidMeansCaptured
  <2>1. captured' = captured /\ payOrder' = payOrder /\ vouched' = vouched
    BY DEF HandleWrite
  <2>2. CASE payment[o] = "SUCCESS"
    BY <2>1, <2>2 DEF IInv, PaidMeansCaptured
  <2>3. CASE payment[o] # "SUCCESS"
    <3>1. payOrder[o] = event[w].prov /\ event[w].kind # "failed"
      BY <2>3 DEF HandleWrite
    <3>2. event[w] \in Event
      BY DEF IInv, TypeOK, HandleWrite
    <3> QED
      BY <2>1, <3>1, <3>2 DEF IInv, EventsAreTrue, Event
  <2> QED
    BY <2>2, <2>3
<1>5. EventsAreTrue'
  <2>1. \A x \in Worker : event'[x] = event[x] \/ event'[x] = NoEvent
    BY DEF IInv, TypeOK, HandleWrite
  <2> QED
    BY <2>1 DEF IInv, EventsAreTrue, NoEvent, HandleWrite
<1> QED
  BY <1>1, <1>2, <1>3, <1>4, <1>5 DEF IInv

\* A webhook whose read fails preserves IInv.
LEMMA WebhookMisreadsKeeps ==
    ASSUME IInv, NEW e \in Event, WebhookMisreads(e)
    PROVE  IInv'
<1>1. TypeOK'
  BY DEF IInv, TypeOK, WebhookMisreads, orderVars, payVars, local, history,
     Acknowledge
<1>2. DeductedOnce'
  BY DeductedFrame DEF WebhookMisreads, IInv, orderVars, history
<1>3. ChargedOnce'
  BY ChargedFrame DEF WebhookMisreads, IInv, orderVars, history
<1>4. PaidMeansCaptured'
  BY PaidFrame DEF WebhookMisreads, IInv, payVars
<1>5. EventsAreTrue'
  BY EventsFrame DEF WebhookMisreads, IInv, local
<1> QED
  BY <1>1, <1>2, <1>3, <1>4, <1>5 DEF IInv

\* The crash of a call preserves IInv.
LEMMA CrashKeeps ==
    ASSUME IInv, NEW c \in Call, Crash(c)
    PROVE  IInv'
<1>1. TypeOK'
  BY CallAssumption DEF IInv, TypeOK, Crash, Goto, Call, Where, payVars, gateway,
     local, history
<1>2. DeductedOnce'
  BY DeductedFrame DEF Crash, IInv, history
<1>3. ChargedOnce'
  BY ChargedFrame DEF Crash, IInv, history
<1>4. PaidMeansCaptured'
  BY PaidFrame DEF Crash, IInv, payVars, gateway
<1>5. EventsAreTrue'
  BY EventsFrame DEF Crash, IInv, gateway, local
<1> QED
  BY <1>1, <1>2, <1>3, <1>4, <1>5 DEF IInv

\* The crash of a webhook's handler preserves IInv.
LEMMA CrashWorkerKeeps ==
    ASSUME IInv, NEW w \in Worker, CrashWorker(w)
    PROVE  IInv'
<1>1. TypeOK'
  BY DEF IInv, TypeOK, CrashWorker, orderVars, payVars, gateway, history
<1>2. DeductedOnce'
  BY DeductedFrame DEF CrashWorker, IInv, orderVars, history
<1>3. ChargedOnce'
  BY ChargedFrame DEF CrashWorker, IInv, orderVars, history
<1>4. PaidMeansCaptured'
  BY PaidFrame DEF CrashWorker, IInv, payVars, gateway
<1>5. EventsAreTrue'
  <2>1. \A x \in Worker : event'[x] = event[x] \/ event'[x] = NoEvent
    BY DEF IInv, TypeOK, CrashWorker
  <2> QED
    BY <2>1 DEF IInv, EventsAreTrue, NoEvent, CrashWorker, gateway
<1> QED
  BY <1>1, <1>2, <1>3, <1>4, <1>5 DEF IInv

-----------------------------------------------------------------------------
(* The theorems                                                            *)

\* IInv holds of the orders as the checkout creates them.
LEMMA InitEstablishes ==
    ASSUME Init
    PROVE  IInv
<1>1. TypeOK
  BY OrderAssumption DEF Init, TypeOK, Status, PaymentStatus, Where, Zero,
     NoEvent, NoQuestion, Call
<1>2. DeductedOnce /\ ChargedOnce
  BY DEF Init, DeductedOnce, ChargedOnce, Zero
<1>3. PaidMeansCaptured
  BY DEF Init, PaidMeansCaptured
<1>4. EventsAreTrue
  BY DEF Init, EventsAreTrue, NoEvent
<1> QED
  BY <1>1, <1>2, <1>3, <1>4 DEF IInv

\* A step that changes nothing preserves IInv.
LEMMA StutterKeeps ==
    ASSUME IInv, UNCHANGED vars
    PROVE  IInv'
BY DEF IInv, vars, TypeOK, DeductedOnce, ChargedOnce, PaidMeansCaptured,
   EventsAreTrue

\* IInv is inductive: one case for each call, and for the environment.
LEMMA NextKeeps ==
    ASSUME IInv, Next
    PROVE  IInv'
<1>1. ASSUME NEW c \in ConfirmCall, Confirm(c) PROVE IInv'
  BY <1>1, ConfirmCheckKeeps, ConfirmSetKeeps, ConfirmReadKeeps, ConfirmTxKeeps,
     ConfirmAbortKeeps, ConfirmCompleteKeeps, ConfirmClearKeeps DEF Confirm
<1>2. ASSUME NEW k \in CancelCall, Cancel(k) PROVE IInv'
  BY <1>2, CancelReadKeeps, CancelTxKeeps DEF Cancel
<1>3. ASSUME NEW v \in VendorCall, VendorStep(v) PROVE IInv'
  BY <1>3, VendorReadKeeps, VendorRestoreKeeps, VendorCancelKeeps DEF VendorStep
<1>4. ASSUME NEW m \in MoveCall, Move(m) PROVE IInv'
  BY <1>4, MoveReadKeeps, MoveWriteKeeps DEF Move
<1>5. ASSUME NEW c \in PayCall, Pay(c) PROVE IInv'
  BY <1>5, PayReadKeeps, PayUpsertKeeps, PayLinkKeeps, PayFailsKeeps DEF Pay
<1>6. ASSUME NEW w \in Worker, Handle(w) \/ CrashWorker(w) PROVE IInv'
  BY <1>6, HandleReadKeeps, HandleWriteKeeps, CrashWorkerKeeps DEF Handle
<1>7. ASSUME NEW a \in AdminCall, AdminPay(a) PROVE IInv'
  BY <1>7, AdminReadKeeps, AdminWriteKeeps DEF AdminPay
<1>8. ASSUME NEW o \in Order, NEW to \in AdminTargets, AdminMove(o, to) PROVE IInv'
  BY <1>8, AdminMoveKeeps
<1>9. ASSUME NEW e \in Event, WebhookMisreads(e) PROVE IInv'
  BY <1>9, WebhookMisreadsKeeps
<1>10. ASSUME NEW p \in Provider, Razorpay(p) \/ FlagExpires(p) PROVE IInv'
  BY <1>10, CaptureKeeps, AttemptFailsKeeps, FlagExpiresKeeps DEF Razorpay
<1>11. ASSUME NEW c \in Call, Crash(c) PROVE IInv'
  BY <1>11, CrashKeeps
<1> QED
  BY <1>1, <1>2, <1>3, <1>4, <1>5, <1>6, <1>7, <1>8, <1>9, <1>10, <1>11 DEF Next

\* The inductive invariant holds in every reachable state, whatever the orders,
\* the calls and the bounds.
THEOREM Invariance == Spec => []IInv
<1>1. Init => IInv
  BY InitEstablishes
<1>2. IInv /\ [Next]_vars => IInv'
  BY NextKeeps, StutterKeeps
<1> QED
  BY <1>1, <1>2, PTL DEF Spec

\* Every variable keeps its type: a payment row never holds 'PAID'.
THEOREM TypeCorrect == Spec => []TypeOK
<1>1. IInv => TypeOK
  BY DEF IInv
<1> QED
  BY <1>1, Invariance, PTL

\* confirmOrder deducts the stock of an order once for each time the order
\* becomes final, with any number of calls and crashes.
THEOREM StockDeductedOnce == Spec => []DeductedOnce
<1>1. IInv => DeductedOnce
  BY DEF IInv
<1> QED
  BY <1>1, Invariance, PTL

\* confirmOrder debits the coins of an order once for each time they were given
\* back.
THEOREM CoinsChargedOnce == Spec => []ChargedOnce
<1>1. IInv => ChargedOnce
  BY DEF IInv
<1> QED
  BY <1>1, Invariance, PTL

\* The webhook and verifyPayment never turn a payment to SUCCESS whose Razorpay
\* order was not paid.
THEOREM NoFalseSuccess == Spec => []PaidMeansCaptured
<1>1. IInv => PaidMeansCaptured
  BY DEF IInv
<1> QED
  BY <1>1, Invariance, PTL

-----------------------------------------------------------------------------
(* Coins that are given back.                                              *)

\* A step of one call leaves every other call where it is.
LEMMA OthersStay ==
    ASSUME TypeOK, NEW c \in Call, NEW l, Goto(c, l)
    PROVE  at'[c] = l /\ \A x \in Call : x # c => at'[x] = at[x]
BY DEF TypeOK, Goto

\* RefundInv survives a step that moves no coins and begins no cancellation.
LEMMA RefundFrame ==
    ASSUME RefundInv, UNCHANGED <<debited, charged, refunded, overtaken, seen>>,
           \A k \in CancelCall : at'[k] = at[k] \/ at'[k] # "tx"
    PROVE  RefundInv'
<1>1. CoinsBackTwiceOnlyByRace'
  BY DEF RefundInv, CoinsBackTwiceOnlyByRace
<1>2. DebitsStand'
  BY DEF RefundInv, DebitsStand
<1> QED
  BY <1>1, <1>2 DEF RefundInv

\* confirmOrder's other steps leave the cancellations alone.
LEMMA ConfirmLeavesRefund ==
    ASSUME TypeOK, RefundInv, NEW c \in ConfirmCall,
           \/ ConfirmCheck(c) \/ ConfirmSet(c) \/ ConfirmRead(c) \/ ConfirmAbort(c)
           \/ ConfirmComplete(c) \/ ConfirmClear(c)
    PROVE  RefundInv'
<1>1. UNCHANGED <<debited, charged, refunded, overtaken, seen>>
  BY DEF ConfirmCheck, ConfirmSet, ConfirmRead, ConfirmAbort, ConfirmComplete,
     ConfirmClear, orderVars, local, history
<1>2. PICK l : Goto(c, l)
  BY DEF ConfirmCheck, ConfirmSet, ConfirmRead, ConfirmAbort, ConfirmComplete, ConfirmClear
<1>3. \A k \in CancelCall : at'[k] = at[k]
  BY <1>2, OthersStay, CallsApart DEF Call
<1> QED
  BY <1>1, <1>3, RefundFrame

\* The confirming transaction debits the coins of an order that are not debited.
LEMMA ConfirmTxKeepsRefund ==
    ASSUME TypeOK, RefundInv, NEW c \in ConfirmCall, ConfirmTx(c)
    PROVE  RefundInv'
<1>1. UNCHANGED <<refunded, overtaken, seen>> /\ Goto(c, "complete")
  BY DEF ConfirmTx, local
<1>2. \A k \in CancelCall : at'[k] = at[k]
  BY <1>1, OthersStay, CallsApart DEF Call
<1>3. CoinsBackTwiceOnlyByRace'
  <2> SUFFICES ASSUME NEW o \in Order,
                      refunded'[o] + (IF debited'[o] THEN 1 ELSE 0) > charged'[o]
               PROVE  \E k \in overtaken' : Target[k] = o
    BY DEF CoinsBackTwiceOnlyByRace
  <2>1. refunded[o] \in Nat /\ charged[o] \in Nat
    BY DEF TypeOK
  <2>2. refunded[o] + (IF debited[o] THEN 1 ELSE 0) > charged[o]
    <3>1. refunded'[o] = refunded[o]
      BY <1>1
    <3>2. CASE ~debited[o] /\ debited'[o] = TRUE /\ charged'[o] = charged[o] + 1
      BY <2>1, <3>1, <3>2
    <3>3. CASE debited'[o] = debited[o] /\ charged'[o] = charged[o]
      BY <2>1, <3>1, <3>3
    <3> QED
      BY <3>2, <3>3, ConfirmTxFacts
  <2> QED
    BY <1>1, <2>2 DEF RefundInv, CoinsBackTwiceOnlyByRace
<1>4. DebitsStand'
  <2>1. \A o \in Order : debited[o] => debited'[o]
    BY ConfirmTxFacts
  <2> QED
    BY <1>1, <1>2, <2>1, CallAssumption DEF RefundInv, DebitsStand
<1> QED
  BY <1>3, <1>4 DEF RefundInv

\* A cancellation reads the debit as it stands.
LEMMA CancelReadKeepsRefund ==
    ASSUME TypeOK, RefundInv, NEW k \in CancelCall, CancelRead(k)
    PROVE  RefundInv'
<1>1. UNCHANGED <<debited, charged, refunded, overtaken>> /\ Goto(k, "tx")
  BY DEF CancelRead, orderVars, history
<1>2. seen'[k].debited = debited[Target[k]] /\ \A x \in CancelCall \ {k} : seen'[x] = seen[x]
  BY DEF CancelRead, TypeOK
<1>3. \A x \in CancelCall \ {k} : at'[x] = at[x]
  BY <1>1, OthersStay DEF Call
<1>4. CoinsBackTwiceOnlyByRace'
  BY <1>1 DEF RefundInv, CoinsBackTwiceOnlyByRace
<1>5. DebitsStand'
  BY <1>1, <1>2, <1>3 DEF RefundInv, DebitsStand
<1> QED
  BY <1>4, <1>5 DEF RefundInv

\* cancelOrder's transaction: what it gives back is debited, or another has given
\* it back since its read; and it overtakes those that have read the same debit.
LEMMA CancelTxKeepsRefund ==
    ASSUME TypeOK, RefundInv, NEW k \in CancelCall, CancelTx(k)
    PROVE  RefundInv'
<1> DEFINE t == Target[k]
           refund == seen[k].debited /\ CoinsUsed[t] > 0
<1>1. Goto(k, "done") /\ seen' = seen /\ charged' = charged /\ at[k] = "tx" /\ t \in Order
  BY CallAssumption DEF CancelTx, local
<1>2. at'[k] # "tx" /\ \A x \in CancelCall \ {k} : at'[x] = at[x]
  BY <1>1, OthersStay DEF Call
<1>3. overtaken' = overtaken \cup (IF refund THEN RefundersOf(t) \ {k} ELSE {})
  BY DEF CancelTx
<1>4. CASE ~refund
  <2>1. refunded' = refunded /\ debited' = debited /\ overtaken' = overtaken
    BY <1>1, <1>3, <1>4 DEF TypeOK, CancelTx
  <2> QED
    BY <1>1, <1>2, <2>1, RefundFrame
<1>5. CASE refund
  <2>1. \A o \in Order \ {t} : refunded'[o] = refunded[o] /\ debited'[o] = debited[o]
    BY DEF TypeOK, CancelTx
  <2>2. refunded'[t] = refunded[t] + 1 /\ debited'[t] = FALSE
    BY <1>1, <1>5 DEF TypeOK, CancelTx
  <2>3. CoinsBackTwiceOnlyByRace'
    <3> SUFFICES ASSUME NEW o \in Order,
                        refunded'[o] + (IF debited'[o] THEN 1 ELSE 0) > charged'[o]
                 PROVE  \E x \in overtaken' : Target[x] = o
      BY DEF CoinsBackTwiceOnlyByRace
    <3>1. refunded[o] \in Nat /\ charged[o] \in Nat
      BY DEF TypeOK
    <3>2. CASE o = t /\ k \in overtaken
      BY <1>3, <3>2
    <3>3. CASE o = t /\ k \notin overtaken
      <4>1. debited[t]
        BY <1>1, <1>5, <3>3 DEF RefundInv, DebitsStand
      <4>2. refunded[o] + (IF debited[o] THEN 1 ELSE 0) > charged[o]
        BY <1>1, <2>2, <3>1, <3>3, <4>1
      <4> QED
        BY <1>3, <4>2 DEF RefundInv, CoinsBackTwiceOnlyByRace
    <3>4. CASE o # t
      BY <1>1, <1>3, <2>1, <3>4 DEF RefundInv, CoinsBackTwiceOnlyByRace
    <3> QED
      BY <3>2, <3>3, <3>4
  <2>4. DebitsStand'
    <3> SUFFICES ASSUME NEW x \in CancelCall, x \notin overtaken', at'[x] = "tx", seen'[x].debited
                 PROVE  debited'[Target[x]]
      BY DEF DebitsStand
    <3>1. x # k /\ at[x] = "tx" /\ seen[x].debited
      BY <1>1, <1>2
    <3>2. x \notin overtaken /\ x \notin RefundersOf(t)
      BY <1>3, <1>5, <3>1
    <3>3. Target[x] # t /\ Target[x] \in Order
      BY <3>1, <3>2, CallAssumption DEF RefundersOf
    <3>4. debited[Target[x]]
      BY <3>1, <3>2 DEF RefundInv, DebitsStand
    <3> QED
      BY <2>1, <3>3, <3>4
  <2> QED
    BY <2>3, <2>4 DEF RefundInv
<1> QED
  BY <1>4, <1>5

\* The calls of vendors and of administrators move no coins.
LEMMA ShopLeavesRefund ==
    ASSUME TypeOK, RefundInv,
           \/ \E v \in VendorCall : VendorStep(v)
           \/ \E m \in MoveCall : Move(m)
           \/ \E a \in AdminCall : AdminPay(a)
    PROVE  RefundInv'
<1>1. UNCHANGED <<debited, charged, refunded, overtaken, seen>>
  BY DEF VendorStep, VendorRead, VendorRestore, VendorCancel, Move, MoveRead, MoveWrite,
     AdminPay, AdminRead, AdminWrite, orderVars, local, history
<1>2. PICK c \in VendorCall \cup MoveCall \cup AdminCall : \E l : Goto(c, l)
  BY DEF VendorStep, VendorRead, VendorRestore, VendorCancel, Move, MoveRead, MoveWrite,
     AdminPay, AdminRead, AdminWrite
<1>3. \A k \in CancelCall : at'[k] = at[k]
  BY <1>2, OthersStay, CallsApart DEF Call
<1> QED
  BY <1>1, <1>3, RefundFrame

\* Nor do createOrder, Razorpay, the webhook, Redis and an override of a status.
LEMMA PayLeavesRefund ==
    ASSUME TypeOK, RefundInv,
           \/ \E c \in PayCall : Pay(c)
           \/ \E w \in Worker : Handle(w) \/ CrashWorker(w)
           \/ \E o \in Order, to \in AdminTargets : AdminMove(o, to)
           \/ \E e \in Event : WebhookMisreads(e)
           \/ \E p \in Provider : Razorpay(p) \/ FlagExpires(p)
    PROVE  RefundInv'
<1>1. ASSUME NEW c \in PayCall, Pay(c) PROVE RefundInv'
  <2>1. UNCHANGED <<debited, charged, refunded, overtaken, seen>>
    BY <1>1 DEF Pay, PayRead, PayUpsert, PayLink, PayFails, orderVars, local, history
  <2>2. PICK l : Goto(c, l)
    BY <1>1 DEF Pay, PayRead, PayUpsert, PayLink, PayFails
  <2>3. \A k \in CancelCall : at'[k] = at[k]
    BY <2>2, OthersStay, CallsApart DEF Call
  <2> QED
    BY <2>1, <2>3, RefundFrame
<1>2. ASSUME UNCHANGED <<debited, charged, refunded, overtaken, seen, at>> PROVE RefundInv'
  BY <1>2, RefundFrame
<1>3. ASSUME NEW w \in Worker, Handle(w) \/ CrashWorker(w) PROVE RefundInv'
  BY <1>2, <1>3 DEF Handle, HandleRead, HandleWrite, CrashWorker, orderVars, history
<1>4. ASSUME NEW o \in Order, NEW to \in AdminTargets, AdminMove(o, to) PROVE RefundInv'
  BY <1>2, <1>4 DEF AdminMove, local, history
<1>5. ASSUME NEW e \in Event, WebhookMisreads(e) PROVE RefundInv'
  BY <1>2, <1>5 DEF WebhookMisreads, orderVars, local, history
<1>6. ASSUME NEW p \in Provider, Razorpay(p) \/ FlagExpires(p) PROVE RefundInv'
  BY <1>2, <1>6 DEF Razorpay, Capture, AttemptFails, FlagExpires, orderVars, local, history
<1> QED
  BY <1>1, <1>3, <1>4, <1>5, <1>6

\* A crash moves no coins, and a cancellation it stops gives nothing back.
LEMMA CrashKeepsRefund ==
    ASSUME TypeOK, RefundInv, NEW c \in Call, Crash(c)
    PROVE  RefundInv'
<1>1. UNCHANGED <<debited, charged, refunded, overtaken, seen>>
  BY DEF Crash, local, history
<1>2. PICK l \in {"idle", "failed"} : Goto(c, l)
  BY DEF Crash
<1>3. \A k \in CancelCall : at'[k] = at[k] \/ at'[k] # "tx"
  BY <1>2, OthersStay DEF Call
<1> QED
  BY <1>1, <1>3, RefundFrame

\* RefundInv is inductive.
LEMMA NextKeepsRefund ==
    ASSUME TypeOK, RefundInv, [Next]_vars
    PROVE  RefundInv'
<1>1. ASSUME NEW c \in ConfirmCall, Confirm(c) PROVE RefundInv'
  BY <1>1, ConfirmLeavesRefund, ConfirmTxKeepsRefund DEF Confirm
<1>2. ASSUME NEW k \in CancelCall, Cancel(k) PROVE RefundInv'
  BY <1>2, CancelReadKeepsRefund, CancelTxKeepsRefund DEF Cancel
<1>3. CASE UNCHANGED vars
  BY <1>3, RefundFrame DEF vars
<1> QED
  BY <1>1, <1>2, <1>3, ShopLeavesRefund, PayLeavesRefund, CrashKeepsRefund DEF Next

\* cancelOrder gives the coins of an order back more often than confirmOrder
\* debited them only if another cancellation has acted between its read and its
\* transaction: for any number of orders, calls and crashes.
THEOREM NoSecondGivingBackAlone == Spec => []CoinsBackTwiceOnlyByRace
<1>1. Init => RefundInv
  BY DEF Init, RefundInv, CoinsBackTwiceOnlyByRace, DebitsStand, Zero, Call
<1>2. TypeOK /\ RefundInv /\ [Next]_vars => RefundInv'
  BY NextKeepsRefund
<1>3. RefundInv => CoinsBackTwiceOnlyByRace
  BY DEF RefundInv
<1> QED
  BY <1>1, <1>2, <1>3, TypeCorrect, PTL DEF Spec

-----------------------------------------------------------------------------
(* Stock that the vendor puts back.                                        *)

\* What StockInv says of one order.
StockRight(o) ==
    /\ restored[o] <= taken[o]
    /\ \A v, x \in VendorsAt(o) : v = x
    /\ (\E v \in VendorsAt(o) : at[v] = "restore") => restored[o] < taken[o]
    /\ status[o] \in Final /\ (\A v \in VendorsAt(o) : ~GaveBack(v)) => restored[o] < taken[o]

\* StockInv, order by order.
LEMMA StockByOrder == StockInv <=> \A o \in Order \ loose : StockRight(o)
BY DEF StockInv, RestoredWasTakenUnlessLoose, FinalIsTaken, StockRight

\* A step that begins nothing of the vendor's, takes or puts back no stock of the
\* order and makes it not final keeps its stock right.
LEMMA StockFrame ==
    ASSUME NEW o, StockRight(o), restored'[o] = restored[o], taken'[o] = taken[o],
           status'[o] \in Final => status[o] \in Final,
           \A v \in VendorCall : at'[v] = at[v]
    PROVE  StockRight(o)'
<1>1. VendorsAt(o)' = VendorsAt(o) /\ \A v \in VendorsAt(o) : at'[v] = at[v]
  BY DEF VendorsAt
<1> QED
  BY <1>1 DEF StockRight, GaveBack

\* StockInv after a step, order by order.
LEMMA StockByOrderNext ==
    ASSUME \A o \in Order \ loose' : StockRight(o)'
    PROVE  StockInv'
<1>1. (\A o \in Order \ loose : StockRight(o))' => StockInv'
  BY StockByOrder, PTL
<1> QED
  BY <1>1

\* Steps of no vendor, that leave status and stock alone.
LEMMA StockUnmoved ==
    ASSUME StockInv, UNCHANGED <<status, taken, restored, loose>>,
           \A v \in VendorCall : at'[v] = at[v]
    PROVE  StockInv'
<1>1. \A o \in Order \ loose' : StockRight(o)'
  BY StockByOrder, StockFrame
<1> QED
  BY <1>1, StockByOrderNext

\* Writing a status by id leaves the vendor's calls right: an order that becomes
\* final with it is loose.
LEMMA SetStatusStock ==
    ASSUME TypeOK, StockInv, NEW t \in Order, NEW to \in Status, SetStatus(t, to),
           UNCHANGED <<taken, restored>>, \A v \in VendorCall : at'[v] = at[v]
    PROVE  StockInv'
<1> SUFFICES ASSUME NEW o \in Order, o \notin loose'
             PROVE  StockRight(o)'
  BY StockByOrderNext
<1>1. o \notin loose
  BY DEF SetStatus
<1>2. status'[o] = IF o = t THEN to ELSE status[o]
  BY DEF TypeOK, SetStatus
<1>3. status'[o] \in Final => status[o] \in Final
  BY <1>2 DEF SetStatus
<1> QED
  BY <1>1, <1>3, StockByOrder, StockFrame

\* confirmOrder's other steps leave the stock alone.
LEMMA ConfirmLeavesStock ==
    ASSUME TypeOK, StockInv, NEW c \in ConfirmCall,
           \/ ConfirmCheck(c) \/ ConfirmSet(c) \/ ConfirmRead(c) \/ ConfirmAbort(c)
           \/ ConfirmComplete(c) \/ ConfirmClear(c)
    PROVE  StockInv'
<1>1. UNCHANGED <<status, taken, restored, loose>>
  BY DEF ConfirmCheck, ConfirmSet, ConfirmRead, ConfirmAbort, ConfirmComplete,
     ConfirmClear, orderVars, local, history
<1>2. PICK l : Goto(c, l)
  BY DEF ConfirmCheck, ConfirmSet, ConfirmRead, ConfirmAbort, ConfirmComplete, ConfirmClear
<1>3. \A v \in VendorCall : at'[v] = at[v]
  BY <1>2, OthersStay, CallsApart DEF Call
<1> QED
  BY <1>1, <1>3, StockUnmoved

\* The confirming transaction takes the stock of each order it makes final.
LEMMA ConfirmTxKeepsStock ==
    ASSUME TypeOK, StockInv, NEW c \in ConfirmCall, ConfirmTx(c)
    PROVE  StockInv'
<1> SUFFICES ASSUME NEW o \in Order, o \notin loose'
             PROVE  StockRight(o)'
  BY StockByOrderNext
<1>1. UNCHANGED <<restored, loose>> /\ Goto(c, "complete") /\ StockRight(o)
  BY StockByOrder DEF ConfirmTx
<1>2. \A v \in VendorCall : at'[v] = at[v]
  BY <1>1, OthersStay, CallsApart DEF Call
<1>3. CASE status'[o] = status[o] /\ taken'[o] = taken[o]
  BY <1>1, <1>2, <1>3, StockFrame
<1>4. CASE taken'[o] = taken[o] + 1
  <2>1. restored'[o] < taken'[o] /\ restored'[o] <= taken'[o]
    BY <1>1, <1>4 DEF TypeOK, StockRight
  <2>2. VendorsAt(o)' = VendorsAt(o)
    BY <1>2 DEF VendorsAt
  <2> QED
    BY <1>1, <1>2, <2>1, <2>2 DEF StockRight, GaveBack, VendorsAt
<1> QED
  BY <1>3, <1>4, ConfirmTxFacts

\* The customer's cancellation writes the status by id.
LEMMA CancelKeepsStock ==
    ASSUME TypeOK, StockInv, NEW k \in CancelCall, Cancel(k)
    PROVE  StockInv'
<1>1. PICK l : Goto(k, l)
  BY DEF Cancel, CancelRead, CancelTx
<1>2. \A v \in VendorCall : at'[v] = at[v]
  BY <1>1, OthersStay, CallsApart DEF Call
<1>3. CASE CancelRead(k)
  BY <1>2, <1>3, StockUnmoved DEF CancelRead, orderVars, history
<1>4. CASE CancelTx(k)
  <2>1. SetStatus(Target[k], "CANCELLED") /\ Target[k] \in Order /\ UNCHANGED <<taken, restored>>
    BY <1>4, CallAssumption DEF CancelTx
  <2> QED
    BY <1>2, <2>1, SetStatusStock DEF Status
<1> QED
  BY <1>3, <1>4 DEF Cancel

\* The vendor goes on with an order that is final, whose stock is taken, and is
\* alone with it, or the order is loose.
LEMMA VendorReadKeepsStock ==
    ASSUME TypeOK, StockInv, NEW v \in VendorCall, VendorRead(v)
    PROVE  StockInv'
<1> SUFFICES ASSUME NEW o \in Order, o \notin loose'
             PROVE  StockRight(o)'
  BY StockByOrderNext
<1>1. UNCHANGED <<status, taken, restored>> /\ StockRight(o)
  BY StockByOrder DEF VendorRead, history
<1>2. PICK l \in {"restore", "failed"} : Goto(v, l)
  BY DEF VendorRead
<1>3. at'[v] = l /\ \A x \in VendorCall \ {v} : at'[x] = at[x]
  BY <1>2, OthersStay DEF Call
<1>4. CASE l = "failed" \/ o # Target[v]
  <2>1. VendorsAt(o)' = VendorsAt(o) /\ \A x \in VendorsAt(o) : at'[x] = at[x]
    BY <1>2, <1>3, <1>4 DEF VendorsAt, VendorRead
  <2> QED
    BY <1>1, <2>1 DEF StockRight, GaveBack
<1>5. CASE l = "restore" /\ o = Target[v]
  <2>1. status[o] \in Final /\ VendorsAt(o) = {}
    BY <1>3, <1>5 DEF TypeOK, VendorRead, Goto, Call, Final
  <2>2. restored[o] < taken[o]
    BY <1>1, <2>1 DEF StockRight, GaveBack
  <2>3. VendorsAt(o)' = {v}
    BY <1>3, <1>5, <2>1 DEF VendorsAt
  <2> QED
    BY <1>1, <2>2, <2>3 DEF StockRight, TypeOK
<1> QED
  BY <1>2, <1>4, <1>5

\* The vendor who is about to put stock back is alone, and the stock is taken;
\* the items after the first one are of the same giving back.
LEMMA VendorRestoreKeepsStock ==
    ASSUME TypeOK, StockInv, NEW v \in VendorCall, VendorRestore(v)
    PROVE  StockInv'
<1> SUFFICES ASSUME NEW o \in Order, o \notin loose'
             PROVE  StockRight(o)'
  BY StockByOrderNext
<1>1. /\ UNCHANGED <<status, taken, loose>> /\ StockRight(o)
      /\ at[v] \in {"restore", "restoring"}
  BY StockByOrder DEF VendorRestore, orderVars
<1>2. PICK l \in {"restoring", "write"} : Goto(v, l)
  BY DEF VendorRestore
<1>3. at'[v] = l /\ \A x \in VendorCall \ {v} : at'[x] = at[x]
  BY <1>2, OthersStay DEF Call
<1>4. VendorsAt(o)' = VendorsAt(o)
  BY <1>1, <1>2, <1>3 DEF VendorsAt
<1>5. CASE o # Target[v]
  <2>1. restored'[o] = restored[o] /\ v \notin VendorsAt(o)
    BY <1>5 DEF TypeOK, VendorRestore, VendorsAt
  <2>2. \A x \in VendorsAt(o) : at'[x] = at[x]
    BY <1>3, <2>1 DEF VendorsAt
  <2> QED
    BY <1>1, <1>4, <2>1, <2>2 DEF StockRight, GaveBack
<1>6. CASE o = Target[v]
  <2>1. VendorsAt(o) = {v}
    BY <1>1, <1>6 DEF StockRight, VendorsAt
  <2>2. at[v] = "restore" => restored[o] < taken[o]
    BY <1>1, <2>1 DEF StockRight
  <2>3. restored'[o] = restored[o] + IF at[v] = "restore" THEN 1 ELSE 0
    BY <1>6 DEF TypeOK, VendorRestore
  <2>4. restored[o] \in Nat /\ taken[o] \in Nat /\ restored[o] <= taken[o] /\ taken'[o] = taken[o]
    BY <1>1 DEF TypeOK, StockRight
  <2>5. restored'[o] <= taken'[o]
    BY <2>2, <2>3, <2>4
  <2>6. (\A x \in VendorsAt(o)' : x = v) /\ GaveBack(v)' /\ at'[v] # "restore"
    BY <1>2, <1>3, <1>4, <2>1 DEF GaveBack
  <2> QED
    BY <1>4, <2>1, <2>5, <2>6 DEF StockRight
<1> QED
  BY <1>5, <1>6

\* The vendor's last statement makes the order not final.
LEMMA VendorCancelKeepsStock ==
    ASSUME TypeOK, StockInv, NEW v \in VendorCall, VendorCancel(v)
    PROVE  StockInv'
<1> SUFFICES ASSUME NEW o \in Order, o \notin loose'
             PROVE  StockRight(o)'
  BY StockByOrderNext
<1>1. /\ UNCHANGED <<taken, restored>> /\ SetStatus(Target[v], "CANCELLED")
      /\ Goto(v, "done") /\ at[v] = "write" /\ Target[v] \in Order
  BY CallAssumption DEF VendorCancel, history
<1>2. o \notin loose /\ StockRight(o)
  BY <1>1, StockByOrder DEF SetStatus
<1>3. at'[v] = "done" /\ \A x \in VendorCall \ {v} : at'[x] = at[x]
  BY <1>1, OthersStay DEF Call
<1>4. CASE o # Target[v]
  <2>1. status'[o] = status[o]
    BY <1>1, <1>4 DEF TypeOK, SetStatus
  <2>2. VendorsAt(o)' = VendorsAt(o) /\ \A x \in VendorsAt(o) : at'[x] = at[x]
    BY <1>3, <1>4 DEF VendorsAt
  <2> QED
    BY <1>1, <1>2, <2>1, <2>2 DEF StockRight, GaveBack
<1>5. CASE o = Target[v]
  <2>1. status'[o] \notin Final
    BY <1>1, <1>5 DEF TypeOK, SetStatus, Final
  <2>2. VendorsAt(o)' \subseteq VendorsAt(o) /\ \A x \in VendorsAt(o)' : at'[x] = at[x]
    BY <1>3 DEF VendorsAt
  <2> QED
    BY <1>1, <1>2, <2>1, <2>2 DEF StockRight, GaveBack
<1> QED
  BY <1>4, <1>5

\* A move of the status confirms nothing it takes the stock of.
LEMMA MoveKeepsStock ==
    ASSUME TypeOK, StockInv, NEW m \in MoveCall, Move(m)
    PROVE  StockInv'
<1>1. PICK l : Goto(m, l)
  BY DEF Move, MoveRead, MoveWrite
<1>2. \A v \in VendorCall : at'[v] = at[v]
  BY <1>1, OthersStay, CallsApart DEF Call
<1>3. CASE MoveRead(m)
  BY <1>2, <1>3, StockUnmoved DEF MoveRead, orderVars, history
<1>4. CASE MoveWrite(m)
  <2>1. SetStatus(Target[m], next[m]) /\ Target[m] \in Order /\ next[m] \in Status
    BY <1>4, CallAssumption DEF TypeOK, MoveWrite
  <2>2. UNCHANGED <<taken, restored>>
    BY <1>4 DEF MoveWrite, history
  <2> QED
    BY <1>2, <2>1, <2>2, SetStatusStock
<1> QED
  BY <1>3, <1>4 DEF Move

\* Nor does updatePaymentStatus: an order that it confirms is loose.
LEMMA AdminPayKeepsStock ==
    ASSUME TypeOK, StockInv, NEW a \in AdminCall, AdminPay(a)
    PROVE  StockInv'
<1>1. PICK l : Goto(a, l)
  BY DEF AdminPay, AdminRead, AdminWrite
<1>2. \A v \in VendorCall : at'[v] = at[v]
  BY <1>1, OthersStay, CallsApart DEF Call
<1>3. CASE AdminRead(a)
  BY <1>2, <1>3, StockUnmoved DEF AdminRead, orderVars, history
<1>4. CASE AdminWrite(a)
  <2> SUFFICES ASSUME NEW o \in Order, o \notin loose'
               PROVE  StockRight(o)'
    BY StockByOrderNext
  <2>1. UNCHANGED <<taken, restored>> /\ o \notin loose
    BY <1>4 DEF AdminWrite, history
  <2>2. CASE UNCHANGED status
    BY <1>2, <2>1, <2>2, StockByOrder, StockFrame
  <2>3. CASE /\ status' = [status EXCEPT ![Target[a]] = "CONFIRMED"]
             /\ loose' = IF status[Target[a]] \notin Final /\ status'[Target[a]] \in Final
                         THEN loose \cup {Target[a]} ELSE loose
    <3>1. status'[o] \in Final => status[o] \in Final
      BY <2>3 DEF TypeOK
    <3> QED
      BY <1>2, <2>1, <3>1, StockByOrder, StockFrame
  <2> QED
    BY <1>4, <2>2, <2>3 DEF AdminWrite
<1> QED
  BY <1>3, <1>4 DEF AdminPay

\* Payments, Razorpay, the webhook and Redis touch no stock; an administrator's
\* override writes the status by id.
LEMMA PayLeavesStock ==
    ASSUME TypeOK, StockInv,
           \/ \E c \in PayCall : Pay(c)
           \/ \E w \in Worker : Handle(w) \/ CrashWorker(w)
           \/ \E o \in Order, to \in AdminTargets : AdminMove(o, to)
           \/ \E e \in Event : WebhookMisreads(e)
           \/ \E p \in Provider : Razorpay(p) \/ FlagExpires(p)
    PROVE  StockInv'
<1>1. ASSUME NEW c \in PayCall, Pay(c) PROVE StockInv'
  <2>1. UNCHANGED <<status, taken, restored, loose>>
    BY <1>1 DEF Pay, PayRead, PayUpsert, PayLink, PayFails, orderVars, history
  <2>2. PICK l : Goto(c, l)
    BY <1>1 DEF Pay, PayRead, PayUpsert, PayLink, PayFails
  <2>3. \A v \in VendorCall : at'[v] = at[v]
    BY <2>2, OthersStay, CallsApart DEF Call
  <2> QED
    BY <2>1, <2>3, StockUnmoved
<1>2. ASSUME UNCHANGED <<status, taken, restored, loose, at>> PROVE StockInv'
  BY <1>2, StockUnmoved
<1>3. ASSUME NEW w \in Worker, Handle(w) \/ CrashWorker(w) PROVE StockInv'
  BY <1>2, <1>3 DEF Handle, HandleRead, HandleWrite, CrashWorker, orderVars, history
<1>4. ASSUME NEW o \in Order, NEW to \in AdminTargets, AdminMove(o, to) PROVE StockInv'
  <2>1. SetStatus(o, to) /\ to \in Status /\ UNCHANGED <<taken, restored, at>>
    BY <1>4, OrderAssumption DEF AdminMove, history
  <2> QED
    BY <2>1, SetStatusStock
<1>5. ASSUME NEW e \in Event, WebhookMisreads(e) PROVE StockInv'
  BY <1>2, <1>5 DEF WebhookMisreads, orderVars, history
<1>6. ASSUME NEW p \in Provider, Razorpay(p) \/ FlagExpires(p) PROVE StockInv'
  BY <1>2, <1>6 DEF Razorpay, Capture, AttemptFails, FlagExpires, orderVars, history
<1> QED
  BY <1>1, <1>3, <1>4, <1>5, <1>6

\* A vendor's call that dies before the stock leaves it taken; one that dies after
\* makes the order loose.
LEMMA CrashKeepsStock ==
    ASSUME TypeOK, StockInv, NEW c \in Call, Crash(c)
    PROVE  StockInv'
<1>1. UNCHANGED <<status, taken, restored>>
  BY DEF Crash, history
<1>2. PICK l \in {"idle", "failed"} : Goto(c, l)
  BY DEF Crash
<1>3. at'[c] = l /\ \A x \in Call \ {c} : at'[x] = at[x]
  BY <1>2, OthersStay
<1>4. CASE c \notin VendorCall
  <2>1. (\A v \in VendorCall : at'[v] = at[v]) /\ loose' = loose
    BY <1>3, <1>4 DEF Call, Crash
  <2> QED
    BY <1>1, <2>1, StockUnmoved
<1>5. CASE c \in VendorCall
  <2> SUFFICES ASSUME NEW o \in Order, o \notin loose'
               PROVE  StockRight(o)'
    BY StockByOrderNext
  <2>1. o \notin loose /\ StockRight(o)
    BY StockByOrder DEF Crash
  <2>2. \A x \in VendorCall \ {c} : at'[x] = at[x]
    BY <1>3 DEF Call
  <2>3. CASE c \notin VendorsAt(o)
    <3>1. VendorsAt(o)' = VendorsAt(o) /\ \A x \in VendorsAt(o) : at'[x] = at[x]
      BY <1>2, <1>3, <1>5, <2>2, <2>3 DEF VendorsAt
    <3> QED
      BY <1>1, <2>1, <3>1 DEF StockRight, GaveBack
  <2>4. CASE c \in VendorsAt(o)
    <3>1. at[c] = "restore"
      BY <1>5, <2>4 DEF Crash, VendorsAt, GaveBack
    <3>2. restored[o] < taken[o]
      BY <2>1, <2>4, <3>1 DEF StockRight
    <3>3. VendorsAt(o)' = {}
      BY <1>2, <1>3, <2>1, <2>2, <2>4 DEF StockRight, VendorsAt
    <3> QED
      BY <1>1, <2>1, <3>2, <3>3 DEF StockRight
  <2> QED
    BY <2>3, <2>4
<1> QED
  BY <1>4, <1>5

\* StockInv is inductive.
LEMMA NextKeepsStock ==
    ASSUME TypeOK, StockInv, [Next]_vars
    PROVE  StockInv'
<1>1. ASSUME NEW c \in ConfirmCall, Confirm(c) PROVE StockInv'
  BY <1>1, ConfirmLeavesStock, ConfirmTxKeepsStock DEF Confirm
<1>2. ASSUME NEW v \in VendorCall, VendorStep(v) PROVE StockInv'
  BY <1>2, VendorReadKeepsStock, VendorRestoreKeepsStock, VendorCancelKeepsStock DEF VendorStep
<1>3. CASE UNCHANGED vars
  BY <1>3, StockUnmoved DEF vars
<1> QED
  BY <1>1, <1>2, <1>3, CancelKeepsStock, MoveKeepsStock, AdminPayKeepsStock, PayLeavesStock,
     CrashKeepsStock DEF Next

\* The vendor's cancelOrder creates no units, whichever calls run between its
\* statements, unless the order was PENDING or became final without a
\* confirmation, or two of the vendor's calls met, or one died half-way.
THEOREM NoUnitsCreatedAlone == Spec => []RestoredWasTakenUnlessLoose
<1>1. Init => StockInv
  BY OrderAssumption DEF Init, StockInv, RestoredWasTakenUnlessLoose, FinalIsTaken, VendorsAt,
     Zero, Final, Call
<1>2. TypeOK /\ StockInv /\ [Next]_vars => StockInv'
  BY NextKeepsStock
<1>3. StockInv => RestoredWasTakenUnlessLoose
  BY DEF StockInv
<1> QED
  BY <1>1, <1>2, <1>3, TypeCorrect, PTL DEF Spec
-----------------------------------------------------------------------------
(* The key that answers "already processed".                               *)

\* Steps that leave the Razorpay orders alone, let no call reach the transaction
\* or the last key, and make no order final that is not loose.
LEMMA FlagFrame ==
    ASSUME TypeOK, FlagInv, UNCHANGED <<captured, linked, found, taken>>, loose \subseteq loose',
           \A p \in Provider : flag'[p] \in {flag[p], "none"} \/ (flag'[p] = "processing" /\ p \in captured),
           \A o \in Order : status'[o] \in Final => status[o] \in Final \/ o \in loose',
           \A c \in ConfirmCall :
              at'[c] = at[c] \/ (at'[c] \notin {"idle", "tx", "complete"} /\ ConfirmOf[c] \in captured),
           \A q \in PayCall : at[q] = "done" => at'[q] = "done"
    PROVE  FlagInv'
<1>1. \A o \in Order : WasFinal(o) => WasFinal(o)'
  BY DEF WasFinal
<1>2. CompletedIsTrue'
  BY <1>1 DEF FlagInv, CompletedIsTrue
<1>3. UnlinkedIsUnpaid'
  BY DEF FlagInv, UnlinkedIsUnpaid, Payable, TypeOK
<1>4. \A o \in Order : status'[o] \in Final => WasFinal(o)'
  BY <1>1 DEF FlagInv, CompletingIsTrue, WasFinal
<1>5. CompletingIsTrue'
  BY <1>1, <1>4 DEF FlagInv, CompletingIsTrue
<1> QED
  BY <1>2, <1>3, <1>5 DEF FlagInv

\* confirmOrder's steps outside the transaction and its last key.
LEMMA ConfirmLeavesFlag ==
    ASSUME TypeOK, FlagInv, NEW c \in ConfirmCall,
           ConfirmCheck(c) \/ ConfirmSet(c) \/ ConfirmAbort(c) \/ ConfirmClear(c)
    PROVE  FlagInv'
<1>1. PICK l \in {"failed", "done", "set", "read", "clear"} : Goto(c, l)
  BY DEF ConfirmCheck, ConfirmSet, ConfirmAbort, ConfirmClear
<1>2. at'[c] = l /\ \A x \in Call \ {c} : at'[x] = at[x]
  BY <1>1, OthersStay DEF Call
<1>3. ConfirmOf[c] \in captured /\ ConfirmOf[c] \in Provider
  BY CallAssumption DEF FlagInv, UnlinkedIsUnpaid, ConfirmCheck, ConfirmSet, ConfirmAbort,
     ConfirmClear
<1>4. \A p \in Provider : flag'[p] \in {flag[p], "none"} \/ (flag'[p] = "processing" /\ p \in captured)
  BY <1>3 DEF TypeOK, ConfirmCheck, ConfirmSet, ConfirmAbort, ConfirmClear
<1>5. UNCHANGED <<captured, linked, found, taken, loose, status>>
  BY DEF ConfirmCheck, ConfirmSet, ConfirmAbort, ConfirmClear, orderVars, gateway, local, history
<1>6. (\A x \in ConfirmCall \ {c} : at'[x] = at[x]) /\ \A q \in PayCall : at'[q] = at[q]
  BY <1>2, CallsApart DEF Call
<1> QED
  BY <1>2, <1>3, <1>4, <1>5, <1>6, FlagFrame

\* It calls the payment complete only if each of its orders is final, and takes
\* all of them into the transaction otherwise.
LEMMA ConfirmReadKeepsFlag ==
    ASSUME TypeOK, FlagInv, NEW c \in ConfirmCall, ConfirmRead(c)
    PROVE  FlagInv'
<1>1. UNCHANGED <<captured, linked, taken, loose, status, flag>>
  BY DEF ConfirmRead, orderVars, gateway, history
<1>2. PICK l \in {"clear", "complete", "tx"} :
        Goto(c, l) /\ (l = "complete" =>
            \A o \in Order : linked[o] = ConfirmOf[c] => status[o] \in Final)
  BY DEF ConfirmRead
<1>3. at'[c] = l /\ \A x \in Call \ {c} : at'[x] = at[x]
  BY <1>2, OthersStay DEF Call
<1>4. (\A x \in ConfirmCall \ {c} : at'[x] = at[x]) /\ \A q \in PayCall : at'[q] = at[q]
  BY <1>3, CallsApart DEF Call
<1>5. \A o \in Order : WasFinal(o)' <=> WasFinal(o)
  BY <1>1 DEF WasFinal
<1>6. found'[c] = {o \in Order : linked[o] = ConfirmOf[c]}
        /\ \A x \in ConfirmCall \ {c} : found'[x] = found[x]
  BY DEF TypeOK, ConfirmRead
<1>7. CompletedIsTrue'
  BY <1>1, <1>5 DEF FlagInv, CompletedIsTrue
<1>8. UnlinkedIsUnpaid'
  BY <1>1, <1>4 DEF FlagInv, UnlinkedIsUnpaid, Payable, ConfirmRead
<1>9. ASSUME NEW x \in ConfirmCall, NEW o \in Order, linked[o] = ConfirmOf[x]
      PROVE  /\ at'[x] = "tx" => o \in found'[x]
             /\ at'[x] = "complete" => WasFinal(o)'
  BY <1>2, <1>3, <1>4, <1>5, <1>6, <1>9 DEF FlagInv, CompletingIsTrue
<1>10. CompletingIsTrue'
  BY <1>1, <1>5, <1>9 DEF FlagInv, CompletingIsTrue
<1> QED
  BY <1>7, <1>8, <1>10 DEF FlagInv

\* The transaction leaves every order that it was given confirmed.
LEMMA ConfirmTxKeepsFlag ==
    ASSUME TypeOK, FlagInv, NEW c \in ConfirmCall, ConfirmTx(c)
    PROVE  FlagInv'
<1>1. UNCHANGED <<captured, linked, loose, flag, found>> /\ Goto(c, "complete")
  BY DEF ConfirmTx, gateway, local
<1>2. at'[c] = "complete" /\ \A x \in Call \ {c} : at'[x] = at[x]
  BY <1>1, OthersStay DEF Call
<1>3. (\A x \in ConfirmCall \ {c} : at'[x] = at[x]) /\ \A q \in PayCall : at'[q] = at[q]
  BY <1>2, CallsApart DEF Call
<1>4. ASSUME NEW o \in Order
      PROVE  /\ taken'[o] = IF o \in found[c] /\ status[o] \notin Final THEN taken[o] + 1 ELSE taken[o]
             /\ status'[o] = IF o \in found[c] /\ status[o] \notin Final THEN "CONFIRMED" ELSE status[o]
             /\ taken[o] \in Nat
  BY DEF TypeOK, ConfirmTx
<1>5. \A o \in Order : WasFinal(o) => WasFinal(o)'
  BY <1>1, <1>4 DEF WasFinal
<1>6. \A o \in found[c] : WasFinal(o)'
  BY <1>1, <1>4, <1>5 DEF TypeOK, FlagInv, CompletingIsTrue, WasFinal
<1>7. CompletedIsTrue'
  BY <1>1, <1>5 DEF FlagInv, CompletedIsTrue
<1>8. UnlinkedIsUnpaid'
  BY <1>1, <1>3 DEF FlagInv, UnlinkedIsUnpaid, Payable, ConfirmTx
<1>9. \A o \in Order : status'[o] \in Final => WasFinal(o)'
  BY <1>4, <1>5, <1>6 DEF FlagInv, CompletingIsTrue
<1>10. ASSUME NEW x \in ConfirmCall, NEW o \in Order, linked[o] = ConfirmOf[x]
       PROVE  /\ at'[x] = "tx" => o \in found[x]
              /\ at'[x] = "complete" => WasFinal(o)'
  BY <1>2, <1>3, <1>5, <1>6, <1>10 DEF FlagInv, CompletingIsTrue, ConfirmTx
<1>11. CompletingIsTrue'
  BY <1>1, <1>9, <1>10 DEF CompletingIsTrue
<1> QED
  BY <1>7, <1>8, <1>11 DEF FlagInv

\* The last key is set by a call that has seen or made its orders final.
LEMMA ConfirmCompleteKeepsFlag ==
    ASSUME TypeOK, FlagInv, NEW c \in ConfirmCall, ConfirmComplete(c)
    PROVE  FlagInv'
<1>1. UNCHANGED <<captured, linked, loose, taken, status, found>> /\ Goto(c, "done")
  BY DEF ConfirmComplete, orderVars, gateway, local, history
<1>2. at'[c] = "done" /\ \A x \in Call \ {c} : at'[x] = at[x]
  BY <1>1, OthersStay DEF Call
<1>3. (\A x \in ConfirmCall \ {c} : at'[x] = at[x]) /\ \A q \in PayCall : at'[q] = at[q]
  BY <1>2, CallsApart DEF Call
<1>4. \A o \in Order : WasFinal(o)' <=> WasFinal(o)
  BY <1>1 DEF WasFinal
<1>5. \A p \in Provider : p # ConfirmOf[c] => flag'[p] = flag[p]
  BY DEF TypeOK, ConfirmComplete
<1>6. \A o \in Order : linked[o] = ConfirmOf[c] => WasFinal(o)
  BY DEF FlagInv, CompletingIsTrue, ConfirmComplete
<1>7. CompletedIsTrue'
  BY <1>1, <1>4, <1>5, <1>6 DEF FlagInv, CompletedIsTrue
<1>8. ConfirmOf[c] \in captured
  BY DEF FlagInv, UnlinkedIsUnpaid, ConfirmComplete
<1>9. UnlinkedIsUnpaid'
  BY <1>1, <1>2, <1>3, <1>5, <1>8 DEF FlagInv, UnlinkedIsUnpaid, Payable
<1>10. CompletingIsTrue'
  BY <1>1, <1>2, <1>3, <1>4 DEF FlagInv, CompletingIsTrue
<1> QED
  BY <1>7, <1>9, <1>10 DEF FlagInv

\* A retry moves the order to a Razorpay order that nobody has paid yet.
LEMMA PayLinkKeepsFlag ==
    ASSUME TypeOK, FlagInv, NEW q \in PayCall, PayLink(q)
    PROVE  FlagInv'
<1>1. UNCHANGED <<captured, loose, taken, status, found, flag>> /\ Goto(q, "done") /\ at[q] = "link"
  BY DEF PayLink, gateway, local, history
<1>2. at'[q] = "done" /\ \A x \in Call \ {q} : at'[x] = at[x]
  BY <1>1, OthersStay DEF Call
<1>3. (\A x \in ConfirmCall : at'[x] = at[x]) /\ \A x \in PayCall \ {q} : at'[x] = at[x]
  BY <1>2, CallsApart DEF Call
<1>4. q \notin captured
  BY <1>1 DEF FlagInv, UnlinkedIsUnpaid, Payable
<1>5. \A o \in Order : linked'[o] \in {linked[o], q}
  BY DEF TypeOK, PayLink
<1>6. \A o \in Order : WasFinal(o)' <=> WasFinal(o)
  BY <1>1 DEF WasFinal
<1>7. CompletedIsTrue'
  BY <1>1, <1>4, <1>5, <1>6 DEF FlagInv, CompletedIsTrue, UnlinkedIsUnpaid
<1>8. UnlinkedIsUnpaid'
  BY <1>1, <1>2, <1>3 DEF FlagInv, UnlinkedIsUnpaid, Payable
<1>9. ASSUME NEW c \in ConfirmCall, NEW o \in Order, at[c] \in {"tx", "complete"},
             linked'[o] = ConfirmOf[c]
      PROVE  linked[o] = ConfirmOf[c]
  BY <1>4, <1>5, <1>9 DEF FlagInv, UnlinkedIsUnpaid
<1>10. CompletingIsTrue'
  BY <1>1, <1>3, <1>6, <1>9 DEF FlagInv, CompletingIsTrue
<1> QED
  BY <1>7, <1>8, <1>10 DEF FlagInv

\* A customer pays a Razorpay order that a call has returned.
LEMMA CaptureKeepsFlag ==
    ASSUME TypeOK, FlagInv, NEW p \in Provider, Capture(p)
    PROVE  FlagInv'
<1>1. /\ UNCHANGED <<linked, loose, taken, status, found, flag, at>>
      /\ captured' = captured \cup {p} /\ Payable(p)
  BY DEF Capture, orderVars, local, history
<1>2. CompletedIsTrue' /\ CompletingIsTrue'
  BY <1>1 DEF FlagInv, CompletedIsTrue, CompletingIsTrue, WasFinal
<1>3. UnlinkedIsUnpaid'
  BY <1>1 DEF FlagInv, UnlinkedIsUnpaid, Payable
<1> QED
  BY <1>2, <1>3 DEF FlagInv

\* Cancellations and moves of the status: what they make final is loose.
LEMMA ShopLeavesFlag ==
    ASSUME TypeOK, FlagInv,
           \/ \E k \in CancelCall : Cancel(k)
           \/ \E v \in VendorCall : VendorStep(v)
           \/ \E m \in MoveCall : Move(m)
           \/ \E a \in AdminCall : AdminPay(a)
           \/ \E o \in Order, to \in AdminTargets : AdminMove(o, to)
    PROVE  FlagInv'
<1>1. UNCHANGED <<captured, linked, found, taken, flag>>
  BY DEF Cancel, CancelRead, CancelTx, VendorStep, VendorRead, VendorRestore, VendorCancel,
     Move, MoveRead, MoveWrite, AdminPay, AdminRead, AdminWrite, AdminMove, SetStatus, gateway,
     local, history, orderVars
<1>2. loose \subseteq loose'
  BY DEF Cancel, CancelRead, CancelTx, VendorStep, VendorRead, VendorRestore, VendorCancel,
     Move, MoveRead, MoveWrite, AdminPay, AdminRead, AdminWrite, AdminMove, SetStatus, orderVars
<1>3. ASSUME NEW t, NEW to, SetStatus(t, to), NEW o \in Order, status'[o] \in Final
      PROVE  status[o] \in Final \/ o \in loose'
  BY <1>3 DEF TypeOK, SetStatus
<1>4. ASSUME NEW a \in AdminCall, AdminWrite(a), NEW o \in Order, status'[o] \in Final
      PROVE  status[o] \in Final \/ o \in loose'
  BY <1>4 DEF TypeOK, AdminWrite
<1>5. ASSUME NEW o \in Order, status'[o] \in Final
      PROVE  status[o] \in Final \/ o \in loose'
  BY <1>3, <1>4, <1>5 DEF Cancel, CancelRead, CancelTx, VendorStep, VendorRead, VendorRestore,
     VendorCancel, Move, MoveRead, MoveWrite, AdminPay, AdminRead, AdminMove, orderVars
<1>6. \/ UNCHANGED at
      \/ \E c \in Call \ ConfirmCall : at[c] # "done" /\ \E l : Goto(c, l)
  BY CallsApart DEF Cancel, CancelRead, CancelTx, VendorStep, VendorRead, VendorRestore,
     VendorCancel, Move, MoveRead, MoveWrite, AdminPay, AdminRead, AdminWrite, AdminMove, Call
<1>7. /\ \A c \in ConfirmCall : at'[c] = at[c]
      /\ \A q \in PayCall : at[q] = "done" => at'[q] = "done"
  BY <1>6, OthersStay DEF Call
<1> QED
  BY <1>1, <1>2, <1>5, <1>7, FlagFrame

\* The other steps of payments, of Razorpay, of the webhook and of Redis, and
\* crashes.
LEMMA PayLeavesFlag ==
    ASSUME TypeOK, FlagInv,
           \/ \E q \in PayCall : PayRead(q) \/ PayUpsert(q) \/ PayFails(q)
           \/ \E w \in Worker : Handle(w) \/ CrashWorker(w)
           \/ \E e \in Event : WebhookMisreads(e)
           \/ \E p \in Provider : AttemptFails(p) \/ FlagExpires(p)
           \/ \E c \in Call : Crash(c)
    PROVE  FlagInv'
<1>1. UNCHANGED <<captured, linked, found, taken, status>> /\ loose \subseteq loose'
  BY DEF PayRead, PayUpsert, PayFails, Handle, HandleRead, HandleWrite, CrashWorker,
     WebhookMisreads, AttemptFails, FlagExpires, Crash, gateway, local, history, orderVars
<1>2. \A p \in Provider : flag'[p] \in {flag[p], "none"}
  BY DEF TypeOK, PayRead, PayUpsert, PayFails, Handle, HandleRead, HandleWrite, CrashWorker,
     WebhookMisreads, AttemptFails, FlagExpires, Crash
<1>3. \/ UNCHANGED at
      \/ \E c \in Call \ ConfirmCall : at[c] # "done" /\ \E l : Goto(c, l)
      \/ \E c \in ConfirmCall : Goto(c, "failed") /\ at[c] # "idle"
  <2>1. ASSUME NEW q \in PayCall, PayRead(q) \/ PayUpsert(q) \/ PayFails(q)
        PROVE  q \in Call \ ConfirmCall /\ at[q] # "done" /\ \E l : Goto(q, l)
    BY <2>1, CallsApart DEF PayRead, PayUpsert, PayFails, Call
  <2>2. ASSUME NEW c \in Call, Crash(c)
        PROVE  /\ at[c] # "done" /\ \E l : Goto(c, l)
               /\ c \in ConfirmCall => Goto(c, "failed") /\ at[c] # "idle"
    BY <2>2, CallsApart DEF Crash
  <2>3. ASSUME \/ \E w \in Worker : Handle(w) \/ CrashWorker(w)
               \/ \E e \in Event : WebhookMisreads(e)
               \/ \E p \in Provider : AttemptFails(p) \/ FlagExpires(p)
        PROVE  UNCHANGED at
    BY <2>3 DEF Handle, HandleRead, HandleWrite, CrashWorker, WebhookMisreads, AttemptFails,
       FlagExpires
  <2> QED
    BY <2>1, <2>2, <2>3
<1>4. \A c \in ConfirmCall :
        at'[c] = at[c] \/ (at'[c] \notin {"idle", "tx", "complete"} /\ ConfirmOf[c] \in captured)
  BY <1>3, OthersStay DEF FlagInv, UnlinkedIsUnpaid, Call
<1>5. \A q \in PayCall : at[q] = "done" => at'[q] = "done"
  BY <1>3, OthersStay, CallsApart DEF Call
<1> QED
  BY <1>1, <1>2, <1>4, <1>5, FlagFrame

\* FlagInv is inductive.
LEMMA NextKeepsFlag ==
    ASSUME TypeOK, FlagInv, [Next]_vars
    PROVE  FlagInv'
<1>1. ASSUME NEW c \in ConfirmCall, Confirm(c) PROVE FlagInv'
  BY <1>1, ConfirmLeavesFlag, ConfirmReadKeepsFlag, ConfirmTxKeepsFlag, ConfirmCompleteKeepsFlag
     DEF Confirm
<1>2. ASSUME NEW q \in PayCall, Pay(q) PROVE FlagInv'
  BY <1>2, PayLeavesFlag, PayLinkKeepsFlag DEF Pay
<1>3. ASSUME NEW p \in Provider, Razorpay(p) PROVE FlagInv'
  BY <1>3, CaptureKeepsFlag, PayLeavesFlag DEF Razorpay
<1>4. CASE UNCHANGED vars
  BY <1>4, FlagFrame DEF vars
<1> QED
  BY <1>1, <1>2, <1>3, <1>4, ShopLeavesFlag, PayLeavesFlag DEF Next

\* When confirmOrder answers "already processed" from the key, every order of the
\* payment was confirmed, or made final by a vendor or an administrator: for any
\* orders, payments, retries and calls, whatever fails between the transaction
\* and the key.
THEOREM KeyTellsTheTruth == Spec => []CompletedIsTrue
<1>1. Init => FlagInv
  BY OrderAssumption DEF Init, FlagInv, CompletedIsTrue, UnlinkedIsUnpaid, CompletingIsTrue,
     Final, Call
<1>2. TypeOK /\ FlagInv /\ [Next]_vars => FlagInv'
  BY NextKeepsFlag
<1>3. FlagInv => CompletedIsTrue
  BY DEF FlagInv
<1> QED
  BY <1>1, <1>2, <1>3, TypeCorrect, PTL DEF Spec
=============================================================================
