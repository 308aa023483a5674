----------------------- MODULE StockReservationProofs -----------------------
(***************************************************************************)
(* Proofs about StockReservation, for any number of requests, users, SKUs  *)
(* and any carts: type correctness, that stock is never negative, that the *)
(* module implements AtomicSale, that units are conserved, and that the    *)
(* counters admit no more than the stock that is left, unless they slip.   *)
(***************************************************************************)
EXTENDS StockReservation, FiniteSetTheorems, TLAPS

\* The lines of a cart, as the provers need them.
LEMMA CartFacts ==
    ASSUME NEW lines \in Carts \cup {<<>>}
    PROVE  /\ lines \in Seq(Line)
           /\ Len(lines) \in Nat
           /\ lines # <<>> => Len(lines) > 0
           /\ DOMAIN lines = 1..Len(lines)
           /\ \A i \in 1..Len(lines) :
                 lines[i].sku \in SKU /\ lines[i].qty \in Nat \ {0}
<1>1. lines \in Seq(Line)
  <2>1. CASE lines \in Carts
    BY <2>1, CartsAssumption
  <2>2. CASE lines = <<>>
    BY <2>2
  <2> QED
    BY <2>1, <2>2
<1>2. \A i \in 1..Len(lines) : lines[i] \in Line
  BY <1>1
<1> QED
  BY <1>1, <1>2 DEF Line

\* Units(lines, s) is the quantity on the line of s, or 0 if there is none.
LEMMA UnitsFacts ==
    ASSUME NEW lines \in Carts \cup {<<>>}
    PROVE  /\ \A i \in 1..Len(lines) : Units(lines, lines[i].sku) = lines[i].qty
           /\ \A s : s \notin Skus(lines) => Units(lines, s) = 0
           /\ \A s : Units(lines, s) \in Nat
<1>1. \A i, j \in 1..Len(lines) : lines[i].sku = lines[j].sku => i = j
  BY CartsAssumption, CartFacts
<1>2. ASSUME NEW i \in 1..Len(lines)
      PROVE  Units(lines, lines[i].sku) = lines[i].qty
  <2> DEFINE c == CHOOSE k \in DOMAIN lines : lines[k].sku = lines[i].sku
  <2>1. lines[i].sku \in Skus(lines)
    BY CartFacts DEF Skus
  <2>2. c \in DOMAIN lines /\ lines[c].sku = lines[i].sku
    BY CartFacts
  <2>3. c = i
    BY <1>1, <2>2, CartFacts
  <2> QED
    BY <2>1, <2>3 DEF Units
<1>3. \A s : s \notin Skus(lines) => Units(lines, s) = 0
  BY DEF Units
<1>4. ASSUME NEW s
      PROVE  Units(lines, s) \in Nat
  <2>1. CASE s \notin Skus(lines)
    BY <1>3, <2>1
  <2>2. CASE s \in Skus(lines)
    <3>1. PICK i \in 1..Len(lines) : lines[i].sku = s
      BY <2>2, CartFacts DEF Skus
    <3> QED
      BY <1>2, <3>1, CartFacts
  <2> QED
    BY <2>1, <2>2
<1> QED
  BY <1>2, <1>3, <1>4

-----------------------------------------------------------------------------
(* The row invariants depend on stock, items and deducted only.            *)

RowsOK == RowsLockedOnce /\ LockedRowsSuffice /\ StockNeverNegative

\* A step that leaves the rows and the locks as they are.
LEMMA RowsUnchanged ==
    ASSUME RowsOK, UNCHANGED <<stock, items, deducted>>
    PROVE  RowsOK'
BY DEF RowsOK, RowsLockedOnce, LockedRowsSuffice, StockNeverNegative, Locked

\* A rollback: r gives its locks back, the rows stay.
LEMMA RowsRolledBack ==
    ASSUME TypeOK, RowsOK, NEW r \in Request, UNCHANGED <<stock, items>>,
           deducted' = [deducted EXCEPT ![r] = 0]
    PROVE  RowsOK'
<1>1. Locked(r)' = {}
  BY DEF Locked, TypeOK
<1>2. \A q \in Request \ {r} : deducted'[q] = deducted[q] /\ Locked(q)' = Locked(q)
  BY DEF Locked, TypeOK
<1>3. RowsLockedOnce'
  BY <1>1, <1>2 DEF RowsOK, RowsLockedOnce
<1>4. LockedRowsSuffice'
  BY <1>2 DEF RowsOK, LockedRowsSuffice, TypeOK
<1> QED
  BY <1>3, <1>4 DEF RowsOK, StockNeverNegative

\* A new row lock: the row was free and had enough units.
LEMMA RowLocked ==
    ASSUME TypeOK, RowsOK, NEW r \in Request, UNCHANGED <<stock, items>>,
           deducted[r] < Len(items[r]),
           deducted' = [deducted EXCEPT ![r] = deducted[r] + 1],
           \A q \in Request \ {r} : items[r][deducted[r] + 1].sku \notin Locked(q),
           stock[items[r][deducted[r] + 1].sku] >= items[r][deducted[r] + 1].qty
    PROVE  RowsOK'
<1> DEFINE new == items[r][deducted[r] + 1]
<1>1. deducted[r] \in Nat /\ deducted'[r] = deducted[r] + 1
  BY DEF TypeOK
<1>2. \A q \in Request \ {r} : deducted'[q] = deducted[q] /\ Locked(q)' = Locked(q)
  BY DEF Locked, TypeOK
<1>3. \A i \in 1..deducted'[r] : i \in 1..deducted[r] \/ i = deducted[r] + 1
  BY <1>1
<1>4. Locked(r)' \subseteq Locked(r) \cup {new.sku}
  BY <1>3 DEF Locked
<1>5. RowsLockedOnce'
  <2> SUFFICES ASSUME NEW p \in Request, NEW q \in Request, p # q
               PROVE  Locked(p)' \cap Locked(q)' = {}
    BY DEF RowsLockedOnce
  <2>1. Locked(p) \cap Locked(q) = {}
    BY DEF RowsOK, RowsLockedOnce
  <2>2. CASE p = r
    BY <2>1, <2>2, <1>2, <1>4
  <2>3. CASE q = r
    BY <2>1, <2>3, <1>2, <1>4
  <2>4. CASE p # r /\ q # r
    BY <2>1, <2>4, <1>2
  <2> QED
    BY <2>2, <2>3, <2>4
<1>6. LockedRowsSuffice'
  <2> SUFFICES ASSUME NEW q \in Request, NEW i \in 1..deducted'[q]
               PROVE  stock[items[q][i].sku] >= items[q][i].qty
    BY DEF LockedRowsSuffice
  <2>1. CASE q # r
    BY <2>1, <1>2 DEF RowsOK, LockedRowsSuffice
  <2>2. CASE q = r
    BY <2>2, <1>3 DEF RowsOK, LockedRowsSuffice
  <2> QED
    BY <2>1, <2>2
<1> QED
  BY <1>5, <1>6 DEF RowsOK, StockNeverNegative

\* Everything the order asks for is in rows the transaction has locked.
LEMMA AllLinesCovered ==
    ASSUME TypeOK, RowsOK, NEW r \in Request, deducted[r] = Len(items[r]),
           NEW s \in SKU
    PROVE  stock[s] >= Units(items[r], s)
<1>1. items[r] \in Carts \cup {<<>>}
  BY DEF TypeOK
<1>2. CASE s \in Skus(items[r])
  <2>1. PICK i \in 1..Len(items[r]) : items[r][i].sku = s
    BY <1>1, <1>2, CartFacts DEF Skus
  <2>2. stock[s] >= items[r][i].qty
    BY <2>1 DEF RowsOK, LockedRowsSuffice
  <2> QED
    BY <1>1, <2>1, <2>2, UnitsFacts
<1>3. CASE s \notin Skus(items[r])
  BY <1>1, <1>3, UnitsFacts DEF RowsOK, StockNeverNegative
<1> QED
  BY <1>2, <1>3

\* A commit takes the units from the rows of r and frees them; the rows other
\* transactions have locked are different ones and keep their stock.
LEMMA RowsCommitted ==
    ASSUME TypeOK, ControlOK, RowsOK, NEW r \in Request,
           deducted[r] = Len(items[r]), UNCHANGED items, deducted' = [deducted EXCEPT ![r] = 0],
           stock' = [s \in SKU |-> stock[s] - Units(items[r], s)]
    PROVE  RowsOK' /\ stock' \in [SKU -> Int]
<1> DEFINE mine == items[r]
<1>1. mine \in Carts \cup {<<>>}
  BY DEF TypeOK
<1>2. \A q \in Request \ {r} : deducted'[q] = deducted[q] /\ Locked(q)' = Locked(q)
  BY DEF Locked, TypeOK
<1>3. Locked(r)' = {} /\ deducted'[r] = 0
  BY DEF Locked, TypeOK
<1>4. Locked(r) = Skus(mine)
  BY <1>1, CartFacts DEF Locked, Skus
<1>5. \A s \in SKU : s \notin Skus(mine) => stock'[s] = stock[s]
  BY <1>1, UnitsFacts DEF TypeOK
<1>6. RowsLockedOnce'
  BY <1>2, <1>3 DEF RowsOK, RowsLockedOnce
<1>7. LockedRowsSuffice'
  <2> SUFFICES ASSUME NEW q \in Request, NEW i \in 1..deducted'[q]
               PROVE  stock'[items[q][i].sku] >= items[q][i].qty
    BY DEF LockedRowsSuffice
  <2>1. q # r
    BY <1>3
  <2>2. i \in 1..deducted[q] /\ items[q][i].sku \in Locked(q)
    BY <1>2, <2>1 DEF Locked
  <2>3. items[q][i].sku \notin Skus(mine)
    BY <1>4, <2>1, <2>2 DEF RowsOK, RowsLockedOnce
  <2>4. stock[items[q][i].sku] >= items[q][i].qty
    BY <2>2 DEF RowsOK, LockedRowsSuffice
  <2>5. i \in 1..Len(items[q]) /\ items[q] \in Carts \cup {<<>>}
    BY <2>2 DEF TypeOK, ControlOK, Control
  <2>6. items[q][i].sku \in SKU
    BY <2>5, CartFacts
  <2> QED
    BY <1>5, <2>3, <2>4, <2>6
<1>8. StockNeverNegative' /\ stock' \in [SKU -> Int]
  BY <1>1, UnitsFacts, AllLinesCovered DEF TypeOK, StockNeverNegative
<1> QED
  BY <1>6, <1>7, <1>8 DEF RowsOK

-----------------------------------------------------------------------------
(* Type and control, action by action                                      *)

\* The line of plan that a reserving or releasing request works on.
LEMMA PlanLine ==
    ASSUME TypeOK, ControlOK, NEW r \in Request, pc[r] \in Reserving \cup Releasing
    PROVE  /\ idx[r] \in 1..Len(plan[r])
           /\ plan[r][idx[r]].sku \in SKU
           /\ plan[r][idx[r]].qty \in Nat \ {0}
           /\ Len(plan[r]) \in Nat /\ plan[r] \in Carts \cup {<<>>}
<1>1. plan[r] \in Carts \cup {<<>>} /\ idx[r] \in Nat \ {0} /\ relEnd[r] \in Nat
  BY DEF TypeOK
<1>2. Len(plan[r]) \in Nat
  BY <1>1, CartFacts
<1>3. idx[r] \in 1..Len(plan[r])
  BY <1>1, <1>2 DEF ControlOK, Control
<1> QED
  BY <1>1, <1>2, <1>3, CartFacts

\* Redis commands keep the types of the reservation variables.
LEMMA IncrByType ==
    ASSUME TypeOK, NEW s \in SKU, NEW n \in Int, IncrBy(s, n)
    PROVE  reserved' \in [SKU -> Int] /\ present' \subseteq SKU /\ expiring' \subseteq present'
BY DEF TypeOK, IncrBy

\* DEL preserves the types of the Redis keys.
LEMMA DelType ==
    ASSUME TypeOK, NEW s \in SKU, Del(s)
    PROVE  /\ reserved' \in [SKU -> Int] /\ present' \subseteq SKU /\ expiring' \subseteq present'
           /\ slipped' \subseteq SKU
BY DEF TypeOK, Del

\* A step of r leaves the control of the other requests as it is.
LEMMA OthersControl ==
    ASSUME TypeOK, ControlOK, NEW r \in Request, Control(r)',
           \A q \in Request \ {r} :
              /\ pc'[q] = pc[q] /\ idx'[q] = idx[q] /\ relEnd'[q] = relEnd[q]
              /\ plan'[q] = plan[q] /\ items'[q] = items[q]
              /\ deducted'[q] = deducted[q] /\ order'[q] = order[q]
    PROVE  ControlOK'
<1> SUFFICES ASSUME NEW q \in Request, q # r
             PROVE  Control(q)'
  BY DEF ControlOK
<1>1. Control(q)
  BY DEF ControlOK
<1> QED
  BY <1>1 DEF Control

\* A step that moves no request.
LEMMA ControlUnchanged ==
    ASSUME ControlOK, UNCHANGED <<pc, idx, relEnd, plan, items, deducted, order>>
    PROVE  ControlOK'
BY DEF ControlOK, Control

\* The read of the cart before reserving preserves IInv.
LEMMA PrefetchInv ==
    ASSUME IInv, NEW r \in Request, Prefetch(r)
    PROVE  TypeOK' /\ ControlOK'
<1> USE DEF IInv, Prefetch, Goto, dbVars, redisVars
<1>1. cart[Owner[r]] \in Carts \cup {<<>>}
  BY RequestsAssumption DEF TypeOK
<1>2. TypeOK'
  BY <1>1 DEF TypeOK, PC, Reserving
<1>3. cart[Owner[r]] # <<>> => Len(cart[Owner[r]]) > 0 /\ Len(cart[Owner[r]]) \in Nat
  BY <1>1, CartFacts
<1>4. Control(r)'
  <2>1. /\ pc'[r] = IF cart[Owner[r]] = <<>> THEN "failed" ELSE "read"
        /\ plan'[r] = cart[Owner[r]]
    BY DEF TypeOK
  <2>2. Control(r) /\ idx[r] = 1
    BY DEF ControlOK, Control
  <2>3. CASE cart[Owner[r]] = <<>>
    BY <2>1, <2>2, <2>3 DEF Control, Reserving, Releasing, Ordering, Deducting
  <2>4. CASE cart[Owner[r]] # <<>>
    BY <1>3, <2>1, <2>2, <2>4 DEF Control, Reserving, Releasing, Ordering, Deducting
  <2> QED
    BY <2>3, <2>4
<1>5. \A q \in Request \ {r} : pc'[q] = pc[q] /\ plan'[q] = plan[q]
  BY DEF TypeOK
<1> QED
  BY <1>2, <1>4, <1>5, OthersControl

\* getStock's read of the row preserves IInv.
LEMMA ReadStockInv ==
    ASSUME IInv, NEW r \in Request, ReadStock(r)
    PROVE  TypeOK' /\ ControlOK'
<1> USE DEF IInv, ReadStock, Goto, dbVars, redisVars
<1>1. plan[r][idx[r]].sku \in SKU
  BY PlanLine DEF Reserving
<1>2. TypeOK'
  BY <1>1 DEF TypeOK, PC, Reserving
<1>3. Control(r)'
  BY DEF TypeOK, ControlOK, Control, Reserving, Releasing, Ordering, Deducting
<1>4. \A q \in Request \ {r} : pc'[q] = pc[q]
  BY DEF TypeOK
<1> QED
  BY <1>2, <1>3, <1>4, OthersControl

\* ReleaseFirst goes to a release loop over n lines of plan, or ends the call.
LEMMA ReleaseFirstControl ==
    ASSUME IInv, NEW r \in Request, NEW n \in Nat, n <= Len(plan[r]),
           pc[r] \notin {"idle", "failed", "awaiting", "done"},
           ReleaseFirst(r, n), UNCHANGED <<plan, items, order>>,
           deducted'[r] = 0,
           \A q \in Request \ {r} : deducted'[q] = deducted[q]
    PROVE  /\ ControlOK'
           /\ pc' \in [Request -> PC]
           /\ idx' \in [Request -> Nat \ {0}]
           /\ relEnd' \in [Request -> Nat]
<1> USE DEF IInv, ReleaseFirst, Goto, Ended
<1>1. /\ pc' \in [Request -> PC]
      /\ idx' \in [Request -> Nat \ {0}]
      /\ relEnd' \in [Request -> Nat]
  BY DEF TypeOK, PC, Releasing
<1>2. items[r] \in Carts \cup {<<>>} /\ order[r] \in Status
  BY DEF TypeOK
<1>3. Len(items[r]) \in Nat
  BY <1>2, CartFacts
<1>4. Control(r)'
  <2>1. CASE n = 0
    BY <1>2, <1>3, <2>1 DEF TypeOK, ControlOK, Control, Reserving, Releasing,
       Ordering, Deducting, Status
  <2>2. CASE n # 0
    BY <1>2, <1>3, <2>2 DEF TypeOK, ControlOK, Control, Reserving, Releasing,
       Ordering, Deducting, Status
  <2> QED
    BY <2>1, <2>2
<1>5. \A q \in Request \ {r} : pc'[q] = pc[q] /\ idx'[q] = idx[q] /\ relEnd'[q] = relEnd[q]
  BY DEF TypeOK
<1> QED
  BY <1>1, <1>4, <1>5, OthersControl

\* The optimistic check preserves IInv, release of earlier lines included.
LEMMA CheckAvailableInv ==
    ASSUME IInv, NEW r \in Request, CheckAvailable(r)
    PROVE  TypeOK' /\ ControlOK'
<1> USE DEF IInv, CheckAvailable, dbVars, redisVars
<1>1. idx[r] \in 1..Len(plan[r]) /\ Len(plan[r]) \in Nat
  BY PlanLine DEF Reserving
<1>2. deducted'[r] = 0
  BY DEF ControlOK, Control, Deducting
<1>3. CASE ReleaseFirst(r, idx[r] - 1)
  <2>1. /\ ControlOK'
        /\ pc' \in [Request -> PC]
        /\ idx' \in [Request -> Nat \ {0}]
        /\ relEnd' \in [Request -> Nat]
    BY <1>1, <1>2, <1>3, ReleaseFirstControl
  <2> QED
    BY <2>1 DEF TypeOK
<1>4. CASE Goto(r, "incr") /\ UNCHANGED <<idx, relEnd>>
  <2>1. TypeOK'
    BY <1>4 DEF TypeOK, PC, Reserving, Goto
  <2>2. Control(r)'
    BY <1>4 DEF TypeOK, ControlOK, Control, Reserving, Releasing, Ordering, Deducting, Goto
  <2>3. \A q \in Request \ {r} : pc'[q] = pc[q]
    BY <1>4 DEF TypeOK, Goto
  <2> QED
    BY <1>4, <2>1, <2>2, <2>3, OthersControl
<1> QED
  BY <1>3, <1>4

\* INCRBY and the check of its answer preserve IInv.
LEMMA IncrementInv ==
    ASSUME IInv, NEW r \in Request, Increment(r)
    PROVE  TypeOK' /\ ControlOK'
<1> USE DEF IInv, Increment, Goto, dbVars, localVars
<1>1. plan[r][idx[r]].sku \in SKU /\ plan[r][idx[r]].qty \in Int
  BY PlanLine DEF Reserving
<1>2. reserved' \in [SKU -> Int] /\ present' \subseteq SKU /\ expiring' \subseteq present'
  BY <1>1, IncrByType
<1>s. slipped' \subseteq SKU
  BY <1>1 DEF TypeOK, Slips
<1>3. TypeOK'
  BY <1>2, <1>s DEF TypeOK, PC, Reserving
<1>4. Control(r)'
  BY DEF TypeOK, ControlOK, Control, Reserving, Releasing, Ordering, Deducting
<1>5. \A q \in Request \ {r} : pc'[q] = pc[q]
  BY DEF TypeOK
<1> QED
  BY <1>3, <1>4, <1>5, OthersControl

\* Taking back an INCRBY that went beyond the stock preserves IInv.
LEMMA UndoInv ==
    ASSUME IInv, NEW r \in Request, Undo(r)
    PROVE  TypeOK' /\ ControlOK'
<1> USE DEF IInv, Undo, dbVars
<1>1. idx[r] \in 1..Len(plan[r]) /\ Len(plan[r]) \in Nat
      /\ plan[r][idx[r]].sku \in SKU /\ -plan[r][idx[r]].qty \in Int
  BY PlanLine DEF Reserving
<1>2. deducted'[r] = 0
  BY DEF ControlOK, Control, Deducting
<1>3. /\ ControlOK'
      /\ pc' \in [Request -> PC]
      /\ idx' \in [Request -> Nat \ {0}]
      /\ relEnd' \in [Request -> Nat]
  BY <1>1, <1>2, ReleaseFirstControl
<1>4. reserved' \in [SKU -> Int] /\ present' \subseteq SKU /\ expiring' \subseteq present'
  BY <1>1, IncrByType
<1> QED
  BY <1>3, <1>4 DEF TypeOK

\* EXPIRE, the last step for a line, preserves IInv.
LEMMA RefreshTtlInv ==
    ASSUME IInv, NEW r \in Request, RefreshTtl(r)
    PROVE  TypeOK' /\ ControlOK'
<1> USE DEF IInv, RefreshTtl, Goto, dbVars
<1>1. idx[r] \in 1..Len(plan[r]) /\ Len(plan[r]) \in Nat /\ plan[r] # <<>>
  BY PlanLine DEF Reserving, ControlOK, Control
<1>2. present' \subseteq SKU /\ expiring' \subseteq present' /\ UNCHANGED <<reserved, slipped>>
  BY DEF TypeOK, Expire
<1>3. TypeOK'
  BY <1>2 DEF TypeOK, PC, Reserving, InTx, Ordering
<1>4. Control(r)'
  <2>1. /\ pc'[r] = IF idx[r] < Len(plan[r]) THEN "read" ELSE "begin"
        /\ idx'[r] = idx[r] + 1
    BY DEF TypeOK
  <2>2. Control(r)
    BY DEF ControlOK
  <2>3. CASE idx[r] < Len(plan[r])
    BY <1>1, <2>1, <2>2, <2>3 DEF Control, Reserving, Releasing, Ordering, Deducting
  <2>4. CASE ~(idx[r] < Len(plan[r]))
    BY <1>1, <2>1, <2>2, <2>4 DEF Control, Reserving, Releasing, Ordering, Deducting
  <2> QED
    BY <2>3, <2>4
<1>5. \A q \in Request \ {r} : pc'[q] = pc[q] /\ idx'[q] = idx[q]
  BY DEF TypeOK
<1> QED
  BY <1>3, <1>4, <1>5, OthersControl

\* A release loop goes on with the next line, or the call ends.
LEMMA NextReleaseControl ==
    ASSUME IInv, NEW r \in Request, pc[r] \in Releasing,
           Goto(r, IF idx[r] < relEnd[r] THEN "decr" ELSE Ended(r)),
           idx' = [idx EXCEPT ![r] = @ + 1],
           UNCHANGED <<relEnd, plan, items, deducted, order>>
    PROVE  ControlOK' /\ pc' \in [Request -> PC] /\ idx' \in [Request -> Nat \ {0}]
<1> USE DEF IInv, Goto, Ended
<1>1. pc' \in [Request -> PC] /\ idx' \in [Request -> Nat \ {0}]
  BY DEF TypeOK, PC, Releasing
<1>2. order[r] \in Status
  BY DEF TypeOK
<1>3. idx[r] \in 1..Len(plan[r]) /\ Len(plan[r]) \in Nat /\ relEnd[r] \in Nat
  BY PlanLine DEF TypeOK
<1>4. Control(r)'
  <2>1. /\ pc'[r] = IF idx[r] < relEnd[r] THEN "decr" ELSE Ended(r)
        /\ idx'[r] = idx[r] + 1
    BY DEF TypeOK
  <2>2. Control(r) /\ deducted[r] = 0 /\ plan[r] # <<>> /\ order[r] # "CONFIRMED"
    BY DEF ControlOK, Control, Releasing, Deducting
  <2>3. CASE idx[r] < relEnd[r]
    BY <1>3, <2>1, <2>2, <2>3 DEF Control, Reserving, Releasing, Ordering, Deducting
  <2>4. CASE ~(idx[r] < relEnd[r])
    BY <1>2, <2>1, <2>2, <2>4 DEF Control, Reserving, Releasing, Ordering, Deducting, Status
  <2> QED
    BY <2>3, <2>4
<1>5. \A q \in Request \ {r} : pc'[q] = pc[q] /\ idx'[q] = idx[q]
  BY DEF TypeOK
<1> QED
  BY <1>1, <1>4, <1>5, OthersControl

\* releaseStock's DECRBY preserves IInv.
LEMMA ReleaseDecrInv ==
    ASSUME IInv, NEW r \in Request, ReleaseDecr(r)
    PROVE  TypeOK' /\ ControlOK'
<1> USE DEF IInv, ReleaseDecr, dbVars
<1>1. plan[r][idx[r]].sku \in SKU /\ -plan[r][idx[r]].qty \in Int
  BY PlanLine DEF Releasing
<1>2. reserved' \in [SKU -> Int] /\ present' \subseteq SKU /\ expiring' \subseteq present'
  BY <1>1, IncrByType
<1>3. CASE Goto(r, "del") /\ UNCHANGED idx
  <2>1. TypeOK'
    BY <1>2, <1>3 DEF TypeOK, PC, Releasing, Goto
  <2>2. Control(r)'
    BY <1>3 DEF TypeOK, ControlOK, Control, Reserving, Releasing, Ordering, Deducting, Goto
  <2>3. \A q \in Request \ {r} : pc'[q] = pc[q]
    BY <1>3 DEF TypeOK, Goto
  <2> QED
    BY <1>3, <2>1, <2>2, <2>3, OthersControl
<1>4. CASE /\ Goto(r, IF idx[r] < relEnd[r] THEN "decr" ELSE Ended(r))
           /\ idx' = [idx EXCEPT ![r] = @ + 1]
  <2>1. ControlOK' /\ pc' \in [Request -> PC] /\ idx' \in [Request -> Nat \ {0}]
    BY <1>4, NextReleaseControl DEF Releasing
  <2> QED
    BY <1>2, <2>1 DEF TypeOK
<1> QED
  BY <1>3, <1>4

\* releaseStock's DEL preserves IInv.
LEMMA ReleaseDelInv ==
    ASSUME IInv, NEW r \in Request, ReleaseDel(r)
    PROVE  TypeOK' /\ ControlOK'
<1> USE DEF IInv, ReleaseDel, dbVars
<1>1. plan[r][idx[r]].sku \in SKU
  BY PlanLine DEF Releasing
<1>2. reserved' \in [SKU -> Int] /\ present' \subseteq SKU /\ expiring' \subseteq present'
      /\ slipped' \subseteq SKU
  BY <1>1, DelType
<1>3. ControlOK' /\ pc' \in [Request -> PC] /\ idx' \in [Request -> Nat \ {0}]
  BY NextReleaseControl DEF Releasing
<1> QED
  BY <1>2, <1>3 DEF TypeOK

\* A rollback returns the request to the customer or sends it to the release
\* loop.  items' is given freely: BeginTx reads the cart before it rolls back.
LEMMA RollbackControl ==
    ASSUME IInv, NEW r \in Request, pc[r] \in InTx, Rollback(r), UNCHANGED order,
           items' \in [Request -> Carts \cup {<<>>}],
           \A q \in Request \ {r} : items'[q] = items[q],
           order[r] # "none" => items'[r] = items[r]
    PROVE  /\ ControlOK'
           /\ pc' \in [Request -> PC]
           /\ idx' \in [Request -> Nat \ {0}]
           /\ relEnd' \in [Request -> Nat]
           /\ deducted' \in [Request -> Nat]
<1> USE DEF IInv, Rollback, Goto
<1>1. deducted' \in [Request -> Nat] /\ deducted'[r] = 0
      /\ \A q \in Request \ {r} : deducted'[q] = deducted[q]
  BY DEF TypeOK
<1>2. plan[r] \in Carts \cup {<<>>} /\ items'[r] \in Carts \cup {<<>>}
      /\ order[r] \in Status
  BY DEF TypeOK
<1>3. Len(plan[r]) \in Nat /\ Len(items'[r]) \in Nat
  BY <1>2, CartFacts
<1>4. Control(r) /\ plan[r] # <<>> /\ order[r] # "CONFIRMED"
  BY DEF ControlOK, Control, InTx, Ordering, Deducting
<1>5. CASE order[r] = "PENDING_PAYMENT"
  <2>1. /\ pc' = [pc EXCEPT ![r] = "awaiting"] /\ UNCHANGED <<idx, relEnd>>
    BY <1>5
  <2>2. pc'[r] = "awaiting" /\ pc' \in [Request -> PC]
        /\ \A q \in Request \ {r} : pc'[q] = pc[q]
    BY <2>1 DEF TypeOK, PC
  <2>3. items'[r] # <<>>
    BY <1>4, <1>5 DEF Control
  <2>4. Control(r)'
    BY <1>1, <1>3, <1>4, <1>5, <2>2, <2>3 DEF Control, Reserving, Releasing,
       Ordering, Deducting
  <2>5. ControlOK'
    BY <1>1, <2>1, <2>2, <2>4, OthersControl
  <2> QED
    BY <1>1, <2>1, <2>2, <2>5 DEF TypeOK
<1>6. CASE order[r] # "PENDING_PAYMENT"
  <2> DEFINE n == Len(plan[r])
  <2>1. order[r] = "none"
    BY <1>2, <1>4, <1>6 DEF Status
  <2>2. /\ pc' = [pc EXCEPT ![r] = IF n = 0 THEN "failed" ELSE "decr"]
        /\ idx' = [idx EXCEPT ![r] = 1]
        /\ relEnd' = [relEnd EXCEPT ![r] = n]
    BY <1>6, <2>1 DEF ReleaseFirst, Ended
  <2>3. n > 0
    BY <1>2, <1>4, CartFacts
  <2>4. /\ pc' \in [Request -> PC] /\ pc'[r] = "decr"
        /\ idx' \in [Request -> Nat \ {0}] /\ idx'[r] = 1
        /\ relEnd' \in [Request -> Nat] /\ relEnd'[r] = n
        /\ \A q \in Request \ {r} :
              pc'[q] = pc[q] /\ idx'[q] = idx[q] /\ relEnd'[q] = relEnd[q]
    BY <1>3, <2>2, <2>3 DEF TypeOK, PC, Releasing
  <2>5. Control(r)'
    BY <1>1, <1>3, <1>4, <2>1, <2>3, <2>4 DEF Control, Reserving, Releasing,
       Ordering, Deducting
  <2>6. ControlOK'
    BY <1>1, <2>4, <2>5, OthersControl
  <2> QED
    BY <1>1, <2>4, <2>6
<1> QED
  BY <1>5, <1>6

\* The transaction's own read of the cart preserves IInv.
LEMMA BeginTxInv ==
    ASSUME IInv, NEW r \in Request, BeginTx(r)
    PROVE  IInv'
<1> USE DEF IInv, BeginTx, redisVars
<1>1. cart[Owner[r]] \in Carts \cup {<<>>}
  BY RequestsAssumption DEF TypeOK
<1>2. items' \in [Request -> Carts \cup {<<>>}] /\ items'[r] = cart[Owner[r]]
      /\ \A q \in Request \ {r} : items'[q] = items[q]
  BY <1>1 DEF TypeOK
<1>3. Control(r) /\ order[r] = "none" /\ deducted[r] = 0 /\ plan[r] # <<>>
  BY DEF ControlOK, Control, Ordering, Deducting
<1>4. deducted' = deducted
  BY <1>3 DEF Rollback, TypeOK
<1>5. TypeOK' /\ ControlOK'
  <2>1. CASE cart[Owner[r]] = <<>>
    <3>1. /\ ControlOK'
          /\ pc' \in [Request -> PC]
          /\ idx' \in [Request -> Nat \ {0}]
          /\ relEnd' \in [Request -> Nat]
          /\ deducted' \in [Request -> Nat]
      BY <1>2, <1>3, <2>1, RollbackControl DEF InTx, Ordering
    <3> QED
      BY <1>2, <2>1, <3>1 DEF TypeOK, Rollback
  <2>2. CASE cart[Owner[r]] # <<>>
    <3>0. pc' = [pc EXCEPT ![r] = "txCheck"] /\ idx' = [idx EXCEPT ![r] = 1]
      BY <2>2 DEF Goto
    <3>1. pc' \in [Request -> PC] /\ pc'[r] = "txCheck"
          /\ idx' \in [Request -> Nat \ {0}] /\ idx'[r] = 1
          /\ \A q \in Request \ {r} : pc'[q] = pc[q] /\ idx'[q] = idx[q]
      BY <3>0 DEF TypeOK, PC, InTx, Ordering
    <3>2. Len(items'[r]) \in Nat /\ Len(items'[r]) > 0
      BY <1>1, <1>2, <2>2, CartFacts
    <3>3. Control(r)'
      BY <1>2, <1>3, <1>4, <2>2, <3>1, <3>2 DEF Control, Reserving, Releasing,
         Ordering, Deducting
    <3>4. ControlOK'
      BY <1>2, <2>2, <3>1, <3>3, OthersControl
    <3> QED
      BY <1>2, <2>2, <3>1, <3>4 DEF TypeOK
  <2> QED
    BY <2>1, <2>2
<1>6. \A q \in Request : Locked(q)' = Locked(q)
  <2> SUFFICES ASSUME NEW q \in Request PROVE Locked(q)' = Locked(q)
    OBVIOUS
  <2>1. CASE q = r
    BY <1>3, <1>4, <2>1 DEF Locked
  <2>2. CASE q # r
    BY <1>2, <1>4, <2>2 DEF Locked
  <2> QED
    BY <2>1, <2>2
<1>7. RowsLockedOnce'
  BY <1>6 DEF RowsLockedOnce
<1>8. LockedRowsSuffice'
  BY <1>2, <1>3, <1>4 DEF LockedRowsSuffice
<1> QED
  BY <1>5, <1>7, <1>8 DEF StockNeverNegative

\* The transaction's check of a line preserves IInv.
LEMMA CheckLineInv ==
    ASSUME IInv, NEW r \in Request, CheckLine(r)
    PROVE  IInv'
<1> USE DEF IInv, CheckLine, dbVars, redisVars
<1>1. Control(r) /\ deducted[r] = 0 /\ order[r] = "none" /\ plan[r] # <<>>
  BY DEF ControlOK, Control, Ordering, Deducting
<1>2. items[r] \in Carts \cup {<<>>} /\ idx[r] \in Nat \ {0}
  BY DEF TypeOK
<1>3. Len(items[r]) \in Nat /\ idx[r] <= Len(items[r])
  BY <1>1, <1>2, CartFacts DEF Control
<1>4. deducted' = deducted
  BY <1>1 DEF Rollback, TypeOK
<1>5. TypeOK' /\ ControlOK'
  <2>1. CASE Rollback(r)
    <3>1. /\ ControlOK'
          /\ pc' \in [Request -> PC]
          /\ idx' \in [Request -> Nat \ {0}]
          /\ relEnd' \in [Request -> Nat]
      BY <2>1, RollbackControl DEF InTx, Ordering, TypeOK
    <3> QED
      BY <1>4, <2>1, <3>1 DEF TypeOK, Rollback
  <2>2. CASE /\ idx' = [idx EXCEPT ![r] = @ + 1]
             /\ Goto(r, IF idx[r] < Len(items[r]) THEN "txCheck" ELSE "txClear")
             /\ UNCHANGED <<plan, relEnd, seen, deducted>>
    <3>1. pc' \in [Request -> PC]
          /\ pc'[r] = (IF idx[r] < Len(items[r]) THEN "txCheck" ELSE "txClear")
          /\ idx' \in [Request -> Nat \ {0}] /\ idx'[r] = idx[r] + 1
          /\ \A q \in Request \ {r} : pc'[q] = pc[q] /\ idx'[q] = idx[q]
      BY <2>2 DEF TypeOK, Goto, PC, InTx, Ordering
    <3>2. items[r] # <<>>
      BY <1>2, <1>3
    <3>3. Control(r)'
      BY <1>1, <1>2, <1>3, <2>2, <3>1, <3>2 DEF Control, Reserving, Releasing,
         Ordering, Deducting
    <3>4. ControlOK'
      BY <2>2, <3>1, <3>3, OthersControl
    <3> QED
      BY <2>2, <3>1, <3>4 DEF TypeOK
  <2> QED
    BY <2>1, <2>2
<1> QED
  BY <1>4, <1>5, RowsUnchanged DEF RowsOK

\* Clearing the cart preserves IInv, also where it commits an ONLINE checkout.
LEMMA ClearCartInv ==
    ASSUME IInv, NEW r \in Request, ClearCart(r)
    PROVE  IInv'
<1> USE DEF IInv, ClearCart, Goto, redisVars, localVars
<1>1. Control(r) /\ deducted[r] = 0 /\ order[r] = "none" /\ plan[r] # <<>>
      /\ items[r] # <<>>
  BY DEF ControlOK, Control, Ordering, Deducting
<1>2. Len(items[r]) > 0
  BY <1>1, CartFacts DEF TypeOK
<1>3. CASE Mode[r] = "COD"
  <2>1. pc' = [pc EXCEPT ![r] = "deduct"] /\ UNCHANGED <<cart, order>>
    BY <1>3
  <2>2. pc' \in [Request -> PC] /\ pc'[r] = "deduct"
        /\ \A q \in Request \ {r} : pc'[q] = pc[q]
    BY <2>1 DEF TypeOK, PC, InTx, Deducting
  <2>3. Control(r)'
    BY <1>1, <1>2, <2>1, <2>2 DEF Control, Reserving, Releasing, Ordering, Deducting
  <2>4. TypeOK' /\ ControlOK'
    BY <2>1, <2>2, <2>3, OthersControl DEF TypeOK
  <2> QED
    BY <2>4, RowsUnchanged DEF RowsOK
<1>4. CASE Mode[r] # "COD"
  <2>1. /\ pc' = [pc EXCEPT ![r] = "linkPayment"]
        /\ order' = [order EXCEPT ![r] = "PENDING_PAYMENT"]
        /\ cart' = [cart EXCEPT ![Owner[r]] = <<>>]
    BY <1>4
  <2>2. pc' \in [Request -> PC] /\ pc'[r] = "linkPayment"
        /\ order' \in [Request -> Status] /\ order'[r] = "PENDING_PAYMENT"
        /\ cart' \in [User -> Carts \cup {<<>>}]
        /\ \A q \in Request \ {r} : pc'[q] = pc[q] /\ order'[q] = order[q]
    BY <2>1 DEF TypeOK, PC, Status
  <2>3. Control(r)'
    BY <1>1, <2>2 DEF Control, Reserving, Releasing, Ordering, Deducting
  <2>4. TypeOK' /\ ControlOK'
    BY <2>2, <2>3, OthersControl DEF TypeOK
  <2> QED
    BY <2>4, RowsUnchanged DEF RowsOK
<1> QED
  BY <1>3, <1>4

\* deductStock's conditional UPDATE preserves IInv: the row was free and has the units.
LEMMA DeductRowInv ==
    ASSUME IInv, NEW r \in Request, DeductRow(r)
    PROVE  IInv'
<1> USE DEF IInv, DeductRow, dbVars, redisVars
<1> DEFINE line == items[r][deducted[r] + 1]
<1>1. Control(r) /\ plan[r] # <<>> /\ items[r] \in Carts \cup {<<>>}
      /\ deducted[r] \in Nat /\ deducted[r] < Len(items[r])
  BY DEF ControlOK, Control, TypeOK
<1>2. Len(items[r]) \in Nat /\ deducted[r] + 1 \in 1..Len(items[r])
  BY <1>1, CartFacts
<1>3. line.sku \in SKU /\ line.qty \in Nat
  BY <1>1, <1>2, CartFacts
<1>4. CASE stock[line.sku] < line.qty
  <2>1. Rollback(r)
    BY <1>4
  <2>2. /\ ControlOK'
        /\ pc' \in [Request -> PC]
        /\ idx' \in [Request -> Nat \ {0}]
        /\ relEnd' \in [Request -> Nat]
        /\ deducted' \in [Request -> Nat]
    BY <2>1, RollbackControl DEF InTx, Deducting, TypeOK
  <2>3. TypeOK'
    BY <2>1, <2>2 DEF TypeOK, Rollback
  <2>4. RowsOK'
    BY <2>1, RowsRolledBack DEF RowsOK, Rollback
  <2> QED
    BY <2>2, <2>3, <2>4 DEF RowsOK
<1>5. CASE ~(stock[line.sku] < line.qty)
  <2>1. /\ deducted' = [deducted EXCEPT ![r] = deducted[r] + 1]
        /\ pc' = [pc EXCEPT ![r] = "txDecr"]
        /\ UNCHANGED <<plan, idx, relEnd, seen>>
    BY <1>5 DEF Goto
  <2>2. pc' \in [Request -> PC] /\ pc'[r] = "txDecr"
        /\ deducted' \in [Request -> Nat] /\ deducted'[r] = deducted[r] + 1
        /\ \A q \in Request \ {r} : pc'[q] = pc[q] /\ deducted'[q] = deducted[q]
    BY <2>1 DEF TypeOK, PC, InTx, Deducting
  <2>3. Control(r)'
    BY <1>1, <1>2, <2>1, <2>2 DEF Control, Reserving, Releasing, Ordering, Deducting
  <2>4. TypeOK' /\ ControlOK'
    BY <2>1, <2>2, <2>3, OthersControl DEF TypeOK
  <2>5. stock[line.sku] >= line.qty
    BY <1>3, <1>5 DEF TypeOK
  <2>6. RowsOK'
    BY <1>1, <2>1, <2>5, RowLocked DEF RowsOK
  <2> QED
    BY <2>4, <2>6 DEF RowsOK
<1> QED
  BY <1>4, <1>5

\* After a line is deducted the transaction goes to the next one or commits.
LEMMA NextDeductionControl ==
    ASSUME IInv, NEW r \in Request, pc[r] \in {"txDecr", "txDel"},
           NEW l \in {"txDel", NextDeduction(r)}, Goto(r, l), UNCHANGED localVars,
           UNCHANGED dbVars
    PROVE  ControlOK' /\ pc' \in [Request -> PC]
<1> USE DEF IInv, Goto, localVars, dbVars
<1>1. Control(r) /\ plan[r] # <<>> /\ items[r] \in Carts \cup {<<>>}
      /\ deducted[r] \in Nat \ {0} /\ deducted[r] <= Len(items[r])
  BY DEF ControlOK, Control, TypeOK
<1>2. Len(items[r]) \in Nat
  BY <1>1, CartFacts
<1>3. l \in {"txDel", "deduct", "commit"}
  BY DEF NextDeduction
<1>4. pc' \in [Request -> PC] /\ pc'[r] = l
      /\ \A q \in Request \ {r} : pc'[q] = pc[q]
  BY <1>3 DEF TypeOK, PC, InTx, Deducting
<1>5. Control(r)'
  BY <1>1, <1>2, <1>4 DEF Control, Reserving, Releasing, Ordering, Deducting, NextDeduction
<1> QED
  BY <1>4, <1>5, OthersControl

\* The line just deducted.
LEMMA DeductedLine ==
    ASSUME IInv, NEW r \in Request, pc[r] \in {"txDecr", "txDel"}
    PROVE  items[r][deducted[r]].sku \in SKU /\ items[r][deducted[r]].qty \in Nat
<1>1. items[r] \in Carts \cup {<<>>} /\ deducted[r] \in Nat
      /\ deducted[r] > 0 /\ deducted[r] <= Len(items[r])
  BY DEF IInv, ControlOK, Control, TypeOK
<1>2. deducted[r] \in 1..Len(items[r])
  BY <1>1, CartFacts
<1> QED
  BY <1>1, <1>2, CartFacts

\* deductStock's DECRBY preserves IInv.
LEMMA TxReleaseDecrInv ==
    ASSUME IInv, NEW r \in Request, TxReleaseDecr(r)
    PROVE  IInv'
<1> USE DEF IInv, TxReleaseDecr
<1>1. items[r][deducted[r]].sku \in SKU /\ -items[r][deducted[r]].qty \in Int
  BY DeductedLine
<1>2. reserved' \in [SKU -> Int] /\ present' \subseteq SKU /\ expiring' \subseteq present'
  BY <1>1, IncrByType
<1>3. ControlOK' /\ pc' \in [Request -> PC]
  BY NextDeductionControl
<1>4. TypeOK'
  BY <1>2, <1>3 DEF TypeOK, dbVars, localVars
<1> QED
  BY <1>3, <1>4, RowsUnchanged DEF RowsOK, dbVars, localVars

\* deductStock's DEL preserves IInv.
LEMMA TxReleaseDelInv ==
    ASSUME IInv, NEW r \in Request, TxReleaseDel(r)
    PROVE  IInv'
<1> USE DEF IInv, TxReleaseDel
<1>1. items[r][deducted[r]].sku \in SKU
  BY DeductedLine
<1>2. reserved' \in [SKU -> Int] /\ present' \subseteq SKU /\ expiring' \subseteq present'
      /\ slipped' \subseteq SKU
  BY <1>1, DelType
<1>3. ControlOK' /\ pc' \in [Request -> PC]
  BY NextDeductionControl
<1>4. TypeOK'
  BY <1>2, <1>3 DEF TypeOK, dbVars, localVars
<1> QED
  BY <1>3, <1>4, RowsUnchanged DEF RowsOK, dbVars, localVars

\* The commit preserves IInv: it takes only from rows the transaction has locked.
LEMMA CommitInv ==
    ASSUME IInv, NEW r \in Request, Commit(r)
    PROVE  IInv'
<1> USE DEF IInv, Commit, Goto, redisVars
<1>1. Control(r) /\ plan[r] # <<>> /\ items[r] \in Carts \cup {<<>>}
      /\ deducted[r] = Len(items[r]) /\ deducted[r] \in Nat /\ Len(items[r]) \in Nat
  BY CartFacts DEF ControlOK, Control, TypeOK
<1>2. RowsOK' /\ stock' \in [SKU -> Int]
  BY <1>1, RowsCommitted DEF RowsOK
<1>3. pc' \in [Request -> PC] /\ pc'[r] = "done"
      /\ order' \in [Request -> Status] /\ order'[r] = "CONFIRMED"
      /\ deducted' \in [Request -> Nat] /\ deducted'[r] = 0
      /\ \A q \in Request \ {r} :
            pc'[q] = pc[q] /\ order'[q] = order[q] /\ deducted'[q] = deducted[q]
  BY DEF TypeOK, PC, Status
<1>4. cart' \in [User -> Carts \cup {<<>>}]
  BY DEF TypeOK
<1>5. items[r] # <<>>
  BY DEF ControlOK, Control, Deducting
<1>6. Control(r)'
  BY <1>1, <1>3, <1>5 DEF Control, Reserving, Releasing, Ordering, Deducting
<1>7. ControlOK'
  BY <1>3, <1>6, OthersControl
<1>8. TypeOK'
  BY <1>2, <1>3, <1>4 DEF TypeOK
<1> QED
  BY <1>2, <1>7, <1>8 DEF RowsOK

\* A bound's counter goes up by one.
LEMMA UsedType ==
    ASSUME used \in Used,
           \/ \E r \in Request : used' = [used EXCEPT !.confirms[r] = @ + 1]
           \/ used' = [used EXCEPT !.edits = @ + 1]
           \/ used' = [used EXCEPT !.crashes = @ + 1]
           \/ used' = [used EXCEPT !.expiries = @ + 1]
           \/ used' = [used EXCEPT !.scans = @ + 1]
    PROVE  used' \in Used
<1>1. CASE \E r \in Request : used' = [used EXCEPT !.confirms[r] = @ + 1]
  BY <1>1 DEF Used
<1>2. CASE used' = [used EXCEPT !.edits = @ + 1]
  BY <1>2 DEF Used
<1>3. CASE used' = [used EXCEPT !.crashes = @ + 1]
  BY <1>3 DEF Used
<1>4. CASE used' = [used EXCEPT !.expiries = @ + 1]
  BY <1>4 DEF Used
<1>5. CASE used' = [used EXCEPT !.scans = @ + 1]
  BY <1>5 DEF Used
<1> QED
  BY <1>1, <1>2, <1>3, <1>4, <1>5

\* A rollback, for any reason, preserves IInv.
LEMMA AbortTxInv ==
    ASSUME IInv, NEW r \in Request, AbortTx(r)
    PROVE  IInv'
<1> USE DEF IInv, AbortTx, dbVars, redisVars
<1>1. /\ ControlOK'
      /\ pc' \in [Request -> PC]
      /\ idx' \in [Request -> Nat \ {0}]
      /\ relEnd' \in [Request -> Nat]
      /\ deducted' \in [Request -> Nat]
  BY RollbackControl DEF TypeOK
<1>2. TypeOK'
  BY <1>1 DEF TypeOK, Rollback
<1>3. RowsOK'
  BY RowsRolledBack DEF RowsOK, Rollback
<1> QED
  BY <1>1, <1>2, <1>3 DEF RowsOK

\* Linking the Razorpay order, or failing to, preserves IInv.
LEMMA LinkPaymentInv ==
    ASSUME IInv, NEW r \in Request, LinkPayment(r)
    PROVE  IInv'
<1> USE DEF IInv, LinkPayment, dbVars, redisVars
<1>1. Control(r) /\ plan[r] # <<>> /\ order[r] = "PENDING_PAYMENT"
      /\ deducted[r] = 0 /\ plan[r] \in Carts \cup {<<>>}
  BY DEF ControlOK, Control, Deducting, TypeOK
<1>2. Len(plan[r]) \in Nat
  BY <1>1, CartFacts
<1>3. TypeOK' /\ ControlOK'
  <2>1. CASE Goto(r, "awaiting") /\ UNCHANGED <<idx, relEnd>>
    <3>1. pc' \in [Request -> PC] /\ pc'[r] = "awaiting"
          /\ \A q \in Request \ {r} : pc'[q] = pc[q]
      BY <2>1 DEF TypeOK, PC, Goto
    <3>2. Control(r)'
      BY <1>1, <2>1, <3>1 DEF Control, Reserving, Releasing, Ordering, Deducting
    <3> QED
      BY <2>1, <3>1, <3>2, OthersControl DEF TypeOK
  <2>2. CASE ReleaseFirst(r, Len(plan[r]))
    <3>1. /\ ControlOK'
          /\ pc' \in [Request -> PC]
          /\ idx' \in [Request -> Nat \ {0}]
          /\ relEnd' \in [Request -> Nat]
      BY <1>1, <1>2, <2>2, ReleaseFirstControl
    <3> QED
      BY <3>1 DEF TypeOK
  <2> QED
    BY <2>1, <2>2
<1> QED
  BY <1>3, RowsUnchanged DEF RowsOK

\* The start of a confirmation preserves IInv.
LEMMA StartConfirmInv ==
    ASSUME IInv, NEW r \in Request, StartConfirm(r)
    PROVE  IInv'
<1> USE DEF IInv, StartConfirm, Goto, dbVars, redisVars, localVars
<1>1. Control(r) /\ plan[r] # <<>> /\ order[r] = "PENDING_PAYMENT"
      /\ deducted[r] = 0 /\ items[r] \in Carts \cup {<<>>} /\ items[r] # <<>>
  BY DEF ControlOK, Control, Deducting, TypeOK
<1>2. Len(items[r]) > 0
  BY <1>1, CartFacts
<1>3. pc' \in [Request -> PC] /\ pc'[r] = "deduct"
      /\ \A q \in Request \ {r} : pc'[q] = pc[q]
  BY DEF TypeOK, PC, InTx, Deducting
<1>4. Control(r)'
  BY <1>1, <1>2, <1>3 DEF Control, Reserving, Releasing, Ordering, Deducting
<1>5. used' \in Used
  BY UsedType DEF TypeOK
<1>6. TypeOK' /\ ControlOK'
  BY <1>3, <1>4, <1>5, OthersControl DEF TypeOK
<1> QED
  BY <1>6, RowsUnchanged DEF RowsOK

\* The crash of a process preserves IInv.
LEMMA CrashInv ==
    ASSUME IInv, NEW r \in Request, Crash(r)
    PROVE  IInv'
<1> USE DEF IInv, Crash, Goto, dbVars, redisVars
<1>1. Control(r) /\ plan[r] # <<>> /\ order[r] \in Status /\ order[r] # "CONFIRMED"
      /\ items[r] \in Carts \cup {<<>>}
  BY DEF ControlOK, Control, TypeOK
<1>2. Len(items[r]) \in Nat
  BY <1>1, CartFacts
<1>3. deducted' \in [Request -> Nat] /\ deducted'[r] = 0
      /\ pc'[r] = Ended(r) /\ pc' \in [Request -> PC]
      /\ \A q \in Request \ {r} : pc'[q] = pc[q] /\ deducted'[q] = deducted[q]
  BY DEF TypeOK, PC, Ended
<1>4. Control(r)'
  BY <1>1, <1>2, <1>3 DEF Control, Ended, Reserving, Releasing, Ordering, Deducting, Status
<1>5. used' \in Used
  BY UsedType DEF TypeOK
<1>s. slipped' \subseteq SKU
  BY PlanLine DEF TypeOK, Reserving
<1>6. TypeOK' /\ ControlOK'
  BY <1>3, <1>4, <1>5, <1>s, OthersControl DEF TypeOK
<1>7. RowsOK'
  BY RowsRolledBack DEF RowsOK
<1> QED
  BY <1>6, <1>7 DEF RowsOK

\* A change of the cart by its owner preserves IInv.
LEMMA EditCartInv ==
    ASSUME IInv, NEW u \in User, EditCart(u)
    PROVE  IInv'
<1> USE DEF IInv, EditCart, redisVars, localVars
<1>1. cart' \in [User -> Carts \cup {<<>>}] /\ used' \in Used
  BY UsedType DEF TypeOK
<1>2. TypeOK' /\ ControlOK'
  BY <1>1, ControlUnchanged DEF TypeOK
<1> QED
  BY <1>2, RowsUnchanged DEF RowsOK

\* The end of a reservation key's time to live preserves IInv.
LEMMA KeyExpiresInv ==
    ASSUME IInv, NEW s \in SKU, KeyExpires(s)
    PROVE  IInv'
<1> USE DEF IInv, KeyExpires, dbVars, localVars
<1>1. used' \in Used
  BY UsedType DEF TypeOK
<1>2. reserved' \in [SKU -> Int] /\ present' \subseteq SKU /\ expiring' \subseteq present'
      /\ slipped' \subseteq SKU
  BY DelType
<1>3. TypeOK' /\ ControlOK'
  BY <1>1, <1>2, ControlUnchanged DEF TypeOK
<1> QED
  BY <1>3, RowsUnchanged DEF RowsOK

\* Every step of the cron.
LEMMA CronInv ==
    ASSUME IInv, Cron
    PROVE  IInv'
<1> USE DEF IInv, dbVars, localVars, redisVars
<1>1. CASE ScanKeys
  <2>1. used' \in Used /\ scan' \in Scan
    BY <1>1, UsedType DEF ScanKeys, TypeOK, Scan
  <2>2. TypeOK' /\ ControlOK'
    BY <1>1, <2>1, ControlUnchanged DEF ScanKeys, TypeOK
  <2> QED
    BY <1>1, <2>2, RowsUnchanged DEF ScanKeys, RowsOK
<1>2. CASE ScanOrders
  <2>1. ASSUME NEW r \in Request PROVE Skus(items[r]) \subseteq SKU
    <3>1. items[r] \in Carts \cup {<<>>}
      BY DEF TypeOK
    <3> QED
      BY <3>1, CartFacts DEF Skus
  <2>2. scan' \in Scan
    <3> DEFINE P == UNION {Skus(items[r]) : r \in
                              {q \in Request : order[q] = "PENDING_PAYMENT"}}
    <3>1. P \subseteq SKU
      BY <2>1
    <3>2. scan' = [[scan EXCEPT !.at = "keys"] EXCEPT !.pending = P]
      BY <1>2 DEF ScanOrders
    <3> HIDE DEF P
    <3> QED
      BY <3>1, <3>2 DEF TypeOK, Scan
  <2>3. TypeOK' /\ ControlOK'
    BY <1>2, <2>2, ControlUnchanged DEF ScanOrders, TypeOK
  <2> QED
    BY <1>2, <2>3, RowsUnchanged DEF ScanOrders, RowsOK
<1>3. ASSUME NEW s \in SKU, ScanKey(s)
      PROVE  IInv'
  <2>1. scan' \in Scan
    BY <1>3 DEF ScanKey, TypeOK, Scan
  <2>2. TypeOK' /\ ControlOK'
    BY <1>3, <2>1, ControlUnchanged DEF ScanKey, TypeOK
  <2> QED
    BY <1>3, <2>2, RowsUnchanged DEF ScanKey, RowsOK
<1>4. ASSUME NEW s \in SKU, ScanDelete(s)
      PROVE  IInv'
  <2>1. scan' \in Scan
    BY <1>4 DEF ScanDelete, TypeOK, Scan
  <2>2. reserved' \in [SKU -> Int] /\ present' \subseteq SKU /\ expiring' \subseteq present'
      /\ slipped' \subseteq SKU
    BY <1>4, DelType DEF ScanDelete
  <2>3. TypeOK' /\ ControlOK'
    BY <1>4, <2>1, <2>2, ControlUnchanged DEF ScanDelete, TypeOK
  <2> QED
    BY <1>4, <2>3, RowsUnchanged DEF ScanDelete, RowsOK
<1>5. CASE ScanEnds
  <2>1. scan' \in Scan
    BY <1>5 DEF ScanEnds, TypeOK, Scan
  <2>2. TypeOK' /\ ControlOK'
    BY <1>5, <2>1, ControlUnchanged DEF ScanEnds, TypeOK
  <2> QED
    BY <1>5, <2>2, RowsUnchanged DEF ScanEnds, RowsOK
<1> QED
  BY <1>1, <1>2, <1>3, <1>4, <1>5 DEF Cron

-----------------------------------------------------------------------------
(* The inductive invariant                                                 *)

\* IInv holds initially: nothing is locked, and no stock is negative.
LEMMA InitInv == Init => IInv
<1> SUFFICES ASSUME Init PROVE IInv
  OBVIOUS
<1> USE DEF Init
<1>1. TypeOK
  <2>1. scan \in Scan
    BY DEF Scan
  <2>2. used \in Used
    BY DEF Used
  <2> QED
    BY <2>1, <2>2, StockAssumption DEF TypeOK, Status, PC
<1>2. ASSUME NEW r \in Request PROVE Control(r)
  <2>1. /\ pc[r] = "idle" /\ order[r] = "none" /\ idx[r] = 1
        /\ deducted[r] = 0 /\ items[r] = <<>> /\ Len(<<>>) = 0
    OBVIOUS
  <2> QED
    BY <2>1 DEF Control, Reserving, Releasing, Ordering, Deducting
<1>3. RowsLockedOnce /\ LockedRowsSuffice
  BY DEF RowsLockedOnce, LockedRowsSuffice, Locked
<1>4. StockNeverNegative
  BY StockAssumption DEF StockNeverNegative
<1> QED
  BY <1>1, <1>2, <1>3, <1>4 DEF IInv, ControlOK

\* The steps before the transaction and the release loop touch no stock row.
LEMMA ReserveInv ==
    ASSUME IInv, NEW r \in Request, Reserve(r) \/ Release(r)
    PROVE  IInv'
<1>1. TypeOK' /\ ControlOK'
  BY PrefetchInv, ReadStockInv, CheckAvailableInv, IncrementInv, UndoInv,
     RefreshTtlInv, ReleaseDecrInv, ReleaseDelInv DEF Reserve, Release
<1>2. UNCHANGED <<stock, items, deducted>>
  BY DEF Reserve, Release, Prefetch, ReadStock, CheckAvailable, Increment, Undo,
     RefreshTtl, ReleaseDecr, ReleaseDel, dbVars, localVars
<1> QED
  BY <1>1, <1>2, RowsUnchanged DEF IInv, RowsOK

\* IInv is inductive.
LEMMA NextInv == IInv /\ [Next]_vars => IInv'
<1> SUFFICES ASSUME IInv, [Next]_vars PROVE IInv'
  OBVIOUS
<1>1. ASSUME NEW r \in Request, Step(r)
      PROVE  IInv'
  BY <1>1, ReserveInv, BeginTxInv, CheckLineInv, ClearCartInv, DeductRowInv,
     TxReleaseDecrInv, TxReleaseDelInv, CommitInv, LinkPaymentInv
  DEF Step, Transact
<1>2. ASSUME NEW r \in Request, AbortTx(r) \/ StartConfirm(r) \/ Crash(r)
      PROVE  IInv'
  BY <1>2, AbortTxInv, StartConfirmInv, CrashInv
<1>3. ASSUME NEW u \in User, EditCart(u)
      PROVE  IInv'
  BY <1>3, EditCartInv
<1>4. ASSUME NEW s \in SKU, KeyExpires(s)
      PROVE  IInv'
  BY <1>4, KeyExpiresInv
<1>5. CASE Cron
  BY <1>5, CronInv
<1>6. CASE UNCHANGED vars
  <2>1. TypeOK' /\ ControlOK'
    BY <1>6, ControlUnchanged DEF IInv, TypeOK, vars
  <2> QED
    BY <1>6, <2>1, RowsUnchanged DEF IInv, RowsOK, vars
<1> QED
  BY <1>1, <1>2, <1>3, <1>4, <1>5, <1>6 DEF Next

\* The inductive invariant holds of every behaviour of checkout, confirmation,
\* cron and Redis, for any requests, carts, stock and bounds.
THEOREM Invariance == Spec => []IInv
BY InitInv, NextInv, PTL DEF Spec

\* Type correctness of the checkout, for every instance.
THEOREM TypeCorrect == Spec => []TypeOK
<1>1. IInv => TypeOK
  BY DEF IInv
<1> QED
  BY <1>1, Invariance, PTL

\* No oversell: the conditional UPDATE in deductStock, with the row locks held
\* to the end of the transaction, keeps every stock row at zero or above, for
\* any number of concurrent checkouts and confirmations.
THEOREM NoOversell == Spec => []StockNeverNegative
<1>1. IInv => StockNeverNegative
  BY DEF IInv
<1> QED
  BY <1>1, Invariance, PTL

-----------------------------------------------------------------------------
(* Refinement                                                              *)

\* What AtomicSale sees as sold.
Sold == [r \in Request |-> IF order[r] = "CONFIRMED" THEN items[r] ELSE <<>>]

\* The commit of a transaction is the sale of its order.
LEMMA CommitSells ==
    ASSUME IInv, NEW r \in Request, Commit(r)
    PROVE  Sale!Next
<1> USE DEF IInv
<1>1. items[r] \in Carts /\ deducted[r] = Len(items[r]) /\ order[r] # "CONFIRMED"
  BY DEF Commit, TypeOK, ControlOK, Control, Deducting
<1>2. Sold[r] = <<>>
  BY <1>1 DEF Sold
<1>3. \A s \in SKU : Sale!Units(items[r], s) = Units(items[r], s)
  BY DEF Units, Skus, Sale!Units, Sale!Skus
<1>4. \A s \in SKU : stock[s] >= Sale!Units(items[r], s)
  BY <1>1, <1>3, AllLinesCovered DEF RowsOK
<1>5. stock' = [s \in SKU |-> stock[s] - Sale!Units(items[r], s)]
  BY <1>3 DEF Commit
<1>6. Sold' = [Sold EXCEPT ![r] = items[r]]
  BY DEF Commit, Sold, TypeOK
<1>7. PICK lines \in Carts : lines = items[r]
  BY <1>1
<1>8. Sale!Sell(r, lines)
  BY <1>2, <1>4, <1>5, <1>6, <1>7 DEF Sale!Sell, Sale!Nothing, Sold
<1> QED
  BY <1>8 DEF Sale!Next

\* Any other step leaves the rows and what is sold as they are.  Only an order
\* that is not confirmed changes its status or its lines.
LEMMA OthersStutter ==
    ASSUME IInv, [Next]_vars, \A r \in Request : ~Commit(r)
    PROVE  UNCHANGED <<stock, Sold>>
<1>1. ASSUME NEW r \in Request, BeginTx(r)
      PROVE  UNCHANGED <<stock, Sold>>
  BY <1>1 DEF BeginTx, IInv, TypeOK, ControlOK, Control, Ordering, Sold
<1>2. ASSUME NEW r \in Request, ClearCart(r)
      PROVE  UNCHANGED <<stock, Sold>>
  BY <1>2 DEF ClearCart, IInv, TypeOK, ControlOK, Control, Ordering, Sold
<1>3. CASE UNCHANGED <<stock, order, items>>
  BY <1>3 DEF Sold
<1>4. ASSUME NEW r \in Request, Step(r)
      PROVE  UNCHANGED <<stock, Sold>>
  BY <1>1, <1>2, <1>3, <1>4 DEF Step, Reserve, Release, Transact, Prefetch, ReadStock,
     CheckAvailable, Increment, Undo, RefreshTtl, ReleaseDecr, ReleaseDel, CheckLine,
     DeductRow, TxReleaseDecr, TxReleaseDel, LinkPayment, dbVars
<1>5. ASSUME NEW r \in Request, AbortTx(r) \/ StartConfirm(r) \/ Crash(r)
      PROVE  UNCHANGED <<stock, Sold>>
  BY <1>3, <1>5 DEF AbortTx, StartConfirm, Crash, dbVars
<1>6. CASE \/ \E u \in User : EditCart(u)
           \/ \E s \in SKU : KeyExpires(s)
           \/ Cron
           \/ UNCHANGED vars
  BY <1>3, <1>6 DEF EditCart, KeyExpires, Cron, ScanKeys, ScanOrders, ScanKey,
     ScanDelete, ScanEnds, vars, dbVars
<1> QED
  BY <1>4, <1>5, <1>6 DEF Next

\* Sales are atomic: StockReservation implements AtomicSale.
THEOREM Refinement == Spec => SalesAreAtomic
<1>1. Init => Sale!Init
  BY DEF Init, Sale!Init, Sale!Nothing
<1>2. IInv /\ [Next]_vars => [Sale!Next]_(Sale!vars)
  <2> SUFFICES ASSUME IInv, [Next]_vars PROVE [Sale!Next]_(Sale!vars)
    OBVIOUS
  <2>1. CASE \E r \in Request : Commit(r)
    BY <2>1, CommitSells
  <2>2. CASE \A r \in Request : ~Commit(r)
    BY <2>2, OthersStutter DEF Sale!vars, Sold
  <2> QED
    BY <2>1, <2>2
<1> QED
  BY <1>1, <1>2, Invariance, PTL DEF Spec, SalesAreAtomic, Sale!Spec

-----------------------------------------------------------------------------
(* Units in numbers                                                        *)

\* The units of a request are as many as their last number says.
LEMMA UnitsOfOne ==
    ASSUME NEW r, NEW n \in Nat
    PROVE  IsFiniteSet({r} \X (1..n)) /\ Cardinality({r} \X (1..n)) = n
<1>1. IsFiniteSet(1..n) /\ Cardinality(1..n) = n
  BY FS_Interval
<1>2. IsFiniteSet({r}) /\ Cardinality({r}) = 1
  BY FS_Singleton
<1>3. /\ IsFiniteSet({r} \X (1..n))
      /\ Cardinality({r} \X (1..n)) = Cardinality({r}) * Cardinality(1..n)
  BY <1>1, <1>2, FS_Product
<1> QED
  BY <1>1, <1>2, <1>3

\* They add to those of others.
LEMMA UnitsAdd ==
    ASSUME NEW U, IsFiniteSet(U), NEW r, NEW n \in Nat, \A m : <<r, m>> \notin U,
           NEW V, V = U \cup ({r} \X (1..n))
    PROVE  /\ IsFiniteSet(V) /\ Cardinality(V) = Cardinality(U) + n
           /\ Cardinality(U) \in Nat /\ Cardinality(V) \in Nat
<1> DEFINE W == {r} \X (1..n)
<1>1. IsFiniteSet(W) /\ Cardinality(W) = n
  BY UnitsOfOne
<1>2. U \cap W = {}
  OBVIOUS
<1>3. IsFiniteSet(U \cup W) /\ Cardinality(U \cup W) = Cardinality(U) + n - Cardinality({})
  BY <1>1, <1>2, FS_Union
<1>4. Cardinality({}) = 0 /\ Cardinality(U) \in Nat
  BY FS_EmptySet, FS_CardinalityType
<1> QED
  BY <1>3, <1>4

-----------------------------------------------------------------------------
(* Units are conserved                                                     *)

\* At any time finitely many units have been sold, of any number of requests.
FinitelySold == \A s \in SKU : IsFiniteSet(UnitsSold(s))
ConservedInv == UnitsConserved /\ FinitelySold

LEMMA ConservedInit ==
    ASSUME Init
    PROVE  ConservedInv
<1>1. \A s \in SKU : UnitsSold(s) = {}
  BY DEF Init, UnitsSold
<1>2. \A s \in SKU : stock[s] = InitialStock[s] /\ InitialStock[s] \in Nat
  BY StockAssumption DEF Init
<1> QED
  BY <1>1, <1>2, FS_EmptySet DEF ConservedInv, UnitsConserved, FinitelySold

\* What is sold decides which units are.
LEMMA SoldUnits ==
    ASSUME IInv, IInv', Sold' = Sold, NEW s \in SKU
    PROVE  UnitsSold(s)' = UnitsSold(s)
<1>1. \A r \in Request : /\ order[r] = "CONFIRMED" <=> Sold[r] # <<>>
                         /\ order'[r] = "CONFIRMED" <=> Sold'[r] # <<>>
  BY DEF Sold, IInv, ControlOK, Control
<1>2. \A r \in Request : order[r] = "CONFIRMED" => items'[r] = items[r]
  BY <1>1 DEF Sold
<1> DEFINE Confirmed == {r \in Request : order[r] = "CONFIRMED"}
<1>3. {r \in Request : order'[r] = "CONFIRMED"} = Confirmed
  BY <1>1
<1>4. \A r \in Confirmed : {r} \X (1..Units(items'[r], s)) = {r} \X (1..Units(items[r], s))
  BY <1>2
<1> QED
  BY <1>3, <1>4 DEF UnitsSold

LEMMA CommitConserves ==
    ASSUME IInv, ConservedInv, NEW r \in Request, Commit(r)
    PROVE  ConservedInv'
<1>1. items[r] \in Carts \cup {<<>>} /\ order[r] # "CONFIRMED" /\ items' = items
  BY DEF Commit, IInv, TypeOK, ControlOK, Control, Deducting
<1>2. order'[r] = "CONFIRMED" /\ \A q \in Request \ {r} : order'[q] = order[q]
  BY DEF Commit, IInv, TypeOK
<1>3. ASSUME NEW s \in SKU
      PROVE  /\ IsFiniteSet(UnitsSold(s)')
             /\ stock'[s] + Cardinality(UnitsSold(s)') = InitialStock[s]
  <2> DEFINE n == Units(items[r], s)
  <2>1. n \in Nat
    BY <1>1, UnitsFacts
  <2>2. UnitsSold(s)' = UnitsSold(s) \cup ({r} \X (1..n))
    BY <1>1, <1>2 DEF UnitsSold
  <2>3. \A m : <<r, m>> \notin UnitsSold(s)
    BY <1>1 DEF UnitsSold
  <2>4. IsFiniteSet(UnitsSold(s))
    BY DEF ConservedInv, FinitelySold
  <2> HIDE DEF n
  <2>5. /\ IsFiniteSet(UnitsSold(s)') /\ Cardinality(UnitsSold(s)) \in Nat
        /\ Cardinality(UnitsSold(s)') = Cardinality(UnitsSold(s)) + n
    BY <2>1, <2>2, <2>3, <2>4, UnitsAdd
  <2>6. stock'[s] = stock[s] - n /\ stock[s] \in Int
    BY DEF Commit, IInv, TypeOK, n
  <2>7. stock[s] + Cardinality(UnitsSold(s)) = InitialStock[s]
    BY DEF ConservedInv, UnitsConserved
  <2> QED
    BY <2>1, <2>5, <2>6, <2>7
<1> QED
  BY <1>3 DEF ConservedInv, UnitsConserved, FinitelySold

LEMMA NextConserves ==
    ASSUME IInv, ConservedInv, [Next]_vars
    PROVE  ConservedInv'
<1>1. CASE \E r \in Request : Commit(r)
  BY <1>1, CommitConserves
<1>2. CASE \A r \in Request : ~Commit(r)
  <2>1. stock' = stock /\ Sold' = Sold
    BY <1>2, OthersStutter
  <2>2. \A s \in SKU : UnitsSold(s)' = UnitsSold(s)
    BY <2>1, NextInv, SoldUnits
  <2> QED
    BY <2>1, <2>2 DEF ConservedInv, UnitsConserved, FinitelySold
<1> QED
  BY <1>1, <1>2

\* Every unit that was there at the start is on hand or in one confirmed order.
THEOREM NoUnitLostOrSoldTwice == Spec => []UnitsConserved
<1>1. ConservedInv => UnitsConserved
  BY DEF ConservedInv
<1> QED
  BY <1>1, ConservedInit, NextConserves, Invariance, PTL DEF Spec

-----------------------------------------------------------------------------
(* The counter is bounded                                                  *)

\* The bound, with n units being taken back, leaves room for the units that an
\* open transaction has given back to the counter and is still to take from the
\* stock: no counter that has not slipped counts on them.
BoundedBy(s, n) ==
    /\ reserved[s] <= stock[s] + n
    /\ \A q \in Request : s \in Released(q) => reserved[s] + Units(items[q], s) <= stock[s] + n

\* At any time finitely many units are being taken back.
FinitelyUndone == \A s \in SKU : IsFiniteSet(BeingUndone(s))
CounterInv ==
    /\ \A s \in SKU \ slipped : BoundedBy(s, Cardinality(BeingUndone(s)))
    /\ FinitelyUndone

LEMMA CounterInit ==
    ASSUME Init
    PROVE  CounterInv
<1>1. \A s \in SKU : BeingUndone(s) = {}
  BY DEF Init, BeingUndone
<1>2. \A s \in SKU : reserved[s] = 0 /\ stock[s] \in Nat
  BY StockAssumption DEF Init
<1>3. \A q \in Request : Released(q) = {}
  BY DEF Init, Released
<1>4. FinitelyUndone
  BY <1>1, FS_EmptySet DEF FinitelyUndone
<1>5. ASSUME NEW s \in SKU
      PROVE  BoundedBy(s, Cardinality(BeingUndone(s)))
  <2>1. Cardinality(BeingUndone(s)) = 0
    BY <1>1, FS_EmptySet
  <2>2. BoundedBy(s, 0)
    BY <1>2, <1>3 DEF BoundedBy
  <2> QED
    BY <2>1, <2>2
<1> QED
  BY <1>4, <1>5 DEF CounterInv

\* Rows whose units have been released are locked and hold those units.
LEMMA ReleasedLocked ==
    ASSUME IInv, NEW q \in Request, NEW s \in Released(q)
    PROVE  /\ s \in Locked(q) /\ s \in SKU
           /\ Units(items[q], s) \in Nat /\ Units(items[q], s) <= stock[s]
<1>1. /\ items[q] \in Carts \cup {<<>>} /\ deducted[q] \in Nat
      /\ Len(items[q]) \in Nat /\ deducted[q] <= Len(items[q])
  BY CartFacts DEF IInv, TypeOK, ControlOK, Control
<1>2. PICK i \in 1..(deducted[q] - (IF pc[q] = "txDecr" THEN 1 ELSE 0)) : s = items[q][i].sku
  BY DEF Released
<1>3. i \in 1..deducted[q] /\ i \in 1..Len(items[q])
  BY <1>1, <1>2
<1>4. stock[s] >= items[q][i].qty
  BY <1>2, <1>3 DEF IInv, LockedRowsSuffice
<1>5. Units(items[q], s) = items[q][i].qty /\ items[q][i].qty \in Nat /\ s \in SKU
  BY <1>1, <1>2, <1>3, CartFacts, UnitsFacts
<1> QED
  BY <1>2, <1>3, <1>4, <1>5 DEF Locked

\* A step that lets nobody into or out of the undo.
LEMMA CounterKept ==
    ASSUME CounterInv,
           \A r \in Request : /\ pc'[r] = "undo" <=> pc[r] = "undo"
                              /\ pc[r] = "undo" => plan'[r] = plan[r] /\ idx'[r] = idx[r],
           \A s \in SKU \ slipped', n \in Nat : (s \notin slipped => BoundedBy(s, n)) => BoundedBy(s, n)'
    PROVE  CounterInv'
<1>1. ASSUME NEW s \in SKU
      PROVE  BeingUndone(s)' = BeingUndone(s)
  <2> DEFINE D == {r \in Request : pc[r] = "undo" /\ plan[r][idx[r]].sku = s}
  <2>1. {r \in Request : pc'[r] = "undo" /\ plan'[r][idx'[r]].sku = s} = D
    OBVIOUS
  <2>2. \A r \in D : {r} \X (1..plan'[r][idx'[r]].qty) = {r} \X (1..plan[r][idx[r]].qty)
    OBVIOUS
  <2> QED
    BY <2>1, <2>2 DEF BeingUndone
<1>2. FinitelyUndone'
  BY <1>1 DEF CounterInv, FinitelyUndone
<1>3. ASSUME NEW s \in SKU \ slipped'
      PROVE  BoundedBy(s, Cardinality(BeingUndone(s)))'
  <2>1. PICK n \in Nat : n = Cardinality(BeingUndone(s))
    BY FS_CardinalityType DEF CounterInv, FinitelyUndone
  <2>2. s \notin slipped => BoundedBy(s, n)
    BY <2>1 DEF CounterInv
  <2>3. BoundedBy(s, n)'
    BY <2>2
  <2> QED
    BY <1>1, <2>1, <2>3 DEF BoundedBy
<1> QED
  BY <1>2, <1>3 DEF CounterInv

\* A step that raises no counter and releases nothing inside a transaction.
LEMMA CounterUntouched ==
    ASSUME IInv, IInv', CounterInv, stock' = stock, slipped' = slipped,
           \A s \in SKU : reserved'[s] <= reserved[s],
           \A r \in Request : /\ pc'[r] = "undo" <=> pc[r] = "undo"
                              /\ pc[r] = "undo" => plan'[r] = plan[r] /\ idx'[r] = idx[r],
           \A q \in Request : \A s \in Released(q)' : s \in Released(q) /\ items'[q] = items[q]
    PROVE  CounterInv'
<1> SUFFICES ASSUME NEW s \in SKU, NEW n \in Nat, BoundedBy(s, n)
             PROVE  BoundedBy(s, n)'
  BY CounterKept
<1>1. reserved[s] \in Int /\ reserved'[s] \in Int /\ stock[s] \in Int /\ reserved'[s] <= reserved[s]
  BY DEF IInv, TypeOK
<1>2. ASSUME NEW q \in Request, s \in Released(q)'
      PROVE  reserved'[s] + Units(items'[q], s) <= stock'[s] + n
  <2>1. s \in Released(q) /\ items'[q] = items[q]
    BY <1>2
  <2>2. Units(items[q], s) \in Nat
    BY <2>1, ReleasedLocked
  <2> QED
    BY <1>1, <2>1, <2>2 DEF BoundedBy
<1> QED
  BY <1>1, <1>2 DEF BoundedBy

\* The same, for a step of one request that keeps its place among the deductions.
LEMMA CounterStep ==
    ASSUME IInv, IInv', CounterInv, NEW r \in Request, stock' = stock, slipped' = slipped,
           \A s \in SKU : reserved'[s] <= reserved[s],
           pc[r] # "undo", pc'[r] # "undo",
           \A q \in Request \ {r} : /\ pc'[q] = pc[q] /\ plan'[q] = plan[q]
                                    /\ idx'[q] = idx[q] /\ items'[q] = items[q]
                                    /\ deducted'[q] = deducted[q],
           \A s \in Released(r)' : s \in Released(r) /\ items'[r] = items[r]
    PROVE  CounterInv'
<1>1. \A q \in Request \ {r} : Released(q)' = Released(q)
  BY DEF Released
<1> QED
  BY <1>1, CounterUntouched

\* Where nothing has been deducted nothing has been released.
LEMMA NothingReleased ==
    ASSUME IInv, NEW q \in Request, pc[q] \notin Deducting
    PROVE  Released(q) = {}
<1>1. deducted[q] = 0 /\ pc[q] # "txDecr"
  BY DEF IInv, ControlOK, Control, Deducting
<1> QED
  BY <1>1 DEF Released

LEMMA NothingReleasedNext ==
    ASSUME IInv', NEW q \in Request, pc'[q] \notin Deducting
    PROVE  Released(q)' = {}
<1>1. deducted'[q] = 0 /\ pc'[q] # "txDecr"
  BY DEF IInv, ControlOK, Control, Deducting
<1> QED
  BY <1>1 DEF Released

\* A counter that is deleted holds nothing, and the stock is enough for what has
\* been released.
LEMMA DelKeepsCounter ==
    ASSUME IInv, IInv', CounterInv, NEW s \in SKU, Del(s), stock' = stock, items' = items,
           \A r \in Request : /\ pc'[r] = "undo" <=> pc[r] = "undo"
                              /\ pc[r] = "undo" => plan'[r] = plan[r] /\ idx'[r] = idx[r],
           \A q \in Request : Released(q)' = Released(q)
    PROVE  CounterInv'
<1>1. /\ \A t \in SKU \ {s} : reserved'[t] = reserved[t]
      /\ reserved'[s] = 0 /\ slipped' = slipped \ {s}
  BY DEF IInv, TypeOK, Del
<1> SUFFICES ASSUME NEW t \in SKU \ slipped', NEW n \in Nat, t \notin slipped => BoundedBy(t, n)
             PROVE  BoundedBy(t, n)'
  BY CounterKept
<1>2. CASE t = s
  <2>1. stock[s] \in Int /\ stock[s] >= 0
    BY DEF IInv, TypeOK, StockNeverNegative
  <2>2. \A q \in Request : s \in Released(q) =>
            Units(items[q], s) \in Nat /\ Units(items[q], s) <= stock[s]
    BY ReleasedLocked
  <2> QED
    BY <1>1, <1>2, <2>1, <2>2 DEF BoundedBy
<1>3. CASE t # s
  BY <1>1, <1>3 DEF BoundedBy
<1> QED
  BY <1>2, <1>3

\* The blocks of units of some requests, and of one more.
LEMMA OneMoreBlock ==
    ASSUME NEW D, NEW f, NEW r, r \notin D,
           NEW X, X = UNION {{q} \X (1..f[q]) : q \in D},
           NEW Y, Y = UNION {{q} \X (1..f[q]) : q \in D \cup {r}}
    PROVE  /\ Y = X \cup ({r} \X (1..f[r]))
           /\ \A m : <<r, m>> \notin X
<1>1. \A q \in D : \A m : <<r, m>> \notin {q} \X (1..f[q])
  OBVIOUS
<1>2. \A x : x \in X <=> \E q \in D : x \in {q} \X (1..f[q])
  OBVIOUS
<1>3. \A x : x \in Y <=> x \in {r} \X (1..f[r]) \/ \E q \in D : x \in {q} \X (1..f[q])
  OBVIOUS
<1>4. Y = X \cup ({r} \X (1..f[r]))
  BY <1>2, <1>3
<1> QED
  BY <1>1, <1>2, <1>4

\* The requests at the undo of a line of s, and the quantities of all current lines.
Undoers(s) == {q \in Request : pc[q] = "undo" /\ plan[q][idx[q]].sku = s}
Qty == [q \in Request |-> plan[q][idx[q]].qty]

LEMMA UndoneBlocks ==
    ASSUME NEW s
    PROVE  BeingUndone(s) = UNION {{q} \X (1..Qty[q]) : q \in Undoers(s)}
<1>1. \A q \in Undoers(s) : {q} \X (1..Qty[q]) = {q} \X (1..plan[q][idx[q]].qty)
  BY DEF Undoers, Qty
<1> QED
  BY <1>1 DEF BeingUndone, Undoers

LEMMA UndoneBlocksNext ==
    ASSUME NEW s
    PROVE  BeingUndone(s)' = UNION {{q} \X (1..Qty'[q]) : q \in Undoers(s)'}
<1>1. \A q \in Undoers(s)' : {q} \X (1..Qty'[q]) = {q} \X (1..plan'[q][idx'[q]].qty)
  BY DEF Undoers, Qty
<1> QED
  BY <1>1 DEF BeingUndone, Undoers

LEMMA ReserveKeepsCounter ==
    ASSUME IInv, IInv', CounterInv, NEW r \in Request,
           Prefetch(r) \/ ReadStock(r) \/ CheckAvailable(r) \/ RefreshTtl(r)
    PROVE  CounterInv'
<1>1. /\ UNCHANGED <<reserved, stock, slipped, items, deducted>> /\ \A s \in SKU : reserved[s] \in Int
      /\ pc[r] # "undo" /\ pc'[r] # "undo" /\ pc'[r] \notin Deducting
  BY DEF IInv, TypeOK, Goto, Prefetch, ReadStock, CheckAvailable, RefreshTtl, Ended,
         Expire, redisVars, dbVars, ReleaseFirst, Deducting
<1>2. \A q \in Request \ {r} : pc'[q] = pc[q] /\ plan'[q] = plan[q] /\ idx'[q] = idx[q]
  BY DEF IInv, TypeOK, Goto, Prefetch, ReadStock, CheckAvailable, RefreshTtl, ReleaseFirst
<1>3. Released(r)' = {}
  BY <1>1, NothingReleasedNext
<1> QED
  BY <1>1, <1>2, <1>3, CounterStep

\* An INCRBY that answers more than was read is to be undone; one that does not
\* is within the stock, or the counter has slipped.
LEMMA IncrementKeepsCounter ==
    ASSUME IInv, IInv', CounterInv, NEW r \in Request, Increment(r)
    PROVE  CounterInv'
<1>0. plan[r][idx[r]].sku \in SKU /\ plan[r][idx[r]].qty \in Nat
  BY PlanLine DEF Increment, Reserving, IInv
<1>1. PICK s \in SKU, n \in Nat : s = plan[r][idx[r]].sku /\ n = plan[r][idx[r]].qty
  BY <1>0
<1>2. /\ pc[r] = "incr" /\ UNCHANGED <<plan, idx, seen, stock, items, deducted>>
      /\ reserved' = [reserved EXCEPT ![s] = @ + n]
      /\ pc' = [pc EXCEPT ![r] = IF reserved[s] + n > seen[r] THEN "undo" ELSE "expire"]
  BY <1>1 DEF Increment, IncrBy, Goto, localVars, dbVars
<1>3. /\ seen[r] \in Int
      /\ \A t \in SKU : reserved[t] \in Int /\ stock[t] \in Int
  BY DEF IInv, TypeOK
<1>4. /\ reserved'[s] = reserved[s] + n
      /\ \A t \in SKU \ {s} : reserved'[t] = reserved[t]
      /\ \A q \in Request \ {r} : pc'[q] = pc[q]
      /\ pc'[r] \in {"undo", "expire"}
  BY <1>1, <1>2 DEF IInv, TypeOK
<1>r. \A q \in Request : Released(q)' = Released(q)
  BY <1>2, <1>4 DEF Released
<1>5. CASE reserved[s] + n <= seen[r]
  <2>1. pc'[r] = "expire"
    BY <1>1, <1>2, <1>3, <1>5 DEF IInv, TypeOK
  <2>2. /\ slipped \subseteq slipped'
        /\ s \notin slipped' => seen[r] <= stock[s] /\ \A q \in Request : s \notin Released(q)
    <3>1. Slips(r, s)
      BY <1>1, <1>3, <1>5 DEF Increment
    <3> QED
      BY <1>3, <3>1 DEF Slips
  <2>3. ASSUME NEW t \in SKU \ slipped', NEW m \in Nat, t \notin slipped => BoundedBy(t, m)
        PROVE  BoundedBy(t, m)'
    <3>1. CASE t = s
      BY <1>1, <1>2, <1>3, <1>4, <1>5, <1>r, <2>2, <3>1 DEF BoundedBy
    <3>2. CASE t # s
      <4>1. t \notin slipped
        BY <2>2
      <4> QED
        BY <1>2, <1>4, <1>r, <2>3, <3>2, <4>1 DEF BoundedBy
    <3> QED
      BY <3>1, <3>2
  <2>4. \A q \in Request : /\ pc'[q] = "undo" <=> pc[q] = "undo"
                           /\ pc[q] = "undo" => plan'[q] = plan[q] /\ idx'[q] = idx[q]
    BY <1>2, <1>4, <2>1
  <2> QED
    BY <2>3, <2>4, CounterKept
<1>6. CASE ~(reserved[s] + n <= seen[r])
  <2>1. pc'[r] = "undo" /\ slipped' = slipped
    BY <1>1, <1>2, <1>3, <1>6 DEF IInv, TypeOK, Increment
  <2>3. Qty' = Qty
    BY <1>2 DEF Qty
  <2>4. \A t \in SKU \ {s} : BeingUndone(t)' = BeingUndone(t)
    <3> TAKE t \in SKU \ {s}
    <3>1. Undoers(t)' = Undoers(t)
      BY <1>1, <1>2, <1>4 DEF Undoers
    <3> QED
      BY <2>3, <3>1, UndoneBlocks, UndoneBlocksNext
  <2>5. Undoers(s)' = Undoers(s) \cup {r} /\ r \notin Undoers(s)
    BY <1>1, <1>2, <1>4, <2>1 DEF Undoers
  <2>6. Qty[r] = n
    BY <1>1 DEF Qty
  <2>7. /\ BeingUndone(s)' = BeingUndone(s) \cup ({r} \X (1..n))
        /\ \A m : <<r, m>> \notin BeingUndone(s)
    BY <2>3, <2>5, <2>6, OneMoreBlock, UndoneBlocks, UndoneBlocksNext
  <2>8. /\ IsFiniteSet(BeingUndone(s)') /\ Cardinality(BeingUndone(s)) \in Nat
        /\ Cardinality(BeingUndone(s)') = Cardinality(BeingUndone(s)) + n
    <3>1. IsFiniteSet(BeingUndone(s))
      BY DEF CounterInv, FinitelyUndone
    <3> QED
      BY <2>7, <3>1, UnitsAdd
  <2>9. FinitelyUndone'
    BY <2>4, <2>8 DEF CounterInv, FinitelyUndone
  <2>10. ASSUME NEW t \in SKU \ slipped'
         PROVE  BoundedBy(t, Cardinality(BeingUndone(t)))'
    <3>1. BoundedBy(t, Cardinality(BeingUndone(t)))
      BY <2>1 DEF CounterInv
    <3>2. CASE t = s
      <4>1. \A q \in Request : s \in Released(q) => Units(items[q], s) \in Nat
        BY ReleasedLocked
      <4>2. PICK m \in Nat : m = Cardinality(BeingUndone(s)) /\ m + n = Cardinality(BeingUndone(s)')
        BY <1>1, <2>8
      <4>3. BoundedBy(s, m + n)'
        BY <1>1, <1>2, <1>3, <1>4, <1>r, <3>1, <3>2, <4>1, <4>2 DEF BoundedBy
      <4> QED
        BY <3>2, <4>2, <4>3 DEF BoundedBy
    <3>3. CASE t # s
      BY <1>2, <1>4, <1>r, <2>4, <3>1, <3>3 DEF BoundedBy
    <3> QED
      BY <3>2, <3>3
  <2> QED
    BY <2>9, <2>10 DEF CounterInv
<1> QED
  BY <1>5, <1>6

\* Who leaves the undo takes its units out of those that are being undone.
LEMMA UndoLeft ==
    ASSUME IInv, CounterInv, NEW r \in Request, pc[r] = "undo", pc'[r] # "undo",
           \A q \in Request \ {r} : pc'[q] = pc[q] /\ idx'[q] = idx[q], UNCHANGED plan,
           NEW s, s = plan[r][idx[r]].sku, NEW n \in Nat, n = plan[r][idx[r]].qty, s \in SKU
    PROVE  /\ FinitelyUndone' /\ \A t \in SKU \ {s} : BeingUndone(t)' = BeingUndone(t)
           /\ Cardinality(BeingUndone(s)') \in Nat
           /\ Cardinality(BeingUndone(s)) = Cardinality(BeingUndone(s)') + n
<1>4. r \in Undoers(s) /\ Qty[r] = n
  BY DEF Undoers, Qty
<1>5. \A t \in SKU : Undoers(t)' = Undoers(t) \ {r}
  BY DEF Undoers
<1>6. \A t \in SKU \ {s} : r \notin Undoers(t)
  BY DEF Undoers
<1>9. ASSUME NEW t \in SKU
      PROVE  BeingUndone(t)' = UNION {{q} \X (1..Qty[q]) : q \in Undoers(t) \ {r}}
  <2>1. \A q \in Undoers(t) \ {r} : Qty'[q] = Qty[q]
    BY DEF Undoers, Qty
  <2>2. UNION {{q} \X (1..Qty'[q]) : q \in Undoers(t) \ {r}}
          = UNION {{q} \X (1..Qty[q]) : q \in Undoers(t) \ {r}}
    BY <2>1
  <2> QED
    BY <1>5, <2>2, UndoneBlocksNext
<1>10. \A t \in SKU \ {s} : BeingUndone(t)' = BeingUndone(t)
  <2> TAKE t \in SKU \ {s}
  <2>1. Undoers(t) \ {r} = Undoers(t)
    BY <1>6
  <2> QED
    BY <1>9, <2>1, UndoneBlocks
<1>11. /\ BeingUndone(s) = BeingUndone(s)' \cup ({r} \X (1..n))
       /\ \A m : <<r, m>> \notin BeingUndone(s)'
  <2> DEFINE D == Undoers(s) \ {r}
  <2>1. Undoers(s) = D \cup {r} /\ r \notin D
    BY <1>4
  <2>2. BeingUndone(s)' = UNION {{q} \X (1..Qty[q]) : q \in D}
    BY <1>9
  <2> HIDE DEF D
  <2> QED
    BY <1>4, <2>1, <2>2, OneMoreBlock, UndoneBlocks
<1>12. IsFiniteSet(BeingUndone(s)')
  <2>1. IsFiniteSet(BeingUndone(s)) /\ BeingUndone(s)' \subseteq BeingUndone(s)
    BY <1>11 DEF CounterInv, FinitelyUndone
  <2> QED
    BY <2>1, FS_Subset
<1>13. /\ Cardinality(BeingUndone(s)') \in Nat
       /\ Cardinality(BeingUndone(s)) = Cardinality(BeingUndone(s)') + n
  <2> DEFINE U == BeingUndone(s)'
             V == BeingUndone(s)
  <2>1. IsFiniteSet(U) /\ (\A m : <<r, m>> \notin U) /\ V = U \cup ({r} \X (1..n)) /\ n \in Nat
    BY <1>11, <1>12
  <2> HIDE DEF U, V
  <2>2. Cardinality(V) = Cardinality(U) + n /\ Cardinality(U) \in Nat
    BY ONLY <2>1, UnitsAdd
  <2> QED
    BY <2>2 DEF U, V
<1>14. FinitelyUndone'
  BY <1>10, <1>12 DEF CounterInv, FinitelyUndone
<1> QED
  BY <1>10, <1>13, <1>14

\* The undo takes back as much as the counter is above its bound.
LEMMA UndoKeepsCounter ==
    ASSUME IInv, IInv', CounterInv, NEW r \in Request, Undo(r)
    PROVE  CounterInv'
<1>0. plan[r][idx[r]].sku \in SKU /\ plan[r][idx[r]].qty \in Nat
  BY PlanLine DEF Undo, Reserving, IInv
<1>1. PICK s \in SKU, n \in Nat : s = plan[r][idx[r]].sku /\ n = plan[r][idx[r]].qty
  BY <1>0
<1>2. /\ pc[r] = "undo" /\ UNCHANGED <<plan, stock, items, deducted, slipped>>
      /\ reserved' = [reserved EXCEPT ![s] = @ + (-n)]
      /\ pc'[r] # "undo" /\ pc'[r] # "txDecr"
      /\ \A q \in Request \ {r} : pc'[q] = pc[q] /\ idx'[q] = idx[q]
  BY <1>1 DEF Undo, IncrBy, ReleaseFirst, Ended, Goto, IInv, TypeOK, dbVars
<1>3. \A t \in SKU : reserved[t] \in Int /\ stock[t] \in Int
  BY DEF IInv, TypeOK
<1>4. /\ reserved'[s] = reserved[s] - n
      /\ \A t \in SKU \ {s} : reserved'[t] = reserved[t]
  BY <1>1, <1>2, <1>3 DEF IInv, TypeOK
<1>5. \A q \in Request : Released(q)' = Released(q)
  BY <1>2 DEF Released
<1>6. /\ FinitelyUndone' /\ \A t \in SKU \ {s} : BeingUndone(t)' = BeingUndone(t)
      /\ Cardinality(BeingUndone(s)') \in Nat
      /\ Cardinality(BeingUndone(s)) = Cardinality(BeingUndone(s)') + n
  BY <1>1, <1>2, UndoLeft
<1>7. ASSUME NEW t \in SKU \ slipped'
      PROVE  BoundedBy(t, Cardinality(BeingUndone(t)))'
  <2>1. BoundedBy(t, Cardinality(BeingUndone(t)))
    BY <1>2 DEF CounterInv
  <2>2. CASE t = s
    <3>1. \A q \in Request : s \in Released(q) => Units(items[q], s) \in Nat
      BY ReleasedLocked
    <3>2. PICK m \in Nat : m = Cardinality(BeingUndone(s)') /\ m + n = Cardinality(BeingUndone(s))
      BY <1>1, <1>6
    <3>3. BoundedBy(s, m)'
      BY <1>1, <1>2, <1>3, <1>4, <1>5, <2>1, <2>2, <3>1, <3>2 DEF BoundedBy
    <3> QED
      BY <2>2, <3>2, <3>3 DEF BoundedBy
  <2>3. CASE t # s
    BY <1>2, <1>4, <1>5, <1>6, <2>1, <2>3 DEF BoundedBy
  <2> QED
    BY <2>2, <2>3
<1> QED
  BY <1>6, <1>7 DEF CounterInv

\* Steps of a request that leave the counters and the stock alone.
LEMMA TransactKeepsCounter ==
    ASSUME IInv, IInv', CounterInv, NEW r \in Request,
           \/ BeginTx(r) \/ CheckLine(r) \/ ClearCart(r) \/ DeductRow(r)
           \/ AbortTx(r) \/ LinkPayment(r) \/ StartConfirm(r)
    PROVE  CounterInv'
<1>1. /\ pc[r] # "undo" /\ pc'[r] # "undo"
      /\ UNCHANGED <<reserved, slipped, stock, plan>>
      /\ \A q \in Request \ {r} : /\ pc'[q] = pc[q] /\ idx'[q] = idx[q] /\ items'[q] = items[q]
                                   /\ deducted'[q] = deducted[q]
  <2> USE DEF IInv, TypeOK, Goto, Rollback, ReleaseFirst, Ended, localVars, redisVars, dbVars, InTx,
              Ordering, Deducting
  <2>1. CASE BeginTx(r)
    BY <2>1 DEF BeginTx
  <2>2. CASE CheckLine(r)
    BY <2>2 DEF CheckLine
  <2>3. CASE ClearCart(r)
    BY <2>3 DEF ClearCart
  <2>4. CASE DeductRow(r)
    BY <2>4 DEF DeductRow
  <2>6. CASE AbortTx(r)
    BY <2>6 DEF AbortTx
  <2>7. CASE LinkPayment(r)
    BY <2>7 DEF LinkPayment
  <2>8. CASE StartConfirm(r)
    BY <2>8 DEF StartConfirm
  <2> QED
    BY <2>1, <2>2, <2>3, <2>4, <2>6, <2>7, <2>8
<1>2. \A s \in Released(r)' : s \in Released(r) /\ items'[r] = items[r]
  <2>1. CASE pc'[r] \notin Deducting
    BY <2>1, NothingReleasedNext
  <2>2. CASE pc'[r] \in Deducting /\ deducted'[r] = 0
    BY <2>2 DEF Released
  <2>3. CASE pc'[r] \in Deducting /\ deducted'[r] # 0
    <3>1. /\ DeductRow(r) /\ pc'[r] = "txDecr" /\ pc[r] = "deduct"
          /\ items' = items /\ deducted[r] \in Nat /\ deducted'[r] = deducted[r] + 1
      <4>1. pc[r] \notin Deducting => deducted[r] = 0
        BY DEF IInv, ControlOK, Control
      <4> QED
        BY <2>3, <4>1 DEF IInv, TypeOK, Goto, Rollback, ReleaseFirst, Ended, localVars, dbVars, InTx,
           Ordering, Deducting, BeginTx, CheckLine, ClearCart, DeductRow, AbortTx, LinkPayment,
           StartConfirm
    <3> QED
      BY <3>1 DEF Released
  <2> QED
    BY <2>1, <2>2, <2>3
<1>3. \A s \in SKU : reserved'[s] <= reserved[s]
  BY <1>1 DEF IInv, TypeOK
<1> QED
  BY <1>1, <1>2, <1>3, CounterStep

\* A commit takes from the stock what has left the counter already.
LEMMA CommitKeepsCounter ==
    ASSUME IInv, IInv', CounterInv, NEW r \in Request, Commit(r)
    PROVE  CounterInv'
<1>1. /\ pc[r] = "commit" /\ pc'[r] = "done" /\ UNCHANGED <<reserved, slipped, plan, idx, items>>
      /\ \A q \in Request \ {r} : pc'[q] = pc[q] /\ deducted'[q] = deducted[q]
      /\ \A s \in SKU : stock'[s] = stock[s] - Units(items[r], s)
  BY DEF IInv, TypeOK, Commit, Goto, redisVars
<1>2. items[r] \in Carts \cup {<<>>} /\ deducted[r] = Len(items[r]) /\ Len(items[r]) \in Nat
  BY <1>1, CartFacts DEF IInv, TypeOK, ControlOK, Control
<1>3. Released(r) = Skus(items[r]) /\ Locked(r) = Skus(items[r])
  BY <1>1, <1>2, CartFacts DEF Released, Skus, Locked
<1>4. Released(r)' = {} /\ \A q \in Request \ {r} : Released(q)' = Released(q)
  BY <1>1, NothingReleasedNext DEF Released, Deducting
<1> SUFFICES ASSUME NEW s \in SKU, NEW n \in Nat, BoundedBy(s, n)
             PROVE  BoundedBy(s, n)'
  BY <1>1, CounterKept
<1>5. reserved[s] \in Int /\ stock[s] \in Int /\ Units(items[r], s) \in Nat
  BY <1>2, UnitsFacts DEF IInv, TypeOK
<1>6. CASE s \in Skus(items[r])
  <2>1. \A q \in Request \ {r} : s \notin Released(q)
    BY <1>3, <1>6, ReleasedLocked DEF IInv, RowsLockedOnce
  <2> QED
    BY <1>1, <1>3, <1>4, <1>5, <1>6, <2>1 DEF BoundedBy
<1>7. CASE s \notin Skus(items[r])
  <2>1. Units(items[r], s) = 0
    BY <1>2, <1>7, UnitsFacts
  <2> QED
    BY <1>1, <1>4, <1>5, <2>1 DEF BoundedBy
<1> QED
  BY <1>6, <1>7

\* Steps of a request that give units back.
LEMMA ReleaseKeepsCounter ==
    ASSUME IInv, IInv', CounterInv, NEW r \in Request,
           ReleaseDecr(r) \/ ReleaseDel(r) \/ TxReleaseDel(r)
    PROVE  CounterInv'
<1>1. /\ pc[r] # "undo" /\ pc'[r] # "undo" /\ pc[r] # "txDecr" /\ pc'[r] # "txDecr"
      /\ UNCHANGED <<plan, stock, items, deducted>>
      /\ \A q \in Request \ {r} : pc'[q] = pc[q] /\ idx'[q] = idx[q]
  BY DEF IInv, TypeOK, Goto, Ended, localVars, dbVars, NextDeduction, ReleaseDecr, ReleaseDel,
         TxReleaseDel
<1>2. \A q \in Request : Released(q)' = Released(q)
  BY <1>1 DEF Released
<1>3. CASE ReleaseDecr(r)
  <2>1. PICK s \in SKU, n \in Nat : IncrBy(s, -n)
    <3>1. plan[r][idx[r]].sku \in SKU /\ plan[r][idx[r]].qty \in Nat
      BY <1>3, PlanLine DEF ReleaseDecr, Releasing, IInv
    <3> QED
      BY <1>3, <3>1 DEF ReleaseDecr
  <2>2. slipped' = slipped
    BY <1>3 DEF ReleaseDecr
  <2>3. \A t \in SKU : reserved'[t] <= reserved[t]
    BY <2>1 DEF IncrBy, IInv, TypeOK
  <2> QED
    BY <1>1, <1>2, <2>2, <2>3, CounterStep
<1>4. CASE ReleaseDel(r)
  <2>1. plan[r][idx[r]].sku \in SKU /\ Del(plan[r][idx[r]].sku)
    BY <1>4, PlanLine DEF ReleaseDel, Releasing, IInv
  <2> QED
    BY <1>1, <1>2, <2>1, DelKeepsCounter
<1>5. CASE TxReleaseDel(r)
  <2>1. items[r][deducted[r]].sku \in SKU /\ Del(items[r][deducted[r]].sku) /\ idx' = idx
    BY <1>5, DeductedLine DEF TxReleaseDel, localVars
  <2> QED
    BY <1>1, <1>2, <2>1, DelKeepsCounter
<1> QED
  BY <1>3, <1>4, <1>5

\* deductStock's DECRBY: what it takes from the counter is now to be taken from
\* the stock.
LEMMA TxReleaseKeepsCounter ==
    ASSUME IInv, IInv', CounterInv, NEW r \in Request, TxReleaseDecr(r)
    PROVE  CounterInv'
<1>0. items[r][deducted[r]].sku \in SKU /\ items[r][deducted[r]].qty \in Nat
  BY DeductedLine DEF TxReleaseDecr
<1>1. PICK s \in SKU, k \in Nat : s = items[r][deducted[r]].sku /\ k = items[r][deducted[r]].qty
  BY <1>0
<1>2. /\ pc[r] = "txDecr" /\ pc'[r] # "txDecr" /\ pc'[r] # "undo"
      /\ UNCHANGED <<plan, idx, stock, items, deducted, slipped>>
      /\ reserved' = [reserved EXCEPT ![s] = @ + (-k)]
      /\ \A q \in Request \ {r} : pc'[q] = pc[q]
  BY <1>1 DEF IInv, TypeOK, Goto, localVars, dbVars, NextDeduction, TxReleaseDecr, IncrBy
<1>3. /\ items[r] \in Carts \cup {<<>>} /\ deducted[r] \in Nat /\ deducted[r] > 0
      /\ Len(items[r]) \in Nat /\ deducted[r] <= Len(items[r])
  BY <1>2, CartFacts DEF IInv, TypeOK, ControlOK, Control
<1>4. Units(items[r], s) = k /\ s \in Locked(r)
  BY <1>1, <1>3, UnitsFacts DEF Locked
<1>5. /\ \A q \in Request \ {r} : Released(q)' = Released(q) /\ s \notin Released(q)
      /\ \A t \in Released(r)' : t = s \/ t \in Released(r)
  <2>1. \A q \in Request \ {r} : Released(q)' = Released(q)
    BY <1>2 DEF Released
  <2>2. \A q \in Request \ {r} : s \notin Released(q)
    BY <1>4, ReleasedLocked DEF IInv, RowsLockedOnce
  <2>3. \A i \in 1..deducted[r] : i \in 1..(deducted[r] - 1) \/ i = deducted[r]
    BY <1>3
  <2>4. \A t \in Released(r)' : t = s \/ t \in Released(r)
    BY <1>1, <1>2, <1>3, <2>3 DEF Released
  <2> QED
    BY <2>1, <2>2, <2>4
<1> SUFFICES ASSUME NEW t \in SKU, NEW n \in Nat, BoundedBy(t, n)
             PROVE  BoundedBy(t, n)'
  BY <1>2, CounterKept
<1>6. reserved[t] \in Int /\ stock[t] \in Int /\ Units(items[r], t) \in Nat
  BY <1>3, UnitsFacts DEF IInv, TypeOK
<1>7. CASE t = s
  <2>1. reserved'[s] = reserved[s] - k
    BY <1>1, <1>2, <1>6, <1>7 DEF IInv, TypeOK
  <2> QED
    BY <1>1, <1>2, <1>4, <1>5, <1>6, <1>7, <2>1 DEF BoundedBy
<1>8. CASE t # s
  <2>1. reserved'[t] = reserved[t]
    BY <1>2, <1>8 DEF IInv, TypeOK
  <2> QED
    BY <1>2, <1>5, <1>6, <1>8, <2>1 DEF BoundedBy
<1> QED
  BY <1>7, <1>8

\* Steps of the environment, but for crashes.
LEMMA WorldKeepsCounter ==
    ASSUME IInv, IInv', CounterInv,
           (\E u \in User : EditCart(u)) \/ (\E s \in SKU : KeyExpires(s)) \/ Cron
    PROVE  CounterInv'
<1>1. UNCHANGED <<pc, plan, idx, stock, items, deducted>>
  BY DEF EditCart, KeyExpires, Cron, ScanKeys, ScanOrders, ScanKey, ScanDelete, ScanEnds,
         localVars, dbVars
<1>2. UNCHANGED <<reserved, slipped>> \/ \E s \in SKU : Del(s)
  BY DEF EditCart, KeyExpires, Cron, ScanKeys, ScanOrders, ScanKey, ScanDelete, ScanEnds, redisVars
<1>3. \A q \in Request : Released(q)' = Released(q)
  BY <1>1 DEF Released
<1>4. CASE UNCHANGED <<reserved, slipped>>
  <2>1. \A s \in SKU : reserved'[s] <= reserved[s]
    BY <1>4 DEF IInv, TypeOK
  <2> QED
    BY <1>1, <1>3, <1>4, <2>1, CounterUntouched
<1>5. CASE \E s \in SKU : Del(s)
  BY <1>1, <1>3, <1>5, DelKeepsCounter
<1> QED
  BY <1>2, <1>4, <1>5

\* A crash lets the counter slip that was to be taken back.
LEMMA CrashKeepsCounter ==
    ASSUME IInv, IInv', CounterInv, NEW r \in Request, Crash(r)
    PROVE  CounterInv'
<1>1. /\ UNCHANGED <<plan, idx, reserved, stock, items>> /\ pc'[r] \notin Deducting \cup {"undo"}
      /\ \A q \in Request \ {r} : pc'[q] = pc[q] /\ deducted'[q] = deducted[q]
      /\ slipped \subseteq slipped'
      /\ pc[r] = "undo" => plan[r][idx[r]].sku \in slipped'
  BY DEF Crash, Goto, Ended, IInv, TypeOK, Deducting, dbVars
<1>2. Released(r)' = {} /\ \A q \in Request \ {r} : Released(q)' = Released(q)
  BY <1>1, NothingReleasedNext DEF Released
<1>3. \A t \in SKU, n \in Nat : BoundedBy(t, n) => BoundedBy(t, n)'
  BY <1>1, <1>2 DEF BoundedBy
<1>4. CASE pc[r] # "undo"
  BY <1>1, <1>3, <1>4, CounterKept
<1>5. CASE pc[r] = "undo"
  <2>0. plan[r][idx[r]].sku \in SKU /\ plan[r][idx[r]].qty \in Nat
    BY <1>5, PlanLine DEF Reserving, IInv
  <2>1. PICK s \in SKU, n \in Nat : s = plan[r][idx[r]].sku /\ n = plan[r][idx[r]].qty
    BY <2>0
  <2>2. FinitelyUndone' /\ \A t \in SKU \ {s} : BeingUndone(t)' = BeingUndone(t)
    BY <1>1, <1>5, <2>1, UndoLeft
  <2>3. ASSUME NEW t \in SKU \ slipped'
        PROVE  BoundedBy(t, Cardinality(BeingUndone(t)))'
    <3>1. t # s /\ t \notin slipped
      BY <1>1, <1>5, <2>1
    <3>2. PICK m \in Nat : m = Cardinality(BeingUndone(t))
      BY FS_CardinalityType DEF CounterInv, FinitelyUndone
    <3>3. BoundedBy(t, m)'
      BY <1>3, <3>1, <3>2 DEF CounterInv
    <3> QED
      BY <2>2, <3>1, <3>2, <3>3 DEF BoundedBy
  <2> QED
    BY <2>2, <2>3 DEF CounterInv
<1> QED
  BY <1>4, <1>5

LEMMA NextKeepsCounter ==
    ASSUME IInv, CounterInv, [Next]_vars
    PROVE  CounterInv'
<1>1. IInv'
  BY NextInv
<1>2. CASE \E r \in Request : Step(r) \/ AbortTx(r) \/ StartConfirm(r)
  BY <1>1, <1>2, ReserveKeepsCounter, IncrementKeepsCounter, UndoKeepsCounter,
     TransactKeepsCounter, CommitKeepsCounter, ReleaseKeepsCounter, TxReleaseKeepsCounter
     DEF Step, Reserve, Release, Transact
<1>3. CASE \E r \in Request : Crash(r)
  BY <1>1, <1>3, CrashKeepsCounter
<1>4. CASE (\E u \in User : EditCart(u)) \/ (\E s \in SKU : KeyExpires(s)) \/ Cron
  BY <1>1, <1>4, WorldKeepsCounter
<1>5. CASE UNCHANGED vars
  <2>1. UNCHANGED <<reserved, slipped, pc, plan, idx, stock, items, deducted>>
    BY <1>5 DEF vars
  <2>2. \A s \in SKU : reserved'[s] <= reserved[s]
    BY <2>1 DEF IInv, TypeOK
  <2>3. \A q \in Request : Released(q)' = Released(q)
    BY <2>1 DEF Released
  <2> QED
    BY <1>1, <2>1, <2>2, <2>3, CounterUntouched
<1> QED
  BY <1>2, <1>3, <1>4, <1>5 DEF Next

\* Every unit a counter holds beyond the stock that is left is one that a request
\* is taking back, unless the counter has slipped.
THEOREM CounterStaysBounded == Spec => []CounterBounded
<1>1. CounterInv => CounterBounded
  BY DEF CounterInv, CounterBounded, BoundedBy
<1>2. Init => IInv /\ CounterInv
  BY InitInv, CounterInit
<1>3. IInv /\ CounterInv /\ [Next]_vars => (IInv /\ CounterInv)'
  BY NextInv, NextKeepsCounter
<1> QED
  BY <1>1, <1>2, <1>3, PTL DEF Spec
=============================================================================
