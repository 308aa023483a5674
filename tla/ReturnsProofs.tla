---------------------------- MODULE ReturnsProofs ----------------------------
(***************************************************************************)
(* Returns keeps IInv: refunds and restockings are doubled by overlapping  *)
(* calls only, and what was approved or passed is served or underway.      *)
(***************************************************************************)
EXTENDS Returns, FiniteSetTheorems, TLAPS

\* What the histories, the rows and the calls never lose.
Grows ==
    /\ approved \subseteq approved' /\ passed \subseteq passed' /\ reopened \subseteq reopened'
    /\ stale \subseteq stale' /\ replaced \subseteq replaced'
    /\ \A r \in Return : \A p \in Product : back[r][p] > 0 => back'[r][p] > 0
    /\ \A c \in Call : call[c] \in Final => call'[c] = call[c]

LEMMA GotoType ==
    ASSUME TypeOK, NEW c \in Call, NEW s \in {"idle"} \cup Underway \cup Final, Goto(c, s)
    PROVE  /\ call' \in [Call -> {"idle"} \cup Underway \cup Final]
           /\ call'[c] = s /\ \A d \in Call \ {c} : call'[d] = call[d]
BY DEF TypeOK, Goto

LEMMA SetStatusType ==
    ASSUME TypeOK, NEW r \in Return, NEW s \in Status, SetStatus(r, s)
    PROVE  /\ status' \in [Return -> Status]
           /\ status'[r] = s /\ \A q \in Return \ {r} : status'[q] = status[q]
           /\ approved' \subseteq Return /\ passed' \subseteq Return /\ reopened' \subseteq Return
           /\ approved \subseteq approved' /\ passed \subseteq passed' /\ reopened \subseteq reopened'
           /\ approved' \subseteq approved \cup {r} /\ passed' \subseteq passed \cup {r}
           /\ s # "APPROVED" => approved' = approved
           /\ s # "QC_PASSED" => passed' = passed
           /\ s = "QC_PASSED" => r \in passed' /\ reopened' = reopened
           /\ status[r] = "QC_PASSED" /\ s # "QC_PASSED" => r \in reopened'
           /\ reopened' \subseteq reopened \cup {q \in {r} : status[r] = "QC_PASSED"}
BY DEF TypeOK, SetStatus

LEMMA RivalsType ==
    ASSUME NEW c \in Call
    PROVE  Rivals(c) \subseteq Call
BY DEF Rivals

LEMMA Constants ==
    ASSUME NEW c \in Call
    PROVE  /\ Target[c] \in Return /\ Kind[c] \in Kinds /\ Asked[c] \in Status
           /\ Items[Target[c]] \subseteq Product
BY ItemsAssumption, CallAssumption

LEMMA InitEstablishes ==
    ASSUME Init
    PROVE  IInv
<1>1. TypeOK
  BY ItemsAssumption DEF Init, TypeOK, Status
<1>2. RefundedTwiceOnlyByRace /\ RestockedTwiceOnlyByRace /\ ServedOrUnderway /\ ReadsThePast
  BY DEF Init, RefundedTwiceOnlyByRace, RestockedTwiceOnlyByRace, ServedOrUnderway, ReadsThePast
<1>3. StepsApart /\ PassedStays /\ RefundsAlone /\ RestocksAlone
  BY DEF Init, StepsApart, PassedStays, RefundsAlone, RestocksAlone
<1> QED
  BY <1>1, <1>2, <1>3 DEF IInv

-----------------------------------------------------------------------------
(* What follows from nothing being lost, conjunct by conjunct.             *)

LEMMA ExcusesStay ==
    ASSUME Grows, NEW r \in Return
    PROVE  /\ \A k \in Kinds : Overtaken(r, k) => Overtaken(r, k)'
           /\ DiedOn(r) => DiedOn(r)'
           /\ Unserved(r) => Unserved(r)'
BY DEF Grows, Overtaken, DiedOn, Unserved, Final

LEMMA RefundsKept ==
    ASSUME RefundedTwiceOnlyByRace, Grows, refunds' = refunds
    PROVE  RefundedTwiceOnlyByRace'
BY ExcusesStay DEF RefundedTwiceOnlyByRace, Kinds

LEMMA BackKept ==
    ASSUME RestockedTwiceOnlyByRace, Grows, back' = back
    PROVE  RestockedTwiceOnlyByRace'
BY ExcusesStay DEF RestockedTwiceOnlyByRace, Kinds, Grows

LEMMA PastKept ==
    ASSUME ReadsThePast, Grows, status' = status,
           \A c \in Call : seen'[c] = seen[c] \/ seen'[c] = "NONE"
    PROVE  ReadsThePast'
BY DEF ReadsThePast, Grows

\* The parts that only a step of their own disturbs.
LEMMA ApartKept ==
    ASSUME StepsApart,
           \A d \in Call : \/ call'[d] = call[d]
                           \/ call'[d] \in {"writing"} \cup Final
    PROVE  StepsApart'
BY DEF StepsApart, Final

LEMMA AloneKept ==
    ASSUME RefundsAlone, Grows, refunds' = refunds,
           \A d \in Call : call'[d] = call[d] \/ call'[d] # "refunding"
    PROVE  RefundsAlone'
BY DEF RefundsAlone, Grows

\* No call stops short of replacing or restocking, but by dying.
KeepsServing == \A d \in Call :
    \/ call'[d] = call[d] /\ left'[d] = left[d]
    \/ call[d] \notin {"restocking", "replacing"}
    \/ call'[d] = "died"
    \/ call[d] = "restocking" /\ left[d] = {}

\* Of a step that restocks nothing.
LEMMA ServedKept ==
    ASSUME ServedOrUnderway, Grows, back' = back, approved' = approved, passed' = passed,
           KeepsServing
    PROVE  ServedOrUnderway'
<1> SUFFICES ASSUME NEW r \in Return
             PROVE  /\ r \in approved =>
                        \/ r \in replaced' \/ Unserved(r)' \/ DiedOn(r)'
                        \/ \E c \in Call : Target[c] = r /\ call'[c] = "replacing"
                    /\ r \in passed => \A p \in Items[r] :
                        \/ back[r][p] > 0 \/ DiedOn(r)'
                        \/ \E c \in Call : Target[c] = r /\ call'[c] = "restocking" /\ p \in left'[c]
  BY DEF ServedOrUnderway
<1>1. /\ DiedOn(r) => DiedOn(r)'
      /\ Unserved(r) => Unserved(r)'
  BY ExcusesStay
<1>2. replaced \subseteq replaced'
  BY DEF Grows
<1>3. ASSUME r \in approved
      PROVE  \/ r \in replaced' \/ Unserved(r)' \/ DiedOn(r)'
             \/ \E c \in Call : Target[c] = r /\ call'[c] = "replacing"
  <2>1. ASSUME NEW d \in Call, Target[d] = r, call[d] = "replacing"
        PROVE  DiedOn(r)' \/ call'[d] = "replacing"
    BY <2>1 DEF DiedOn, KeepsServing
  <2>2. CASE r \in replaced \/ Unserved(r) \/ DiedOn(r)
    BY <1>1, <1>2, <2>2
  <2> QED
    BY <1>3, <2>1, <2>2 DEF ServedOrUnderway
<1>4. ASSUME r \in passed, NEW p \in Items[r]
      PROVE  \/ back[r][p] > 0 \/ DiedOn(r)'
             \/ \E c \in Call : Target[c] = r /\ call'[c] = "restocking" /\ p \in left'[c]
  <2>1. ASSUME NEW d \in Call, Target[d] = r, call[d] = "restocking", p \in left[d]
        PROVE  DiedOn(r)' \/ (call'[d] = "restocking" /\ p \in left'[d])
    BY <2>1 DEF DiedOn, KeepsServing
  <2>2. CASE back[r][p] > 0 \/ DiedOn(r)
    BY <1>1, <2>2
  <2> QED
    BY <1>4, <2>1, <2>2 DEF ServedOrUnderway
<1> QED
  BY <1>3, <1>4

\* Of a step that restocks nothing, and lets nothing become QC_PASSED.
LEMMA RestocksKept ==
    ASSUME RestocksAlone, Grows, back' = back, passed' = passed,
           \A d \in Call :
              \/ call'[d] = call[d] /\ left'[d] = left[d] /\ seen'[d] = seen[d]
              \/ call'[d] \notin {"writing", "restocking"}
              \/ call'[d] = "writing" /\ (Kind[d] = "Update" /\ seen'[d] # "QC_PASSED"
                                           => Target[d] \notin passed \/ Target[d] \in reopened)
    PROVE  RestocksAlone'
<1>1. \A r \in Return : \A p \in Product : back'[r][p] > 0 => r \in passed'
  BY DEF RestocksAlone
<1>2. ASSUME NEW d \in Call \ stale', Kind[d] = "Update", call'[d] = "writing",
             Asked[d] = "QC_PASSED", seen'[d] # "QC_PASSED"
      PROVE  Target[d] \notin passed' \/ Target[d] \in reopened'
  BY <1>2 DEF RestocksAlone, Grows
<1>3. ASSUME NEW d \in Call, call'[d] = "restocking"
      PROVE  /\ Target[d] \in passed'
             /\ \/ Target[d] \in reopened' \/ Overtaken(Target[d], "Update")'
                \/ Rivals(d)' = {} /\ \A p \in left'[d] : back'[Target[d]][p] = 0
  <2>1. call[d] = "restocking" /\ left'[d] = left[d]
    BY <1>3
  <2>2. Target[d] \in passed
    BY <2>1 DEF RestocksAlone
  <2>3. CASE Target[d] \in reopened \/ Overtaken(Target[d], "Update")
    <3>1. Overtaken(Target[d], "Update") => Overtaken(Target[d], "Update")'
      BY DEF Overtaken, Grows
    <3> QED
      BY <2>2, <2>3, <3>1 DEF Grows
  <2>4. CASE Rivals(d) = {} /\ \A p \in left[d] : back[Target[d]][p] = 0
    <3>1. Rivals(d)' \subseteq Rivals(d)
      BY <1>3, <2>1 DEF Rivals
    <3> QED
      BY <2>1, <2>2, <2>4, <3>1
  <2> QED
    BY <2>1, <2>3, <2>4 DEF RestocksAlone
<1> QED
  BY <1>1, <1>2, <1>3 DEF RestocksAlone

LEMMA StatusKept ==
    ASSUME TypeOK, PassedStays, ReadsThePast, NEW r \in Return, NEW s \in Status, SetStatus(r, s)
    PROVE  /\ PassedStays'
           /\ \A q \in Return : /\ status'[q] = "APPROVED" => q \in approved'
                                /\ status'[q] = "QC_PASSED" => q \in passed'
BY SetStatusType DEF TypeOK, PassedStays, ReadsThePast, SetStatus

-----------------------------------------------------------------------------
(* One lemma for each action.                                              *)

LEMMA RequestKeeps ==
    ASSUME IInv, NEW r \in Return, Request(r)
    PROVE  IInv'
<1>1. /\ SetStatus(r, "PENDING_APPROVAL") /\ "PENDING_APPROVAL" \in Status
      /\ UNCHANGED <<replaced, refunds, stock, call, seen, left, back, stale, totals>>
  BY DEF Request, Status
<1>2. TypeOK'
  BY <1>1, SetStatusType DEF IInv, TypeOK, totals
<1>3. Grows
  BY <1>1, SetStatusType DEF IInv, Grows
<1>4. approved' = approved /\ passed' = passed
  BY <1>1 DEF SetStatus
<1>5. RefundedTwiceOnlyByRace' /\ RestockedTwiceOnlyByRace'
  BY <1>1, <1>3, RefundsKept, BackKept DEF IInv
<1>6. ServedOrUnderway'
  <2>1. KeepsServing
    BY <1>1 DEF KeepsServing
  <2>2. ServedOrUnderway /\ back' = back /\ approved' = approved /\ passed' = passed
    BY <1>1, <1>3, <1>4 DEF IInv
  <2> QED
    BY <1>3, <2>1, <2>2, ServedKept
<1>7. PassedStays' /\ ReadsThePast'
  BY <1>1, <1>4, StatusKept DEF IInv, ReadsThePast
<1>8. StepsApart' /\ RefundsAlone'
  BY <1>1, <1>3, ApartKept, AloneKept DEF IInv
<1>9. RestocksAlone'
  BY <1>1, <1>3, <1>4, RestocksKept DEF IInv
<1> QED
  BY <1>2, <1>5, <1>6, <1>7, <1>8, <1>9 DEF IInv

LEMMA ReadKeeps ==
    ASSUME IInv, NEW c \in Call, Read(c)
    PROVE  IInv'
<1> DEFINE s == status[Target[c]]
           to == IF Admits(c, s) THEN First(c) ELSE "refused"
<1>1. /\ call[c] = "idle" /\ Goto(c, to)
      /\ seen' = IF Kind[c] = "Update" THEN [seen EXCEPT ![c] = s] ELSE seen
      /\ UNCHANGED <<status, replaced, refunds, stock, left, back, approved, passed, reopened, stale,
                     totals>>
  BY DEF Read, history
<1>2. /\ to \in {"checking", "writing", "refused"} /\ (to = "checking" => Kind[c] = "Refund")
      /\ to \in {"idle"} \cup Underway \cup Final
  BY DEF First, Underway, Final
<1> HIDE DEF to
<1>3. /\ call' \in [Call -> {"idle"} \cup Underway \cup Final]
      /\ call'[c] = to /\ \A d \in Call \ {c} : call'[d] = call[d]
  BY <1>1, <1>2, GotoType DEF IInv
<1>4. /\ seen' \in [Call -> Status] /\ \A d \in Call \ {c} : seen'[d] = seen[d]
      /\ (Kind[c] = "Update" => seen'[c] = s) /\ seen'[c] \in {s, seen[c]}
  BY <1>1, Constants DEF IInv, TypeOK
<1>5. TypeOK'
  BY <1>1, <1>3, <1>4 DEF IInv, TypeOK, totals
<1>6. Grows
  BY <1>1, <1>3 DEF Grows, Final
<1>7. RefundedTwiceOnlyByRace' /\ RestockedTwiceOnlyByRace' /\ PassedStays'
  BY <1>1, <1>6, RefundsKept, BackKept DEF IInv, PassedStays
<1>8. ServedOrUnderway'
  <2>1. KeepsServing
    BY <1>1, <1>3 DEF KeepsServing
  <2>2. ServedOrUnderway /\ back' = back /\ approved' = approved /\ passed' = passed
    BY <1>1, <1>3, <1>6 DEF IInv
  <2> QED
    BY <1>6, <2>1, <2>2, ServedKept
<1>9. ReadsThePast'
  BY <1>1, <1>4, Constants DEF IInv, ReadsThePast
<1>10. StepsApart'
  BY <1>1, <1>2, <1>3 DEF IInv, StepsApart
<1>11. RefundsAlone'
  BY <1>1, <1>2, <1>3, <1>6, AloneKept DEF IInv
<1>12. RestocksAlone'
  <2>1. Kind[c] = "Update" /\ seen'[c] # "QC_PASSED"
            => Target[c] \notin passed \/ Target[c] \in reopened
    BY <1>4, Constants DEF IInv, PassedStays
  <2> QED
    BY <1>1, <1>2, <1>3, <1>4, <1>6, <2>1, RestocksKept DEF IInv
<1> QED
  BY <1>5, <1>7, <1>8, <1>9, <1>10, <1>11, <1>12 DEF IInv

\* A call that is through with what it had to do, or dies.
LEMMA EndKeeps ==
    ASSUME IInv, NEW c \in Call, NEW to \in Final, Goto(c, to), call[c] \in Underway,
           to = "died" \/ call[c] \notin {"restocking", "replacing"}
              \/ (call[c] = "restocking" /\ left[c] = {}),
           UNCHANGED <<status, replaced, refunds, stock, back, approved, passed, reopened, stale>>,
           UNCHANGED total,
           \/ UNCHANGED <<owed, crossed>>
           \/ owed' = [owed EXCEPT ![c] = {}] /\ crossed' = crossed \cup owed[c],
           \/ UNCHANGED <<seen, left>>
           \/ seen' = [seen EXCEPT ![c] = "NONE"] /\ left' = [left EXCEPT ![c] = {}]
    PROVE  IInv'
<1>1. /\ call' \in [Call -> {"idle"} \cup Underway \cup Final]
      /\ call'[c] = to /\ \A d \in Call \ {c} : call'[d] = call[d]
  BY GotoType DEF IInv
<1>2. /\ seen' \in [Call -> Status] /\ left' \in [Call -> SUBSET Product]
      /\ \A d \in Call \ {c} : seen'[d] = seen[d] /\ left'[d] = left[d]
      /\ seen'[c] \in {seen[c], "NONE"}
  BY DEF IInv, TypeOK, Status
<1>3. TypeOK'
  BY <1>1, <1>2 DEF IInv, TypeOK
<1>4. Grows
  BY <1>1 DEF Grows, Final, Underway
<1>5. RefundedTwiceOnlyByRace' /\ RestockedTwiceOnlyByRace' /\ PassedStays'
  BY <1>4, RefundsKept, BackKept DEF IInv, PassedStays
<1>6. ServedOrUnderway'
  <2>1. KeepsServing
    BY <1>1, <1>2 DEF KeepsServing
  <2>2. ServedOrUnderway /\ back' = back /\ approved' = approved /\ passed' = passed
    BY <1>4 DEF IInv
  <2> QED
    BY <1>4, <2>1, <2>2, ServedKept
<1>7. ReadsThePast'
  BY <1>2, <1>4, PastKept DEF IInv
<1>8. StepsApart' /\ RefundsAlone'
  BY <1>1, <1>4, ApartKept, AloneKept DEF IInv, Final
<1>9. RestocksAlone'
  BY <1>1, <1>2, <1>4, RestocksKept DEF IInv, Final
<1> QED
  BY <1>3, <1>5, <1>6, <1>7, <1>8, <1>9 DEF IInv

LEMMA RestockedOrDiedKeeps ==
    ASSUME IInv, NEW c \in Call, Restocked(c) \/ Die(c)
    PROVE  IInv'
BY EndKeeps DEF Restocked, Die, history, totals, Final, Underway

LEMMA WriteKeeps ==
    ASSUME IInv, NEW c \in Call, Write(c)
    PROVE  IInv'
<1> DEFINE r == Target[c]
           to == CASE Asked[c] = "QC_PASSED" /\ seen[c] # "QC_PASSED" -> "restocking"
                   [] Asked[c] = "APPROVED" /\ seen[c] # "APPROVED" -> "replacing"
                   [] OTHER -> "done"
           items == IF Asked[c] = "QC_PASSED" /\ seen[c] # "QC_PASSED" THEN Items[r] ELSE {}
<1>1. /\ Kind[c] = "Update" /\ call[c] = "writing"
      /\ SetStatus(r, Asked[c]) /\ Goto(c, to)
      /\ left' = [left EXCEPT ![c] = items]
      /\ stale' = stale \cup Rivals(c)
      /\ seen' = [seen EXCEPT ![c] = "NONE"]
      /\ UNCHANGED <<replaced, refunds, stock, back, totals>>
  BY DEF Write
<1>2. /\ to = "restocking" <=> Asked[c] = "QC_PASSED" /\ seen[c] # "QC_PASSED"
      /\ to = "replacing" <=> Asked[c] = "APPROVED" /\ seen[c] # "APPROVED"
      /\ to \in {"restocking", "replacing", "done"}
      /\ to \in {"idle"} \cup Underway \cup Final
      /\ to = "restocking" => items = Items[r]
      /\ items \subseteq Product
  BY Constants DEF Underway, Final
<1>3. r \in Return /\ Asked[c] \in Status
  BY Constants
<1> HIDE DEF to, items, r
<1>4. /\ call' \in [Call -> {"idle"} \cup Underway \cup Final]
      /\ call'[c] = to /\ \A d \in Call \ {c} : call'[d] = call[d]
  BY <1>1, <1>2, GotoType DEF IInv
<1>5. /\ seen' \in [Call -> Status] /\ left' \in [Call -> SUBSET Product]
      /\ left'[c] = items /\ seen'[c] = "NONE"
      /\ \A d \in Call \ {c} : seen'[d] = seen[d] /\ left'[d] = left[d]
  BY <1>1, <1>2 DEF IInv, TypeOK, Status
<1>6. TypeOK'
  BY <1>1, <1>3, <1>4, <1>5, SetStatusType, RivalsType DEF IInv, TypeOK, totals
<1>7. Grows
  <2>1. approved \subseteq approved' /\ passed \subseteq passed' /\ reopened \subseteq reopened'
    BY <1>1, <1>3, SetStatusType DEF IInv
  <2> QED
    BY <1>1, <1>4, <2>1 DEF Grows, Final
<1>8. RefundedTwiceOnlyByRace' /\ RestockedTwiceOnlyByRace'
  BY <1>1, <1>7, RefundsKept, BackKept DEF IInv
<1>9. PassedStays' /\ ReadsThePast'
  <2>1. /\ PassedStays'
        /\ \A q \in Return : /\ status'[q] = "APPROVED" => q \in approved'
                             /\ status'[q] = "QC_PASSED" => q \in passed'
    BY <1>1, <1>3, StatusKept DEF IInv
  <2>2. \A d \in Call : /\ seen'[d] = "APPROVED" => Target[d] \in approved'
                        /\ seen'[d] = "QC_PASSED" => Target[d] \in passed'
    BY <1>5, <1>7 DEF IInv, ReadsThePast, Grows
  <2> QED
    BY <2>1, <2>2 DEF ReadsThePast
<1>10. StepsApart'
  BY <1>1, <1>2, <1>4 DEF IInv, StepsApart
<1>11. RefundsAlone'
  BY <1>1, <1>2, <1>4, <1>7, AloneKept DEF IInv
<1>12. ServedOrUnderway'
  <2> SUFFICES ASSUME NEW q \in Return
               PROVE  /\ q \in approved' =>
                          \/ q \in replaced' \/ Unserved(q)' \/ DiedOn(q)'
                          \/ \E d \in Call : Target[d] = q /\ call'[d] = "replacing"
                      /\ q \in passed' => \A p \in Items[q] :
                          \/ back'[q][p] > 0 \/ DiedOn(q)'
                          \/ \E d \in Call : Target[d] = q /\ call'[d] = "restocking" /\ p \in left'[d]
    BY DEF ServedOrUnderway
  <2>1. /\ DiedOn(q) => DiedOn(q)'
        /\ Unserved(q) => Unserved(q)'
    BY <1>7, ExcusesStay
  <2>2. ASSUME q \in approved'
        PROVE  \/ q \in replaced' \/ Unserved(q)' \/ DiedOn(q)'
               \/ \E d \in Call : Target[d] = q /\ call'[d] = "replacing"
    <3>1. CASE q \in approved
      <4>1. ASSUME NEW d \in Call, Target[d] = q, call[d] = "replacing"
            PROVE  call'[d] = "replacing"
        BY <1>1, <1>4, <4>1
      <4>2. CASE q \in replaced \/ Unserved(q) \/ DiedOn(q)
        BY <1>1, <2>1, <4>2
      <4> QED
        BY <3>1, <4>1, <4>2 DEF IInv, ServedOrUnderway
    <3>2. CASE q \notin approved
      <4>1. q = r /\ Asked[c] = "APPROVED"
        BY <1>1, <1>3, <2>2, <3>2 DEF SetStatus
      <4>2. seen[c] # "APPROVED"
        <5>1. seen[c] = "APPROVED" => r \in approved
          BY DEF IInv, ReadsThePast, r
        <5> QED
          BY <3>2, <4>1, <5>1
      <4>3. call'[c] = "replacing"
        BY <1>2, <1>4, <4>1, <4>2
      <4> QED
        BY <4>1, <4>3 DEF r
    <3> QED
      BY <3>1, <3>2
  <2>3. ASSUME q \in passed', NEW p \in Items[q]
        PROVE  \/ back'[q][p] > 0 \/ DiedOn(q)'
               \/ \E d \in Call : Target[d] = q /\ call'[d] = "restocking" /\ p \in left'[d]
    <3>1. CASE q \in passed
      <4>1. ASSUME NEW d \in Call, Target[d] = q, call[d] = "restocking", p \in left[d]
            PROVE  call'[d] = "restocking" /\ p \in left'[d]
        BY <1>1, <1>4, <1>5, <4>1
      <4>2. CASE back[q][p] > 0 \/ DiedOn(q)
        BY <1>1, <2>1, <4>2
      <4> QED
        BY <3>1, <4>1, <4>2 DEF IInv, ServedOrUnderway
    <3>2. CASE q \notin passed
      <4>1. q = r /\ Asked[c] = "QC_PASSED"
        BY <1>1, <1>3, <2>3, <3>2 DEF SetStatus
      <4>2. seen[c] # "QC_PASSED"
        BY <3>2, <4>1 DEF IInv, ReadsThePast, r
      <4>3. call'[c] = "restocking" /\ left'[c] = Items[r]
        BY <1>2, <1>4, <1>5, <4>1, <4>2
      <4> QED
        BY <4>1, <4>3 DEF r
    <3> QED
      BY <3>1, <3>2
  <2> QED
    BY <2>2, <2>3
<1>13. RestocksAlone'
  <2>1. \A q \in Return : \A p \in Product : back'[q][p] > 0 => q \in passed'
    BY <1>1, <1>7 DEF IInv, RestocksAlone, Grows
  <2>2. ASSUME NEW d \in Call \ stale', Kind[d] = "Update", call'[d] = "writing",
               Asked[d] = "QC_PASSED", seen'[d] # "QC_PASSED"
        PROVE  Target[d] \notin passed' \/ Target[d] \in reopened'
    <3>1. d # c /\ d \notin stale /\ call[d] = "writing" /\ seen[d] # "QC_PASSED"
      BY <1>1, <1>2, <1>4, <1>5, <2>2
    <3>2. Target[d] \notin passed \/ Target[d] \in reopened
      BY <2>2, <3>1 DEF IInv, RestocksAlone
    <3>3. ~(Target[d] = r /\ Asked[c] = "QC_PASSED")
      BY <1>1, <2>2, <3>1 DEF Rivals, r
    <3>4. passed' \subseteq passed \cup {q \in {r} : Asked[c] = "QC_PASSED"}
      BY <1>1 DEF SetStatus
    <3> QED
      BY <1>7, <3>2, <3>3, <3>4 DEF Grows
  <2>3. ASSUME NEW d \in Call, call'[d] = "restocking"
        PROVE  /\ Target[d] \in passed'
               /\ \/ Target[d] \in reopened' \/ Overtaken(Target[d], "Update")'
                  \/ Rivals(d)' = {} /\ \A p \in left'[d] : back'[Target[d]][p] = 0
    <3>1. CASE d = c
      <4>1. Asked[c] = "QC_PASSED" /\ seen[c] # "QC_PASSED"
        BY <1>2, <1>4, <2>3, <3>1
      <4>2. r \in passed'
        BY <1>1, <1>3, <4>1 DEF SetStatus
      <4>3. CASE c \in stale \/ r \in reopened
        <5>1. c \in stale => Overtaken(r, "Update")'
          BY <1>1, <1>7 DEF Overtaken, Grows, r
        <5> QED
          BY <1>7, <3>1, <4>2, <4>3, <5>1 DEF Grows, r
      <4>4. CASE c \notin stale /\ r \notin reopened
        <5>1. r \notin passed
          BY <1>1, <4>1, <4>4 DEF IInv, RestocksAlone, r
        <5>2. \A p \in Product : back[r][p] = 0
          BY <1>3, <5>1 DEF IInv, TypeOK, RestocksAlone
        <5>3. \A e \in Call : call[e] = "restocking" => Target[e] # r
          BY <5>1 DEF IInv, RestocksAlone
        <5>4. Rivals(c)' = {}
          BY <1>2, <1>4, <4>1, <5>3 DEF Rivals, r
        <5>5. \A p \in left'[c] : back'[r][p] = 0
          BY <1>1, <1>2, <1>5, <5>2
        <5> QED
          BY <3>1, <4>2, <5>4, <5>5 DEF r
      <4> QED
        BY <4>3, <4>4
    <3>2. CASE d # c
      <4>1. call[d] = "restocking" /\ left'[d] = left[d] /\ Kind[d] = "Update"
            /\ Asked[d] = "QC_PASSED" /\ Target[d] \in passed
        BY <1>4, <1>5, <2>3, <3>2 DEF IInv, StepsApart, RestocksAlone
      <4>2. Target[d] \in passed'
        BY <1>7, <4>1 DEF Grows
      <4>3. CASE Target[d] \in reopened \/ Overtaken(Target[d], "Update")
        <5>1. Overtaken(Target[d], "Update") => Overtaken(Target[d], "Update")'
          BY <1>7 DEF Overtaken, Grows
        <5> QED
          BY <1>7, <4>2, <4>3, <5>1 DEF Grows
      <4>4. CASE /\ Target[d] \notin reopened /\ ~Overtaken(Target[d], "Update")
                 /\ Rivals(d) = {} /\ \A p \in left[d] : back[Target[d]][p] = 0
        <5>1. ~(Target[d] = r /\ to = "restocking")
          <6> SUFFICES ASSUME Target[d] = r, to = "restocking"
                       PROVE  FALSE
            OBVIOUS
          <6>1. c \in stale
            BY <1>1, <1>2, <4>1, <4>4 DEF IInv, RestocksAlone, r
          <6> QED
            BY <1>1, <4>4, <6>1 DEF Overtaken, r
        <5>2. Rivals(d)' \subseteq Rivals(d)
          BY <1>4, <2>3, <3>2, <4>1, <5>1 DEF Rivals, r
        <5> QED
          BY <1>1, <4>1, <4>2, <4>4, <5>2
      <4> QED
        BY <4>1, <4>3, <4>4 DEF IInv, RestocksAlone
    <3> QED
      BY <3>1, <3>2
  <2> QED
    BY <2>1, <2>2, <2>3 DEF RestocksAlone
<1> QED
  BY <1>6, <1>8, <1>9, <1>10, <1>11, <1>12, <1>13 DEF IInv

LEMMA RestockKeeps ==
    ASSUME IInv, NEW c \in Call, NEW p \in Product, Restock(c, p)
    PROVE  IInv'
<1> DEFINE r == Target[c]
<1>1. /\ call[c] = "restocking" /\ p \in left[c]
      /\ stock' = [stock EXCEPT ![p] = @ + 1]
      /\ back' = [back EXCEPT ![r][p] = @ + 1]
      /\ left' = [left EXCEPT ![c] = @ \ {p}]
      /\ UNCHANGED <<status, replaced, refunds, call, seen, approved, passed, reopened, stale>>
      /\ owed' = [owed EXCEPT ![c] = {p} \cap Variant] /\ UNCHANGED <<total, crossed>>
  BY DEF Restock
<1>2. r \in Return /\ r \in passed
  BY <1>1, Constants DEF IInv, RestocksAlone
<1> HIDE DEF r
<1>3. /\ back' \in [Return -> [Product -> Nat]] /\ back'[r][p] = back[r][p] + 1
      /\ \A q \in Return : \A n \in Product : q # r \/ n # p => back'[q][n] = back[q][n]
      /\ \A q \in Return : \A n \in Product : back[q][n] \in Nat
  BY <1>1, <1>2 DEF IInv, TypeOK
<1>4. /\ left' \in [Call -> SUBSET Product] /\ left'[c] = left[c] \ {p}
      /\ \A d \in Call \ {c} : left'[d] = left[d]
      /\ \A d \in Call : left'[d] \subseteq Product
  BY <1>1 DEF IInv, TypeOK
<1>5. TypeOK'
  BY <1>1, <1>3, <1>4 DEF IInv, TypeOK
<1>6. Grows
  BY <1>1, <1>3 DEF Grows
<1>7. RefundedTwiceOnlyByRace' /\ ReadsThePast' /\ StepsApart' /\ PassedStays' /\ RefundsAlone'
  BY <1>1, <1>6, RefundsKept, PastKept, ApartKept, AloneKept DEF IInv, PassedStays
<1>8. \/ r \in reopened \/ Overtaken(r, "Update")
      \/ Rivals(c) = {} /\ \A n \in left[c] : back[r][n] = 0
  BY <1>1 DEF IInv, RestocksAlone, r
<1>9. RestockedTwiceOnlyByRace'
  <2> SUFFICES ASSUME NEW q \in Return, NEW n \in Product, back'[q][n] > 1
               PROVE  q \in reopened \/ Overtaken(q, "Update")'
    BY <1>1 DEF RestockedTwiceOnlyByRace
  <2>1. Overtaken(q, "Update") => Overtaken(q, "Update")'
    BY <1>1 DEF Overtaken
  <2>2. CASE q = r /\ n = p
    <3>1. back[r][p] > 0
      BY <1>2, <1>3, <2>2
    <3> QED
      BY <1>1, <1>8, <2>1, <2>2, <3>1
  <2>3. CASE ~(q = r /\ n = p)
    BY <1>3, <2>1, <2>3 DEF IInv, RestockedTwiceOnlyByRace
  <2> QED
    BY <2>2, <2>3
<1>10. ServedOrUnderway'
  <2> SUFFICES ASSUME NEW q \in Return
               PROVE  /\ q \in approved =>
                          \/ q \in replaced \/ Unserved(q)' \/ DiedOn(q)'
                          \/ \E d \in Call : Target[d] = q /\ call[d] = "replacing"
                      /\ q \in passed => \A n \in Items[q] :
                          \/ back'[q][n] > 0 \/ DiedOn(q)'
                          \/ \E d \in Call : Target[d] = q /\ call[d] = "restocking" /\ n \in left'[d]
    BY <1>1 DEF ServedOrUnderway
  <2>1. /\ DiedOn(q) => DiedOn(q)'
        /\ Unserved(q) => Unserved(q)'
    BY <1>6, ExcusesStay
  <2>2. ASSUME q \in approved
        PROVE  \/ q \in replaced \/ Unserved(q)' \/ DiedOn(q)'
               \/ \E d \in Call : Target[d] = q /\ call[d] = "replacing"
    BY <2>1, <2>2 DEF IInv, ServedOrUnderway
  <2>3. ASSUME q \in passed, NEW n \in Items[q]
        PROVE  \/ back'[q][n] > 0 \/ DiedOn(q)'
               \/ \E d \in Call : Target[d] = q /\ call[d] = "restocking" /\ n \in left'[d]
    <3>1. n \in Product
      BY ItemsAssumption
    <3>2. ASSUME NEW d \in Call, Target[d] = q, call[d] = "restocking", n \in left[d]
          PROVE  back'[q][n] > 0 \/ n \in left'[d]
      BY <1>2, <1>3, <1>4, <3>1, <3>2 DEF r
    <3>3. CASE back[q][n] > 0 \/ DiedOn(q)
      <4>1. back[q][n] > 0 => back'[q][n] > 0
        BY <1>6, <3>1 DEF Grows
      <4> QED
        BY <2>1, <3>3, <4>1
    <3> QED
      BY <2>3, <3>2, <3>3 DEF IInv, ServedOrUnderway
  <2> QED
    BY <2>2, <2>3
<1>11. RestocksAlone'
  <2>1. \A q \in Return : \A n \in Product : back'[q][n] > 0 => q \in passed'
    BY <1>1, <1>2, <1>3 DEF IInv, RestocksAlone
  <2>2. \A d \in Call \ stale' :
            Kind[d] = "Update" /\ call'[d] = "writing" /\ Asked[d] = "QC_PASSED"
                /\ seen'[d] # "QC_PASSED"
            => Target[d] \notin passed' \/ Target[d] \in reopened'
    BY <1>1 DEF IInv, RestocksAlone
  <2>3. ASSUME NEW d \in Call, call'[d] = "restocking"
        PROVE  /\ Target[d] \in passed'
               /\ \/ Target[d] \in reopened' \/ Overtaken(Target[d], "Update")'
                  \/ Rivals(d)' = {} /\ \A n \in left'[d] : back'[Target[d]][n] = 0
    <3>1. call[d] = "restocking" /\ Target[d] \in passed' /\ Target[d] \in Return
      BY <1>1, <2>3, Constants DEF IInv, RestocksAlone
    <3>2. CASE Target[d] \in reopened \/ Overtaken(Target[d], "Update")
      <4>1. Overtaken(Target[d], "Update") => Overtaken(Target[d], "Update")'
        BY <1>1 DEF Overtaken
      <4> QED
        BY <1>1, <3>1, <3>2, <4>1
    <3>3. CASE Rivals(d) = {} /\ \A n \in left[d] : back[Target[d]][n] = 0
      <4>1. Rivals(d)' = {}
        BY <1>1, <3>3 DEF Rivals
      <4>2. d = c \/ Target[d] # r
        BY <1>1, <3>1, <3>3 DEF IInv, StepsApart, Rivals, r
      <4>3. \A n \in left'[d] : back'[Target[d]][n] = 0
        <5> SUFFICES ASSUME NEW n \in left'[d]
                     PROVE  back'[Target[d]][n] = 0
          OBVIOUS
        <5>1. n \in Product /\ n \in left[d] /\ (d = c => n # p)
          BY <1>4
        <5> QED
          BY <1>3, <3>1, <3>3, <4>2, <5>1
      <4> QED
        BY <3>1, <4>1, <4>3
    <3> QED
      BY <3>1, <3>2, <3>3 DEF IInv, RestocksAlone
  <2> QED
    BY <2>1, <2>2, <2>3 DEF RestocksAlone
<1> QED
  BY <1>5, <1>7, <1>9, <1>10, <1>11 DEF IInv

\* The transaction of a replacement.
LEMMA ReplaceKeeps ==
    ASSUME IInv, NEW c \in Call, Replace(c)
    PROVE  IInv'
<1> DEFINE r == Target[c]
           there == r \notin replaced /\ \A p \in Items[r] : stock[p] >= 1
           to == IF there THEN "done" ELSE "failed"
<1>1. /\ call[c] = "replacing" /\ Goto(c, to)
      /\ UNCHANGED <<status, refunds, seen, left, owed, back, approved, passed, reopened, stale>>
  BY DEF Replace, history
<1>2. /\ r \in Return
      /\ to \in {"done", "failed"} /\ to \in {"idle"} \cup Underway \cup Final
      /\ to = "done" => r \in replaced'
      /\ replaced \subseteq replaced' /\ replaced' \subseteq Return
  BY Constants DEF Replace, IInv, TypeOK, Final
<1>3. /\ stock' \in [Product -> Nat]
      /\ total' \in [Variant -> Nat] /\ crossed' \subseteq Variant
  <2>1. CASE there
    <3>1. /\ stock' = [p \in Product |-> IF p \in Items[r] THEN stock[p] - 1 ELSE stock[p]]
          /\ Recount(r)
      BY <2>1 DEF Replace
    <3>2. \A p \in Items[r] \cap Product : stock[p] - 1 \in Nat
      BY <2>1 DEF IInv, TypeOK
    <3>3. stock' \in [Product -> Nat]
      BY <3>1, <3>2 DEF IInv, TypeOK
    <3>4. total' \in [Variant -> Nat] /\ crossed' \subseteq Variant
      BY <3>1, <3>2, ItemsAssumption DEF IInv, TypeOK, Recount
    <3> QED
      BY <3>3, <3>4
  <2>2. CASE ~there
    BY <2>2 DEF Replace, IInv, TypeOK
  <2> QED
    BY <2>1, <2>2
<1> HIDE DEF to, there, r
<1>4. /\ call' \in [Call -> {"idle"} \cup Underway \cup Final]
      /\ call'[c] = to /\ \A d \in Call \ {c} : call'[d] = call[d]
  BY <1>1, <1>2, GotoType DEF IInv
<1>5. TypeOK'
  BY <1>1, <1>2, <1>3, <1>4 DEF IInv, TypeOK
<1>6. Grows
  BY <1>1, <1>2, <1>4 DEF Grows, Final
<1>7. RefundedTwiceOnlyByRace' /\ RestockedTwiceOnlyByRace' /\ PassedStays'
  BY <1>1, <1>6, RefundsKept, BackKept DEF IInv, PassedStays
<1>8. ReadsThePast'
  BY <1>1, <1>6, PastKept DEF IInv
<1>9. StepsApart' /\ RefundsAlone'
  BY <1>1, <1>2, <1>4, <1>6, ApartKept, AloneKept DEF IInv, Final
<1>10. RestocksAlone'
  BY <1>1, <1>2, <1>4, <1>6, RestocksKept DEF IInv
<1>11. ServedOrUnderway'
  <2> SUFFICES ASSUME NEW q \in Return
               PROVE  /\ q \in approved =>
                          \/ q \in replaced' \/ Unserved(q)' \/ DiedOn(q)'
                          \/ \E d \in Call : Target[d] = q /\ call'[d] = "replacing"
                      /\ q \in passed => \A n \in Items[q] :
                          \/ back[q][n] > 0 \/ DiedOn(q)'
                          \/ \E d \in Call : Target[d] = q /\ call'[d] = "restocking" /\ n \in left[d]
    BY <1>1 DEF ServedOrUnderway
  <2>1. /\ DiedOn(q) => DiedOn(q)'
        /\ Unserved(q) => Unserved(q)'
    BY <1>6, ExcusesStay
  <2>2. ASSUME q \in approved
        PROVE  \/ q \in replaced' \/ Unserved(q)' \/ DiedOn(q)'
               \/ \E d \in Call : Target[d] = q /\ call'[d] = "replacing"
    <3>1. ASSUME q = r
          PROVE  q \in replaced' \/ Unserved(q)'
      BY <1>2, <1>4, <3>1 DEF Unserved, r
    <3>2. ASSUME q # r, NEW d \in Call, Target[d] = q, call[d] = "replacing"
          PROVE  call'[d] = "replacing"
      BY <1>4, <3>2 DEF r
    <3>3. CASE q \in replaced \/ Unserved(q) \/ DiedOn(q)
      BY <1>2, <2>1, <3>3
    <3> QED
      BY <2>2, <3>1, <3>2, <3>3 DEF IInv, ServedOrUnderway
  <2>3. ASSUME q \in passed, NEW n \in Items[q]
        PROVE  \/ back[q][n] > 0 \/ DiedOn(q)'
               \/ \E d \in Call : Target[d] = q /\ call'[d] = "restocking" /\ n \in left[d]
    <3>1. ASSUME NEW d \in Call, call[d] = "restocking"
          PROVE  call'[d] = "restocking"
      BY <1>1, <1>4, <3>1
    <3>2. CASE back[q][n] > 0 \/ DiedOn(q)
      BY <2>1, <3>2
    <3> QED
      BY <2>3, <3>1, <3>2 DEF IInv, ServedOrUnderway
  <2> QED
    BY <2>2, <2>3
<1> QED
  BY <1>5, <1>7, <1>8, <1>9, <1>10, <1>11 DEF IInv

\* The last write of a vendor's call.
LEMMA AnswerOrCloseKeeps ==
    ASSUME IInv, NEW c \in Call, Answer(c) \/ Close(c)
    PROVE  IInv'
<1> DEFINE r == Target[c]
<1>1. PICK s \in Status :
          /\ SetStatus(r, s) /\ s # "QC_PASSED"
          /\ s = "APPROVED" => Kind[c] = "Accept"
  BY DEF Answer, Close, Status
<1>2. /\ call[c] \in {"writing", "closing"} /\ Goto(c, "done")
      /\ UNCHANGED <<replaced, refunds, stock, seen, left, back, stale, totals>>
  BY DEF Answer, Close
<1>3. r \in Return
  BY Constants
<1> HIDE DEF r
<1>4. /\ call' \in [Call -> {"idle"} \cup Underway \cup Final]
      /\ call'[c] = "done" /\ \A d \in Call \ {c} : call'[d] = call[d]
  BY <1>2, GotoType DEF IInv, Final
<1>5. TypeOK'
  BY <1>1, <1>2, <1>3, <1>4, SetStatusType DEF IInv, TypeOK, totals
<1>6. Grows
  <2>1. approved \subseteq approved' /\ passed \subseteq passed' /\ reopened \subseteq reopened'
    BY <1>1, <1>3, SetStatusType DEF IInv
  <2> QED
    BY <1>2, <1>4, <2>1 DEF Grows, Final
<1>7. RefundedTwiceOnlyByRace' /\ RestockedTwiceOnlyByRace'
  BY <1>2, <1>6, RefundsKept, BackKept DEF IInv
<1>8. PassedStays' /\ ReadsThePast'
  <2>1. /\ PassedStays'
        /\ \A q \in Return : status'[q] = "APPROVED" => q \in approved'
        /\ \A q \in Return : status'[q] = "QC_PASSED" => q \in passed'
    BY <1>1, <1>3, StatusKept DEF IInv
  <2>2. /\ \A d \in Call : seen'[d] = "APPROVED" => Target[d] \in approved'
        /\ \A d \in Call : seen'[d] = "QC_PASSED" => Target[d] \in passed'
    BY <1>2, <1>6 DEF IInv, ReadsThePast, Grows
  <2> QED
    BY <2>1, <2>2 DEF ReadsThePast
<1>9. StepsApart' /\ RefundsAlone'
  BY <1>2, <1>4, <1>6, ApartKept, AloneKept DEF IInv, Final
<1>10. passed' = passed
  BY <1>1 DEF SetStatus
<1>11. RestocksAlone'
  BY <1>2, <1>4, <1>6, <1>10, RestocksKept DEF IInv
<1>12. ServedOrUnderway'
  <2> SUFFICES ASSUME NEW q \in Return
               PROVE  /\ q \in approved' =>
                          \/ q \in replaced \/ Unserved(q)' \/ DiedOn(q)'
                          \/ \E d \in Call : Target[d] = q /\ call'[d] = "replacing"
                      /\ q \in passed => \A n \in Items[q] :
                          \/ back[q][n] > 0 \/ DiedOn(q)'
                          \/ \E d \in Call : Target[d] = q /\ call'[d] = "restocking" /\ n \in left[d]
    BY <1>2, <1>10 DEF ServedOrUnderway
  <2>1. /\ DiedOn(q) => DiedOn(q)'
        /\ Unserved(q) => Unserved(q)'
    BY <1>6, ExcusesStay
  <2>2. ASSUME q \in approved'
        PROVE  \/ q \in replaced \/ Unserved(q)' \/ DiedOn(q)'
               \/ \E d \in Call : Target[d] = q /\ call'[d] = "replacing"
    <3>1. ASSUME NEW d \in Call, call[d] = "replacing"
          PROVE  call'[d] = "replacing"
      BY <1>2, <1>4, <3>1
    <3>2. CASE q \notin approved
      <4>1. q = r /\ Kind[c] = "Accept"
        BY <1>1, <2>2, <3>2 DEF SetStatus
      <4> QED
        BY <1>4, <4>1 DEF Unserved, r
    <3>3. CASE q \in replaced \/ Unserved(q) \/ DiedOn(q)
      BY <2>1, <3>3
    <3> QED
      BY <2>2, <3>1, <3>2, <3>3 DEF IInv, ServedOrUnderway
  <2>3. ASSUME q \in passed, NEW n \in Items[q]
        PROVE  \/ back[q][n] > 0 \/ DiedOn(q)'
               \/ \E d \in Call : Target[d] = q /\ call'[d] = "restocking" /\ n \in left[d]
    <3>1. ASSUME NEW d \in Call, call[d] = "restocking"
          PROVE  call'[d] = "restocking"
      BY <1>2, <1>4, <3>1
    <3>2. CASE back[q][n] > 0 \/ DiedOn(q)
      BY <2>1, <3>2
    <3> QED
      BY <2>3, <3>1, <3>2 DEF IInv, ServedOrUnderway
  <2> QED
    BY <2>2, <2>3
<1> QED
  BY <1>5, <1>7, <1>8, <1>9, <1>11, <1>12 DEF IInv

\* The vendor's refund: the look for one, and the one it makes.
LEMMA RefundKeeps ==
    ASSUME IInv, NEW c \in Call, FindRefund(c) \/ Refund(c)
    PROVE  IInv'
<1> DEFINE r == Target[c]
<1>1. PICK to \in {"refunding", "refused", "closing"} :
          /\ Goto(c, to)
          /\ to = "refunding" => refunds[r] = 0 /\ call[c] = "checking"
          /\ to = "refunding" => refunds' = refunds
  BY DEF FindRefund, Refund
<1>2. /\ call[c] \in {"checking", "refunding"}
      /\ UNCHANGED <<status, replaced, stock, seen, left, back, approved, passed, reopened, totals>>
      /\ stale \subseteq stale' /\ stale' \subseteq Call
  BY RivalsType DEF FindRefund, Refund, history, IInv, TypeOK
<1>3. r \in Return /\ Kind[c] = "Refund"
  BY <1>2, Constants DEF IInv, StepsApart
<1>4. \/ refunds' = refunds
      \/ /\ call[c] = "refunding" /\ to = "closing" /\ stale' = stale \cup Rivals(c)
         /\ refunds' = [refunds EXCEPT ![r] = @ + 1]
  BY <1>1, GotoType DEF FindRefund, Refund, IInv, Goto, TypeOK
<1>5. \A q \in Return : refunds[q] \in Nat
  BY DEF IInv, TypeOK
<1> HIDE DEF r
<1>6. /\ call' \in [Call -> {"idle"} \cup Underway \cup Final]
      /\ call'[c] = to /\ \A d \in Call \ {c} : call'[d] = call[d]
  BY <1>1, GotoType DEF IInv, Final, Underway
<1>7. refunds' \in [Return -> Nat]
  BY <1>3, <1>4 DEF IInv, TypeOK
<1>8. TypeOK'
  BY <1>2, <1>6, <1>7 DEF IInv, TypeOK, totals
<1>9. Grows
  BY <1>2, <1>6 DEF Grows, Final
<1>10. RestockedTwiceOnlyByRace' /\ PassedStays' /\ ReadsThePast'
  BY <1>2, <1>9, BackKept, PastKept DEF IInv, PassedStays
<1>11. StepsApart'
  BY <1>1, <1>2, <1>3, <1>6 DEF IInv, StepsApart
<1>12. RestocksAlone'
  BY <1>2, <1>6, <1>9, RestocksKept DEF IInv
<1>13. ServedOrUnderway'
  <2>1. KeepsServing
    BY <1>2, <1>6 DEF KeepsServing
  <2>2. ServedOrUnderway /\ back' = back /\ approved' = approved /\ passed' = passed
    BY <1>2 DEF IInv
  <2> QED
    BY <1>9, <2>1, <2>2, ServedKept
<1>14. RefundedTwiceOnlyByRace'
  <2> SUFFICES ASSUME NEW q \in Return, refunds'[q] > 1
               PROVE  Overtaken(q, "Refund")'
    BY DEF RefundedTwiceOnlyByRace
  <2>1. Overtaken(q, "Refund") => Overtaken(q, "Refund")'
    BY <1>2 DEF Overtaken
  <2>2. CASE refunds'[q] = refunds[q]
    BY <2>1, <2>2 DEF IInv, RefundedTwiceOnlyByRace
  <2>3. CASE refunds'[q] # refunds[q]
    <3>1. q = r /\ call[c] = "refunding" /\ refunds[r] # 0
      BY <1>3, <1>4, <1>5, <2>3 DEF IInv, TypeOK
    <3>2. c \in stale
      BY <3>1 DEF IInv, RefundsAlone, r
    <3> QED
      BY <1>2, <1>3, <3>1, <3>2 DEF Overtaken, r
  <2> QED
    BY <2>2, <2>3
<1>15. RefundsAlone'
  <2> SUFFICES ASSUME NEW d \in Call \ stale', call'[d] = "refunding"
               PROVE  refunds'[Target[d]] = 0
    BY DEF RefundsAlone
  <2>1. CASE d = c
    BY <1>1, <1>6, <2>1 DEF r
  <2>2. CASE d # c
    <3>1. call[d] = "refunding" /\ d \notin stale /\ Target[d] \in Return /\ Kind[d] = "Refund"
      BY <1>2, <1>6, <2>2, Constants DEF IInv, StepsApart
    <3>2. refunds[Target[d]] = 0
      BY <3>1 DEF IInv, RefundsAlone
    <3>3. CASE refunds' = refunds
      BY <3>2, <3>3
    <3>4. CASE refunds' # refunds
      <4>1. Target[d] # r
        BY <1>3, <1>4, <2>2, <3>1, <3>4 DEF Rivals, r
      <4> QED
        BY <1>3, <1>4, <3>1, <3>2, <4>1 DEF IInv, TypeOK
    <3> QED
      BY <3>3, <3>4
  <2> QED
    BY <2>1, <2>2
<1> QED
  BY <1>8, <1>10, <1>11, <1>12, <1>13, <1>14, <1>15 DEF IInv

-----------------------------------------------------------------------------
\* Of the rows that follow from others, whatever is written to them.
LEMMA QuietKeeps ==
    ASSUME IInv, TypeOK',
           UNCHANGED <<status, replaced, refunds, stock, call, seen, left,
                       back, approved, passed, reopened, stale>>
    PROVE  IInv'
<1>1. Grows
  BY DEF Grows
<1>2. PassedStays'
  BY DEF IInv, PassedStays
<1>3. RefundedTwiceOnlyByRace' /\ RestockedTwiceOnlyByRace' /\ ReadsThePast'
  BY <1>1, RefundsKept, BackKept, PastKept DEF IInv
<1>4. StepsApart' /\ RefundsAlone' /\ RestocksAlone'
  BY <1>1, ApartKept, AloneKept, RestocksKept DEF IInv
<1>5. ServedOrUnderway'
  <2>1. KeepsServing
    BY DEF KeepsServing
  <2>2. ServedOrUnderway /\ back' = back /\ approved' = approved /\ passed' = passed
    BY DEF IInv
  <2> QED
    BY <1>1, <2>1, <2>2, ServedKept
<1> QED
  BY <1>2, <1>3, <1>4, <1>5 DEF IInv

LEMMA RestockProductKeeps ==
    ASSUME IInv, NEW c \in Call, NEW p \in Product, RestockProduct(c, p)
    PROVE  IInv'
<1>1. p \in Variant /\ total[p] + 1 \in Nat
  BY DEF IInv, TypeOK, RestockProduct
<1>2. TypeOK'
  BY <1>1 DEF IInv, TypeOK, RestockProduct, history
<1> QED
  BY <1>2, QuietKeeps DEF RestockProduct, history

LEMMA NextKeeps ==
    ASSUME IInv, [Next]_vars
    PROVE  IInv'
<1>1. CASE UNCHANGED vars
  <2>1. TypeOK'
    BY <1>1 DEF IInv, TypeOK, vars
  <2> QED
    BY <1>1, <2>1, QuietKeeps DEF vars
<1>2. CASE Next
  <2>1. CASE \E r \in Return : Request(r)
    BY <2>1, RequestKeeps
  <2>2. ASSUME NEW c \in Call, Read(c) \/ Goes(c) \/ Die(c)
        PROVE  IInv'
    BY <2>2, ReadKeeps, WriteKeeps, RestockKeeps, RestockProductKeeps, RestockedOrDiedKeeps, ReplaceKeeps,
       AnswerOrCloseKeeps, RefundKeeps DEF Goes
  <2> QED
    BY <1>2, <2>1, <2>2 DEF Next
<1> QED
  BY <1>1, <1>2

\* The inductive invariant, of which the next theorems are parts.
THEOREM Invariance == Spec => []IInv
<1> QED
  BY InitEstablishes, NextKeeps, PTL DEF Spec

\* A request is refunded twice by overlapping calls only, however many there
\* are, and whatever else happens to it.
THEOREM NoSecondRefundAlone == Spec => []RefundedTwiceOnlyByRace
<1>1. IInv => RefundedTwiceOnlyByRace
  BY DEF IInv
<1> QED
  BY <1>1, Invariance, PTL

\* The units of a request are restocked again only by overlapping calls, or
\* after it was moved back.
THEOREM NoSecondRestockAlone == Spec => []RestockedTwiceOnlyByRace
<1>1. IInv => RestockedTwiceOnlyByRace
  BY DEF IInv
<1> QED
  BY <1>1, Invariance, PTL

\* What an administrator has approved is replaced, or somebody is at it, unless
\* a call failed or died.
THEOREM ApprovalsAreServed == Spec => []ServedOrUnderway
<1>1. IInv => ServedOrUnderway
  BY DEF IInv
<1> QED
  BY <1>1, Invariance, PTL

-----------------------------------------------------------------------------
(* Every unit is accounted for                                             *)

\* A replacement's unit of a product, and at any time finitely many of them.
Replaced(p) == {r \in replaced : p \in Items[r]}
Countable == IsFiniteSet(replaced) /\ \A p \in Product : IsFiniteSet(UnitsBack(p))
UInv == UnitsTakenOnce /\ Countable

LEMMA UnitsInit ==
    ASSUME Init
    PROVE  UInv
<1>1. \A p \in Product : stock[p] = Stock[p] /\ Stock[p] \in Nat
  BY ItemsAssumption DEF Init
<1>2. \A p \in Product : UnitsBack(p) = {}
  <2> TAKE p \in Product
  <2>1. \A r \in Return : back[r][p] = 0
    BY DEF Init
  <2>2. 1..0 = {}
    OBVIOUS
  <2> QED
    BY <2>1, <2>2, Zenon DEF UnitsBack
<1>3. replaced = {} /\ \A p \in Product : Replaced(p) = {}
  BY DEF Init, Replaced
<1> QED
  BY <1>1, <1>2, <1>3, FS_EmptySet DEF UInv, UnitsTakenOnce, Countable, Replaced

LEMMA UnitsKept ==
    ASSUME UInv, UNCHANGED <<stock, replaced, back>>
    PROVE  UInv'
BY DEF UInv, UnitsTakenOnce, Countable, UnitsBack

\* A restocked unit is the next one of its request.
LEMMA RestockAddsUnit ==
    ASSUME TypeOK, NEW c \in Call, NEW p \in Product, Restock(c, p)
    PROVE  LET u == <<Target[c], back[Target[c]][p] + 1>> IN
           /\ u \notin UnitsBack(p) /\ UnitsBack(p)' = UnitsBack(p) \cup {u}
           /\ \A q \in Product \ {p} : UnitsBack(q)' = UnitsBack(q)
<1> DEFINE r == Target[c]
           n == back[r][p]
<1>1. r \in Return
  BY Constants
<1>2. n \in Nat /\ back'[r][p] = n + 1
  BY <1>1 DEF Restock, TypeOK
<1>3. \A q \in Return, o \in Product : q # r \/ o # p => back'[q][o] = back[q][o]
  BY <1>1 DEF Restock, TypeOK
<1>4. 1..(n + 1) = (1..n) \cup {n + 1} /\ n + 1 \notin 1..n
  BY <1>2
<1> HIDE DEF r, n
<1>5. <<r, n + 1>> \notin UnitsBack(p)
  BY <1>4 DEF UnitsBack, r, n
<1>6. UnitsBack(p)' = UnitsBack(p) \cup {<<r, n + 1>>}
  <2>1. {r} \X (1..back'[r][p]) = ({r} \X (1..back[r][p])) \cup {<<r, n + 1>>}
    BY <1>2, <1>4 DEF n
  <2>2. \A q \in Return \ {r} : back'[q][p] = back[q][p]
    BY <1>3
  <2> QED
    BY <1>1, <2>1, <2>2 DEF UnitsBack
<1>7. \A q \in Product \ {p} : UnitsBack(q)' = UnitsBack(q)
  BY <1>3 DEF UnitsBack
<1> QED
  BY <1>5, <1>6, <1>7 DEF r, n

LEMMA RestockKeepsUnits ==
    ASSUME TypeOK, UInv, NEW c \in Call, NEW p \in Product, Restock(c, p)
    PROVE  UInv'
<1> DEFINE u == <<Target[c], back[Target[c]][p] + 1>>
<1>1. /\ u \notin UnitsBack(p) /\ UnitsBack(p)' = UnitsBack(p) \cup {u}
      /\ \A q \in Product \ {p} : UnitsBack(q)' = UnitsBack(q)
  BY RestockAddsUnit
<1>2. /\ replaced' = replaced /\ stock[p] \in Nat /\ stock'[p] = stock[p] + 1
      /\ \A q \in Product \ {p} : stock'[q] = stock[q]
  BY DEF Restock, TypeOK
<1> HIDE DEF u
<1>3. /\ IsFiniteSet(UnitsBack(p)) /\ Cardinality(UnitsBack(p)) \in Nat
      /\ IsFiniteSet(UnitsBack(p)') /\ Cardinality(UnitsBack(p)') = Cardinality(UnitsBack(p)) + 1
  BY <1>1, FS_AddElement, FS_CardinalityType DEF UInv, Countable
<1>4. IsFiniteSet(Replaced(p)) /\ Cardinality(Replaced(p)) \in Nat
  BY FS_Subset, FS_CardinalityType DEF UInv, Countable, Replaced
<1>5. Countable'
  BY <1>1, <1>2, <1>3 DEF UInv, Countable
<1>6. Stock[p] \in Nat
  BY ItemsAssumption
<1>7. stock[p] + Cardinality(Replaced(p)) = Stock[p] + Cardinality(UnitsBack(p))
  BY DEF UInv, UnitsTakenOnce, Replaced
<1>8. stock'[p] + Cardinality(Replaced(p)) = Stock[p] + Cardinality(UnitsBack(p)')
  BY <1>2, <1>3, <1>4, <1>6, <1>7
<1>9. UnitsTakenOnce'
  BY <1>1, <1>2, <1>8 DEF UInv, UnitsTakenOnce, Replaced
<1> QED
  BY <1>5, <1>9 DEF UInv

\* A replacement takes a unit of each product, in the step that makes its row.
LEMMA ReplaceKeepsUnits ==
    ASSUME TypeOK, UInv, NEW c \in Call, Replace(c)
    PROVE  UInv'
<1> DEFINE r == Target[c]
<1>1. CASE UNCHANGED <<stock, replaced>>
  BY <1>1, UnitsKept DEF Replace, history
<1>2. CASE r \notin replaced /\ \A p \in Items[r] : stock[p] >= 1
  <2>1. /\ replaced' = replaced \cup {r} /\ back' = back
        /\ stock' = [p \in Product |-> IF p \in Items[r] THEN stock[p] - 1 ELSE stock[p]]
    BY <1>2 DEF Replace, history
  <2>2. Countable'
    BY <2>1, FS_AddElement DEF UInv, Countable, UnitsBack
  <2>3. ASSUME NEW p \in Product
        PROVE  stock'[p] + Cardinality(Replaced(p)') = stock[p] + Cardinality(Replaced(p))
    <3>1. IsFiniteSet(Replaced(p)) /\ Cardinality(Replaced(p)) \in Nat /\ r \notin Replaced(p)
      BY <1>2, FS_Subset, FS_CardinalityType DEF UInv, Countable, Replaced
    <3>2. stock[p] \in Nat
      BY DEF TypeOK
    <3>3. CASE p \in Items[r]
      <4>1. Replaced(p)' = Replaced(p) \cup {r}
        BY <2>1, <3>3 DEF Replaced
      <4>2. Cardinality(Replaced(p)') = Cardinality(Replaced(p)) + 1
        BY <3>1, <4>1, FS_AddElement
      <4>3. stock'[p] = stock[p] - 1
        BY <2>1, <3>3
      <4> QED
        BY <3>1, <3>2, <4>2, <4>3
    <3>4. CASE p \notin Items[r]
      <4>1. Replaced(p)' = Replaced(p) /\ stock'[p] = stock[p]
        BY <2>1, <3>4 DEF Replaced
      <4> QED
        BY <4>1
    <3> QED
      BY <3>3, <3>4
  <2>4. \A p \in Product : UnitsBack(p)' = UnitsBack(p)
    BY <2>1 DEF UnitsBack
  <2>5. UnitsTakenOnce'
    BY <2>3, <2>4 DEF UInv, UnitsTakenOnce, Replaced
  <2> QED
    BY <2>2, <2>5 DEF UInv
<1> QED
  BY <1>1, <1>2 DEF Replace

LEMMA NextKeepsUnits ==
    ASSUME TypeOK, UInv, [Next]_vars
    PROVE  UInv'
<1>1. ASSUME NEW c \in Call, Goes(c)
      PROVE  UInv'
  BY <1>1, UnitsKept, RestockKeepsUnits, ReplaceKeepsUnits
     DEF Goes, Write, RestockProduct, Restocked, Answer, FindRefund, Refund, Close, history
<1>2. ASSUME NEW c \in Call, Read(c) \/ Die(c)
      PROVE  UInv'
  BY <1>2, UnitsKept DEF Read, Die, history
<1>3. CASE \E r \in Return : Request(r)
  BY <1>3, UnitsKept DEF Request
<1>4. CASE UNCHANGED vars
  BY <1>4, UnitsKept DEF vars
<1> QED
  BY <1>1, <1>2, <1>3, <1>4 DEF Next

\* The stock is what there was and what has been restocked, less one unit of
\* each product for each request that is replaced, whichever calls overlap,
\* fail or die: a replacement takes all of its units with its row, or none.
THEOREM ReplacementsTakeTheirUnits == Spec => []UnitsTakenOnce
<1>1. IInv => TypeOK
  BY DEF IInv
<1>2. UInv => UnitsTakenOnce
  BY DEF UInv
<1> QED
  BY <1>1, <1>2, UnitsInit, NextKeepsUnits, Invariance, PTL DEF Spec

-----------------------------------------------------------------------------
(* The rows of a variant and of its product                                *)

\* Of a variant that was not moved apart, the product has what the variant has
\* but for the units that somebody is about to add to it.
TotalsInv == \A p \in Variant :
    /\ IsFiniteSet(Owing(p))
    /\ p \notin crossed => total[p] + Cardinality(Owing(p)) = stock[p]

LEMMA TotalsInit ==
    ASSUME Init
    PROVE  TotalsInv
<1> SUFFICES ASSUME NEW p \in Variant
             PROVE  /\ IsFiniteSet(Owing(p))
                    /\ total[p] + Cardinality(Owing(p)) = stock[p]
  BY DEF TotalsInv
<1>1. Owing(p) = {}
  BY DEF Init, Owing
<1>2. total[p] = stock[p] /\ stock[p] \in Nat
  BY ItemsAssumption DEF Init
<1> QED
  BY <1>1, <1>2, FS_EmptySet

LEMMA TotalsKept ==
    ASSUME TotalsInv, UNCHANGED <<stock, total, owed, crossed>>
    PROVE  TotalsInv'
BY DEF TotalsInv, Owing

\* The first update of restoreStock owes the second one.
LEMMA RestockKeepsTotals ==
    ASSUME TypeOK, TotalsInv, NEW c \in Call, NEW p \in Product, Restock(c, p)
    PROVE  TotalsInv'
<1>1. /\ owed[c] = {} /\ owed'[c] = {p} \cap Variant /\ \A d \in Call \ {c} : owed'[d] = owed[d]
      /\ stock'[p] = stock[p] + 1 /\ \A q \in Product \ {p} : stock'[q] = stock[q]
      /\ UNCHANGED <<total, crossed>>
  BY DEF Restock, TypeOK
<1> SUFFICES ASSUME NEW q \in Variant
             PROVE  /\ IsFiniteSet(Owing(q)')
                    /\ q \notin crossed => total[q] + Cardinality(Owing(q)') = stock'[q]
  BY <1>1 DEF TotalsInv
<1>2. /\ IsFiniteSet(Owing(q)) /\ q \in Product /\ total[q] \in Nat /\ stock[q] \in Nat
      /\ q \notin crossed => total[q] + Cardinality(Owing(q)) = stock[q]
  BY ItemsAssumption DEF TotalsInv, TypeOK
<1>3. CASE q = p
  <2>1. c \notin Owing(q) /\ Owing(q)' = Owing(q) \cup {c}
    BY <1>1, <1>3 DEF Owing
  <2>2. /\ IsFiniteSet(Owing(q)') /\ Cardinality(Owing(q)) \in Nat
        /\ Cardinality(Owing(q)') = Cardinality(Owing(q)) + 1
    BY <1>2, <2>1, FS_AddElement, FS_CardinalityType
  <2> QED
    BY <1>1, <1>2, <1>3, <2>2
<1>4. CASE q # p
  <2>1. Owing(q)' = Owing(q) /\ stock'[q] = stock[q]
    BY <1>1, <1>2, <1>4 DEF Owing
  <2> QED
    BY <1>2, <2>1
<1> QED
  BY <1>3, <1>4

LEMMA RestockProductKeepsTotals ==
    ASSUME TypeOK, TotalsInv, NEW c \in Call, NEW p \in Product, RestockProduct(c, p)
    PROVE  TotalsInv'
<1>1. /\ p \in owed[c] /\ owed'[c] = owed[c] \ {p} /\ \A d \in Call \ {c} : owed'[d] = owed[d]
      /\ p \in Variant /\ total'[p] = total[p] + 1 /\ \A q \in Variant \ {p} : total'[q] = total[q]
      /\ UNCHANGED <<stock, crossed>>
  BY DEF RestockProduct, TypeOK
<1> SUFFICES ASSUME NEW q \in Variant
             PROVE  /\ IsFiniteSet(Owing(q)')
                    /\ q \notin crossed => total'[q] + Cardinality(Owing(q)') = stock[q]
  BY <1>1 DEF TotalsInv
<1>2. /\ IsFiniteSet(Owing(q)) /\ total[q] \in Nat /\ stock[q] \in Nat
      /\ q \notin crossed => total[q] + Cardinality(Owing(q)) = stock[q]
  BY ItemsAssumption DEF TotalsInv, TypeOK
<1>3. CASE q = p
  <2>1. c \in Owing(q) /\ Owing(q)' = Owing(q) \ {c}
    BY <1>1, <1>3 DEF Owing
  <2>2. /\ IsFiniteSet(Owing(q)') /\ Cardinality(Owing(q)) \in Nat
        /\ Cardinality(Owing(q)') = Cardinality(Owing(q)) - 1
    BY <1>2, <2>1, FS_RemoveElement, FS_CardinalityType
  <2> QED
    BY <1>1, <1>2, <1>3, <2>2
<1>4. CASE q # p
  <2>1. Owing(q)' = Owing(q) /\ total'[q] = total[q]
    BY <1>1, <1>4 DEF Owing
  <2> QED
    BY <1>2, <2>1
<1> QED
  BY <1>3, <1>4

\* A call that dies half-way is known to have moved the rows apart.
LEMMA DieKeepsTotals ==
    ASSUME TypeOK, TotalsInv, NEW c \in Call, Die(c)
    PROVE  TotalsInv'
<1>1. /\ owed'[c] = {} /\ \A d \in Call \ {c} : owed'[d] = owed[d]
      /\ crossed' = crossed \cup owed[c] /\ UNCHANGED <<stock, total>>
  BY DEF Die, TypeOK
<1> SUFFICES ASSUME NEW q \in Variant
             PROVE  /\ IsFiniteSet(Owing(q)')
                    /\ q \notin crossed' => total[q] + Cardinality(Owing(q)') = stock[q]
  BY <1>1 DEF TotalsInv
<1>2. /\ IsFiniteSet(Owing(q))
      /\ q \notin crossed => total[q] + Cardinality(Owing(q)) = stock[q]
  BY DEF TotalsInv
<1>3. Owing(q)' \subseteq Owing(q) /\ (q \notin owed[c] => Owing(q)' = Owing(q))
  BY <1>1 DEF Owing
<1> QED
  BY <1>1, <1>2, <1>3, FS_Subset

\* A recount is right unless somebody is about to add to it.
LEMMA ReplaceKeepsTotals ==
    ASSUME TypeOK, TotalsInv, NEW c \in Call, Replace(c)
    PROVE  TotalsInv'
<1> DEFINE r == Target[c]
<1>1. CASE UNCHANGED <<stock, total, crossed>>
  BY <1>1, TotalsKept DEF Replace
<1>2. CASE /\ stock' = [p \in Product |-> IF p \in Items[r] THEN stock[p] - 1 ELSE stock[p]]
           /\ Recount(r)
  <2> SUFFICES ASSUME NEW q \in Variant
               PROVE  /\ IsFiniteSet(Owing(q)')
                      /\ q \notin crossed' => total'[q] + Cardinality(Owing(q)') = stock'[q]
    BY DEF TotalsInv
  <2>1. Owing(q)' = Owing(q) /\ IsFiniteSet(Owing(q)) /\ q \in Product /\ stock[q] \in Nat
    BY ItemsAssumption DEF Replace, TotalsInv, Owing, TypeOK
  <2>2. CASE q \in Items[r]
    <3>1. /\ stock'[q] = stock[q] - 1 /\ total'[q] = stock[q] - 1
          /\ q \notin crossed' => Owing(q) = {}
      BY <1>2, <2>1, <2>2 DEF Recount
    <3> QED
      BY <2>1, <3>1, FS_EmptySet
  <2>3. CASE q \notin Items[r]
    <3>1. /\ stock'[q] = stock[q] /\ total'[q] = total[q]
          /\ q \notin crossed' => q \notin crossed
      BY <1>2, <2>1, <2>3 DEF Recount
    <3> QED
      BY <2>1, <3>1 DEF TotalsInv
  <2> QED
    BY <2>2, <2>3
<1> QED
  BY <1>1, <1>2 DEF Replace

LEMMA NextKeepsTotals ==
    ASSUME TypeOK, TotalsInv, [Next]_vars
    PROVE  TotalsInv'
<1>1. ASSUME NEW c \in Call, Goes(c)
      PROVE  TotalsInv'
  BY <1>1, TotalsKept, RestockKeepsTotals, RestockProductKeepsTotals, ReplaceKeepsTotals
     DEF Goes, Write, Restocked, Answer, FindRefund, Refund, Close, totals
<1>2. ASSUME NEW c \in Call, Read(c) \/ Die(c)
      PROVE  TotalsInv'
  BY <1>2, TotalsKept, DieKeepsTotals DEF Read, totals
<1>3. CASE \E r \in Return : Request(r)
  BY <1>3, TotalsKept DEF Request, totals
<1>4. CASE UNCHANGED vars
  BY <1>4, TotalsKept DEF vars
<1> QED
  BY <1>1, <1>2, <1>3, <1>4 DEF Next

\* The product has as many units as its variant when nobody is between the two
\* updates of restoreStock, for any requests and calls, unless a call died
\* between them or a replacement counted the variants there.
THEOREM ProductsFollowVariants == Spec => []TotalsAgree
<1>1. Init => TotalsInv
  BY TotalsInit
<1>2. TypeOK /\ TotalsInv /\ [Next]_vars => TotalsInv'
  BY NextKeepsTotals
<1>3. TypeOK /\ TotalsInv => TotalsAgree
  BY FS_EmptySet, ItemsAssumption DEF TotalsInv, TotalsAgree, TypeOK
<1>4. IInv => TypeOK
  BY DEF IInv
<1> QED
  BY <1>1, <1>2, <1>3, <1>4, Invariance, PTL DEF Spec
=============================================================================
