----------------------- MODULE VendorMembershipProofs -----------------------
(***************************************************************************)
(* Proofs about VendorMembership, for any vendors, tiers, prices, calls    *)
(* and overlapping jobs.                                                   *)
(***************************************************************************)
EXTENDS VendorMembership, TLAPS

\* The parts of IInv about calls, and those about coins and jobs.
CallsOK == LostOnlyByRace /\ TiersAgree /\ WritesAsRead
JobsOK == CoinsNeverNegative /\ FreeOnlyIfSpent /\ ChargedAgainOnlyByRace /\ ListedIsDue

LEMMA InitEstablishes ==
    ASSUME Init
    PROVE  IInv
<1>1. PICK reg \in SUBSET Vendor, first \in [Vendor -> Tier] :
        member = [v \in Vendor |-> IF v \in reg THEN Registered(first[v]) ELSE NoMember]
  BY DEF Init
<1>2. \A t \in Tier : Registered(t) \in Membership
  BY DEF Registered, Membership, Ends
<1>3. member \in [Vendor -> Membership \cup {NoMember}]
  BY <1>1, <1>2
<1>4. TypeOK
  BY <1>3, TierAssumption, CallAssumption DEF Init, TypeOK, Entry
<1>5. TiersAgree
  BY DEF Init, TiersAgree
<1> QED
  BY <1>4, <1>5, CallAssumption
     DEF Init, IInv, CoinsNeverNegative, LostOnlyByRace, WritesAsRead, AsLeft, FreeOnlyIfSpent,
         ChargedAgainOnlyByRace, ListedIsDue

LEMMA PriceType == \A t \in Tier : Price[t] \in Nat /\ Price[t] \in Int
<1> TAKE t \in Tier
<1>1. Price[t] \in Nat
  BY TierAssumption, Zenon
<1> QED
  BY <1>1

-----------------------------------------------------------------------------
(* What the steps have in common                                           *)

\* Steps that leave the memberships' tiers, the vendors and the calls alone.
LEMMA TiersKept ==
    ASSUME IInv, UNCHANGED <<level, assigned, call, stale>>,
           \A v \in Vendor : /\ member'[v] = NoMember <=> member[v] = NoMember
                             /\ member[v] # NoMember => member'[v].tier = member[v].tier
    PROVE  CallsOK'
<1>1. LostOnlyByRace'
  BY DEF IInv, LostOnlyByRace
<1>2. TiersAgree'
  BY DEF IInv, TiersAgree
<1>3. WritesAsRead'
  BY CallAssumption DEF IInv, WritesAsRead, AsLeft
<1> QED
  BY <1>1, <1>2, <1>3 DEF CallsOK

\* Calls that only pay, refuse or die on the way.
LEMMA CallMoves ==
    ASSUME IInv, NEW c \in Call, UNCHANGED <<member, level, assigned, stale>>, NEW to \in Final \cup {"writing"},
           to = "lost" => c \in stale,
           call' = [call EXCEPT ![c] = to],
           to = "writing" => call[c] = "paying", call[c] \notin Final,
           call[c] = "levelling" => to = "died"
    PROVE  CallsOK'
<1>1. LostOnlyByRace'
  BY DEF IInv, TypeOK, LostOnlyByRace
<1>2. TiersAgree'
  <2>1. \A d \in Call : call[d] = "died" \/ call[d] = "levelling" => call'[d] \in {"levelling", "died"}
    BY DEF IInv, TypeOK, Final
  <2> QED
    BY <2>1 DEF IInv, TiersAgree
<1>3. WritesAsRead'
  BY CallAssumption DEF IInv, TypeOK, WritesAsRead, AsLeft, Final
<1> QED
  BY <1>1, <1>2, <1>3 DEF CallsOK

\* Steps that leave coins and lists alone and renew nothing that is listed.
LEMMA JobsKept ==
    ASSUME IInv, UNCHANGED <<coins, todo, overspent, free, again>>,
           relisted \subseteq relisted',
           \A v \in Vendor : member[v] # NoMember =>
                /\ member'[v] # NoMember
                /\ member'[v].ends = "ahead" =>
                        member[v].ends = "ahead" \/ ~Listed(v) \/ v \in relisted'
    PROVE  JobsOK'
<1>1. CoinsNeverNegative' /\ FreeOnlyIfSpent' /\ ChargedAgainOnlyByRace'
  BY DEF IInv, CoinsNeverNegative, FreeOnlyIfSpent, ChargedAgainOnlyByRace
<1>2. ListedIsDue'
  <2> SUFFICES ASSUME NEW j \in Job, NEW e \in todo[j]
               PROVE  /\ member'[e.vendor] # NoMember
                      /\ member'[e.vendor].ends = "ahead" => e.vendor \in relisted'
    BY DEF IInv, ListedIsDue
  <2>1. e.vendor \in Vendor /\ Listed(e.vendor)
    BY DEF IInv, TypeOK, Entry, Listed
  <2> QED
    BY <2>1 DEF IInv, ListedIsDue
<1> QED
  BY <1>1, <1>2 DEF JobsOK

\* A conditional deduction, by whoever makes it.
LEMMA DeductKeeps ==
    ASSUME IInv, NEW v \in Vendor, NEW n \in Int, Deduct(v, n),
           UNCHANGED <<member, todo, relisted, free, again>>
    PROVE  /\ JobsOK'
           /\ coins' \in [Vendor -> Int] /\ overspent' \subseteq Vendor
<1>1. /\ coins' = [coins EXCEPT ![v] = coins[v] - n] /\ coins[v] >= n
      /\ coins' \in [Vendor -> Int] /\ overspent' \subseteq Vendor
      /\ overspent \subseteq overspent' /\ (Listed(v) => v \in overspent')
  BY DEF IInv, TypeOK, Deduct
<1>2. CoinsNeverNegative'
  BY <1>1 DEF IInv, TypeOK, CoinsNeverNegative
<1>3. FreeOnlyIfSpent' /\ ChargedAgainOnlyByRace'
  BY <1>1 DEF IInv, FreeOnlyIfSpent, ChargedAgainOnlyByRace
<1>4. ListedIsDue'
  <2> SUFFICES ASSUME NEW j \in Job, NEW e \in todo[j],
                      e.covered, coins'[e.vendor] < Price[e.tier]
               PROVE  e.vendor \in overspent'
    BY DEF IInv, ListedIsDue
  <2>1. e.vendor \in Vendor /\ Listed(e.vendor)
    BY DEF IInv, TypeOK, Entry, Listed
  <2>2. CASE e.vendor = v
    BY <1>1, <2>1, <2>2
  <2>3. CASE e.vendor # v
    <3>1. coins'[e.vendor] = coins[e.vendor]
      BY <1>1, <2>1, <2>3 DEF IInv, TypeOK
    <3> QED
      BY <1>1, <3>1 DEF IInv, ListedIsDue
  <2> QED
    BY <2>2, <2>3
<1> QED
  BY <1>1, <1>2, <1>3, <1>4 DEF JobsOK

-----------------------------------------------------------------------------
(* Calls                                                                   *)

LEMMA ReadKeeps ==
    ASSUME IInv, NEW c \in Call, Read(c)
    PROVE  IInv'
<1>1. CallTier[c] \in Tier /\ CallVendor[c] \in Vendor
  BY CallAssumption
<1>2. Eligible(c) => Cost(c) \in Int
  <2>1. CASE Kind[c] = "Subscribe"
    BY <1>1, <2>1, PriceType DEF Cost
  <2>2. CASE Kind[c] = "Upgrade" /\ member[CallVendor[c]] # NoMember
    <3>1. member[CallVendor[c]].ends \in Ends
      BY <1>1, <2>2 DEF IInv, TypeOK, Membership
    <3>2. Prorated[CallTier[c]][member[CallVendor[c]].ends] \in Int
      BY <1>1, <3>1, TierAssumption
    <3> QED
      BY <2>2, <3>2 DEF Cost
  <2> QED
    BY <2>1, <2>2 DEF Eligible
<1>3. TypeOK'
  <2>1. CASE Eligible(c) /\ coins[CallVendor[c]] >= Cost(c)
    BY <1>2, <2>1 DEF IInv, TypeOK, Read, Goto, jobHistory
  <2>2. CASE ~(Eligible(c) /\ coins[CallVendor[c]] >= Cost(c))
    BY <2>2 DEF IInv, TypeOK, Read, Goto, jobHistory, Final
  <2> QED
    BY <2>1, <2>2
<1>4. JobsOK'
  BY JobsKept DEF Read, jobHistory
<1>5. CallsOK'
  <2>1. CASE Eligible(c) /\ coins[CallVendor[c]] >= Cost(c)
    <3>1. call' = [call EXCEPT ![c] = "paying"] /\ UNCHANGED <<member, level, assigned, stale>>
          /\ call[c] = "idle"
      BY <2>1 DEF Read, Goto
    <3>2. LostOnlyByRace'
      BY <3>1 DEF IInv, TypeOK, LostOnlyByRace
    <3>3. TiersAgree'
      BY <3>1 DEF IInv, TypeOK, TiersAgree
    <3>4. WritesAsRead'
      BY <2>1, <3>1 DEF IInv, TypeOK, WritesAsRead, AsLeft, Eligible
    <3> QED
      BY <3>2, <3>3, <3>4 DEF CallsOK
  <2>2. CASE ~(Eligible(c) /\ coins[CallVendor[c]] >= Cost(c))
    BY <2>2, CallMoves DEF Read, Goto, Final
  <2> QED
    BY <2>1, <2>2
<1> QED
  BY <1>3, <1>4, <1>5 DEF IInv, JobsOK, CallsOK

LEMMA ReadUnpaidKeeps ==
    ASSUME IInv, NEW c \in Call, ReadUnpaid(c)
    PROVE  IInv'
<1>1. /\ call' = [call EXCEPT ![c] = "writing"] /\ quote' = [quote EXCEPT ![c] = 0]
      /\ call[c] = "idle" /\ Kind[c] = "Upgrade" /\ Eligible(c)
      /\ UNCHANGED <<coins, member, level, assigned, todo, stale, relisted, overspent, free, again>>
  BY DEF ReadUnpaid, Goto, jobHistory
<1>2. TypeOK'
  BY <1>1 DEF IInv, TypeOK
<1>3. JobsOK'
  BY <1>1, JobsKept
<1>4. LostOnlyByRace' /\ TiersAgree'
  BY <1>1 DEF IInv, TypeOK, LostOnlyByRace, TiersAgree
<1>5. WritesAsRead'
  BY <1>1 DEF IInv, TypeOK, WritesAsRead, AsLeft, Eligible
<1> QED
  BY <1>2, <1>3, <1>4, <1>5 DEF IInv, JobsOK

LEMMA PayKeeps ==
    ASSUME IInv, NEW c \in Call, Pay(c)
    PROVE  IInv'
<1>1. /\ CallVendor[c] \in Vendor /\ quote[c] \in Int /\ Deduct(CallVendor[c], quote[c])
      /\ UNCHANGED <<member, todo, relisted, free, again>>
  BY CallAssumption DEF IInv, TypeOK, Pay
<1>2. JobsOK' /\ coins' \in [Vendor -> Int] /\ overspent' \subseteq Vendor
  BY <1>1, DeductKeeps
<1>3. TypeOK'
  BY <1>2 DEF IInv, TypeOK, Pay, Goto
<1>4. CallsOK'
  BY CallMoves DEF Pay, Goto, Final
<1> QED
  BY <1>2, <1>3, <1>4 DEF IInv, JobsOK, CallsOK

LEMMA SpendKeeps ==
    ASSUME IInv, NEW c \in Call, Spend(c)
    PROVE  IInv'
<1>1. CallVendor[c] \in Vendor /\ Price[CallTier[c]] \in Int
  BY CallAssumption, PriceType
<1>2. /\ Deduct(CallVendor[c], Price[CallTier[c]])
      /\ UNCHANGED <<member, todo, relisted, free, again>>
  BY DEF Spend
<1>3. JobsOK' /\ coins' \in [Vendor -> Int] /\ overspent' \subseteq Vendor
  BY <1>1, <1>2, DeductKeeps
<1>4. TypeOK'
  BY <1>3 DEF IInv, TypeOK, Spend, Goto, Final
<1>5. CallsOK'
  BY CallMoves DEF Spend, Goto, Final
<1> QED
  BY <1>3, <1>4, <1>5 DEF IInv, JobsOK, CallsOK

LEMMA RefuseOrDieKeeps ==
    ASSUME IInv, NEW c \in Call, PayRefused(c) \/ Die(c)
    PROVE  IInv'
<1>1. TypeOK'
  BY DEF IInv, TypeOK, PayRefused, Die, Goto, Final, jobHistory
<1>2. JobsOK'
  BY JobsKept DEF PayRefused, Die, jobHistory
<1>3. CallsOK'
  BY CallMoves DEF PayRefused, Die, Goto, Final
<1> QED
  BY <1>1, <1>2, <1>3 DEF IInv, JobsOK, CallsOK

\* Whoever writes a membership outdates everyone who is about to.
LEMMA WriteKeepsCalls ==
    ASSUME IInv, NEW c \in Call, call[c] = "writing",
           call' = [call EXCEPT ![c] = "levelling"], stale' = stale \cup Overlap(c),
           level' = level, assigned' = assigned,
           NEW m \in Membership, m.tier = CallTier[c],
           member' = [member EXCEPT ![CallVendor[c]] = m]
    PROVE  CallsOK'
<1> DEFINE v == CallVendor[c]
<1>1. v \in Vendor /\ member'[v] = m /\ m # NoMember /\ stale \subseteq stale'
  BY CallAssumption, NoMemberAssumption DEF IInv, TypeOK
<1>2. \A d \in Call \ {c} : CallVendor[d] = v /\ call[d] \in {"paying", "writing", "levelling"}
                             => d \in stale'
  BY DEF Overlap, Others
<1>3. \A w \in Vendor \ {v} : member'[w] = member[w]
  BY DEF IInv, TypeOK
<1>4. \A d \in Call \ {c} : call'[d] = call[d]
  BY DEF IInv, TypeOK
<1>5. call'[c] = "levelling"
  BY DEF IInv, TypeOK
<1>6. LostOnlyByRace'
  BY <1>1, <1>4, <1>5 DEF IInv, LostOnlyByRace
<1>7. TiersAgree'
  BY <1>1, <1>3, <1>4, <1>5 DEF IInv, TiersAgree
<1>8. WritesAsRead'
  <2> SUFFICES ASSUME NEW d \in Call
               PROVE  /\ d \notin stale' => AsLeft(d)'
                      /\ \/ Kind[d] = "Upgrade" /\ call'[d] \in {"paying", "writing"}
                         \/ call'[d] = "levelling"
                         => member'[CallVendor[d]] # NoMember
    BY DEF WritesAsRead
  <2>1. CASE d = c
    BY <1>1, <1>5, <2>1 DEF AsLeft
  <2>2. CASE d # c /\ CallVendor[d] = v
    BY <1>1, <1>2, <1>4, <2>2 DEF AsLeft
  <2>3. CASE d # c /\ CallVendor[d] # v
    <3>1. member'[CallVendor[d]] = member[CallVendor[d]] /\ call'[d] = call[d]
      BY <1>3, <1>4, <2>3, CallAssumption
    <3> QED
      BY <1>1, <3>1 DEF IInv, WritesAsRead, AsLeft
  <2> QED
    BY <2>1, <2>2, <2>3
<1> QED
  BY <1>6, <1>7, <1>8 DEF CallsOK

LEMMA CreateKeeps ==
    ASSUME IInv, NEW c \in Call, Create(c)
    PROVE  IInv'
<1>1. CASE member[CallVendor[c]] = NoMember
  <2>1. PICK auto \in BOOLEAN : member' = [member EXCEPT ![CallVendor[c]] =
                    [tier |-> CallTier[c], ends |-> "ahead", active |-> TRUE, auto |-> auto]]
    BY <1>1 DEF Create
  <2> DEFINE m == [tier |-> CallTier[c], ends |-> "ahead", active |-> TRUE, auto |-> auto]
  <2>2. m \in Membership /\ m.tier = CallTier[c] /\ CallVendor[c] \in Vendor
    BY CallAssumption DEF Membership, Ends
  <2>3. /\ call[c] = "writing" /\ call' = [call EXCEPT ![c] = "levelling"]
        /\ quote' = [quote EXCEPT ![c] = 0]
        /\ stale' = stale \cup Overlap(c) /\ member' = [member EXCEPT ![CallVendor[c]] = m]
        /\ UNCHANGED <<coins, level, assigned, todo, relisted, overspent, free, again>>
    BY <1>1, <2>1 DEF Create, Goto, jobHistory
  <2>4. \A v \in Vendor : member[v] # NoMember => member'[v] = member[v]
    BY <1>1, <2>2, <2>3 DEF IInv, TypeOK
  <2> HIDE DEF m
  <2>5. TypeOK'
    BY <2>2, <2>3 DEF IInv, TypeOK, Overlap, Others
  <2>6. JobsOK'
    BY <2>3, <2>4, JobsKept
  <2>7. CallsOK'
    BY <2>2, <2>3, WriteKeepsCalls
  <2> QED
    BY <2>5, <2>6, <2>7 DEF IInv, JobsOK, CallsOK
<1>2. CASE member[CallVendor[c]] # NoMember
  <2>1. /\ call[c] = "writing" /\ Kind[c] = "Subscribe"
        /\ call' = [call EXCEPT ![c] = "lost"] /\ quote' = [quote EXCEPT ![c] = 0]
        /\ UNCHANGED <<coins, member, level, assigned, todo, stale, relisted, overspent, free, again>>
    BY <1>2 DEF Create, Goto, jobHistory
  <2>2. c \in stale
    BY <1>2, <2>1 DEF IInv, WritesAsRead, AsLeft
  <2>3. TypeOK'
    BY <2>1 DEF IInv, TypeOK, Final
  <2>4. JobsOK'
    BY <2>1, JobsKept
  <2>5. CallsOK'
    BY <2>1, <2>2, CallMoves DEF Final
  <2> QED
    BY <2>3, <2>4, <2>5 DEF IInv, JobsOK, CallsOK
<1> QED
  BY <1>1, <1>2

LEMMA RaiseKeeps ==
    ASSUME IInv, NEW c \in Call, Raise(c)
    PROVE  IInv'
<1> DEFINE v == CallVendor[c]
           m == [member[v] EXCEPT !.tier = CallTier[c]]
<1>1. v \in Vendor /\ member[v] \in Membership
  BY CallAssumption DEF IInv, TypeOK, WritesAsRead, Raise
<1>2. m \in Membership /\ m.tier = CallTier[c] /\ m.ends = member[v].ends
  BY <1>1, CallAssumption DEF Membership
<1>3. /\ call[c] = "writing" /\ call' = [call EXCEPT ![c] = "levelling"]
      /\ quote' = [quote EXCEPT ![c] = 0]
      /\ stale' = stale \cup Overlap(c) /\ member' = [member EXCEPT ![v] = m]
      /\ UNCHANGED <<coins, level, assigned, todo, relisted, overspent, free, again>>
  BY DEF Raise, Goto, jobHistory
<1>4. /\ member'[v] = m /\ m # NoMember
      /\ \A w \in Vendor \ {v} : member'[w] = member[w]
  BY <1>1, <1>2, <1>3, NoMemberAssumption DEF IInv, TypeOK
<1> HIDE DEF m
<1>5. TypeOK'
  BY <1>1, <1>2, <1>3 DEF IInv, TypeOK, Overlap, Others
<1>6. JobsOK'
  BY <1>2, <1>3, <1>4, JobsKept
<1>7. CallsOK'
  BY <1>2, <1>3, WriteKeepsCalls
<1> QED
  BY <1>5, <1>6, <1>7 DEF IInv, JobsOK, CallsOK

LEMMA LevelKeeps ==
    ASSUME IInv, NEW c \in Call, Level(c)
    PROVE  IInv'
<1>1. CallTier[c] \in Tier /\ CallVendor[c] \in Vendor
  BY CallAssumption
<1>2. /\ call[c] = "levelling" /\ call' = [call EXCEPT ![c] = "done"]
      /\ level' = [level EXCEPT ![CallVendor[c]] = CallTier[c]]
      /\ assigned' = assigned \ {CallVendor[c]}
      /\ quote' = [quote EXCEPT ![c] = 0]
      /\ UNCHANGED <<coins, member, todo, stale, relisted, overspent, free, again>>
  BY DEF Level, Goto, jobHistory
<1>3. TypeOK'
  BY <1>1, <1>2 DEF IInv, TypeOK, Final
<1>4. JobsOK'
  BY <1>2, JobsKept
<1>5. LostOnlyByRace'
  BY <1>2 DEF IInv, TypeOK, LostOnlyByRace
<1>6. TiersAgree'
  <2> SUFFICES ASSUME NEW v \in Vendor, v \notin assigned'
               PROVE  \/ member[v] = NoMember \/ level'[v] = member[v].tier
                      \/ \E d \in Call : CallVendor[d] = v
                            /\ (call'[d] \in {"levelling", "died"} \/ d \in stale)
    BY <1>2 DEF TiersAgree
  <2>1. CASE v = CallVendor[c]
    <3>1. level'[v] = CallTier[c]
      BY <1>1, <1>2, <2>1 DEF IInv, TypeOK
    <3>2. c \notin stale => member[v].tier = CallTier[c]
      BY <1>2, <2>1 DEF IInv, WritesAsRead, AsLeft
    <3> QED
      BY <2>1, <3>1, <3>2
  <2>2. CASE v # CallVendor[c]
    <3>1. v \notin assigned /\ level'[v] = level[v] /\ \A d \in Call : CallVendor[d] = v => call'[d] = call[d]
      BY <1>2, <2>2 DEF IInv, TypeOK
    <3> QED
      BY <3>1 DEF IInv, TiersAgree
  <2> QED
    BY <2>1, <2>2
<1>7. WritesAsRead'
  BY <1>2 DEF IInv, TypeOK, WritesAsRead, AsLeft
<1> QED
  BY <1>3, <1>4, <1>5, <1>6, <1>7 DEF IInv, JobsOK

-----------------------------------------------------------------------------
(* The membership otherwise                                                *)

\* An administrator's tier touches no membership, and is remembered.
LEMMA AssignKeeps ==
    ASSUME IInv, NEW v \in Vendor, Assign(v)
    PROVE  IInv'
<1>1. PICK t \in Tier : level' = [level EXCEPT ![v] = t]
  BY DEF Assign
<1>2. /\ assigned' = assigned \cup {v}
      /\ UNCHANGED <<coins, member, call, quote, todo, stale, relisted, overspent, free, again>>
  BY DEF Assign, jobHistory
<1>3. TypeOK'
  BY <1>1, <1>2 DEF IInv, TypeOK
<1>4. JobsOK'
  BY <1>2, JobsKept
<1>5. LostOnlyByRace' /\ WritesAsRead'
  BY <1>2 DEF IInv, LostOnlyByRace, WritesAsRead, AsLeft
<1>6. \A w \in Vendor \ assigned' : w \notin assigned /\ level'[w] = level[w]
  BY <1>1, <1>2 DEF IInv, TypeOK
<1>7. TiersAgree'
  BY <1>2, <1>6 DEF IInv, TiersAgree
<1> QED
  BY <1>3, <1>4, <1>5, <1>7 DEF IInv, JobsOK

LEMMA TimeAndAdminKeep ==
    ASSUME IInv, NEW v \in Vendor, Passes(v) \/ StopRenewal(v) \/ Extend(v) \/ Cancel(v)
    PROVE  IInv'
<1>1. member[v] \in Membership /\ member[v] # NoMember
  BY DEF IInv, TypeOK, Passes, StopRenewal, Extend, Cancel
<1>2. PICK m \in Membership : /\ member' = [member EXCEPT ![v] = m]
                              /\ m.tier = member[v].tier
                              /\ m.ends = "ahead" => member[v].ends = "ahead" \/ Extend(v)
  <2>1. CASE Passes(v)
    <3> DEFINE m == [member[v] EXCEPT !.ends = IF @ = "ahead" THEN "soon" ELSE "past"]
    <3>1. m \in Membership /\ m.tier = member[v].tier /\ m.ends # "ahead"
      BY <1>1 DEF Membership, Ends
    <3> QED
      BY <2>1, <3>1, Zenon DEF Passes
  <2>2. CASE StopRenewal(v)
    <3> DEFINE m == [member[v] EXCEPT !.auto = FALSE]
    <3>1. m \in Membership /\ m.tier = member[v].tier /\ m.ends = member[v].ends
      BY <1>1 DEF Membership
    <3> QED
      BY <2>2, <3>1, Zenon DEF StopRenewal
  <2>3. CASE Extend(v)
    <3>1. PICK e \in Ends : member' = [member EXCEPT ![v].ends = e, ![v].active = TRUE]
      BY <2>3 DEF Extend, Ends
    <3> DEFINE m == [[member[v] EXCEPT !.ends = e] EXCEPT !.active = TRUE]
    <3>2. m \in Membership /\ m.tier = member[v].tier
      BY <1>1 DEF Membership
    <3>3. member' = [member EXCEPT ![v] = m]
      BY <1>1, <3>1 DEF IInv, TypeOK
    <3> QED
      BY <2>3, <3>2, <3>3
  <2>4. CASE Cancel(v)
    <3> DEFINE m == [[member[v] EXCEPT !.active = FALSE] EXCEPT !.auto = FALSE]
    <3>1. m \in Membership /\ m.tier = member[v].tier /\ m.ends = member[v].ends
      BY <1>1 DEF Membership
    <3>2. member' = [member EXCEPT ![v] = m]
      BY <1>1, <2>4 DEF IInv, TypeOK, Cancel
    <3> QED
      BY <3>1, <3>2
  <2> QED
    BY <2>1, <2>2, <2>3, <2>4
<1>3. /\ UNCHANGED <<coins, level, assigned, call, quote, todo, stale, overspent, free, again>>
      /\ relisted \subseteq relisted' /\ relisted' \subseteq Vendor
      /\ Extend(v) /\ Listed(v) => v \in relisted'
  BY DEF IInv, TypeOK, Passes, StopRenewal, Extend, Cancel, jobHistory
<1>4. member'[v] = m /\ m # NoMember /\ \A w \in Vendor \ {v} : member'[w] = member[w]
  BY <1>2, NoMemberAssumption DEF IInv, TypeOK
<1>5. TypeOK'
  BY <1>2, <1>3 DEF IInv, TypeOK
<1>6. JobsOK'
  <2>1. \A w \in Vendor : member[w] # NoMember =>
                /\ member'[w] # NoMember
                /\ member'[w].ends = "ahead" =>
                        member[w].ends = "ahead" \/ ~Listed(w) \/ w \in relisted'
    BY <1>2, <1>3, <1>4
  <2> QED
    BY <1>3, <2>1, JobsKept
<1>7. CallsOK'
  <2>1. \A w \in Vendor : /\ member'[w] = NoMember <=> member[w] = NoMember
                          /\ member[w] # NoMember => member'[w].tier = member[w].tier
    BY <1>1, <1>2, <1>4
  <2> QED
    BY <1>3, <2>1, TiersKept
<1> QED
  BY <1>5, <1>6, <1>7 DEF IInv, JobsOK, CallsOK

-----------------------------------------------------------------------------
(* Renewals                                                                *)

LEMMA ListKeeps ==
    ASSUME IInv, NEW j \in Job, List(j)
    PROVE  IInv'
<1> DEFINE due == {v \in Vendor : Renewable(v)}
           entry(v) == [vendor |-> v, tier |-> member[v].tier,
                        covered |-> coins[v] >= Price[member[v].tier]]
<1>1. /\ todo[j] = {} /\ todo' = [todo EXCEPT ![j] = {entry(v) : v \in due}]
      /\ relisted' = relisted \cup {v \in due : Listed(v)}
      /\ UNCHANGED <<coins, member, level, assigned, call, quote, stale, overspent, free, again>>
  BY DEF List
<1>2. \A v \in due : /\ entry(v) \in Entry
                     /\ member[v] # NoMember /\ member[v].ends = "soon"
  BY DEF Renewable, Entry, IInv, TypeOK, Membership
<1>3. TypeOK'
  <2>1. todo' \in [Job -> SUBSET Entry]
    BY <1>1, <1>2 DEF IInv, TypeOK
  <2> QED
    BY <1>1, <2>1 DEF IInv, TypeOK
<1>4. CoinsNeverNegative' /\ FreeOnlyIfSpent' /\ ChargedAgainOnlyByRace'
  BY <1>1 DEF IInv, CoinsNeverNegative, FreeOnlyIfSpent, ChargedAgainOnlyByRace
<1>5. ListedIsDue'
  <2>1. todo'[j] = {entry(v) : v \in due} /\ \A i \in Job \ {j} : todo'[i] = todo[i]
    BY <1>1 DEF IInv, TypeOK
  <2>2. \A i \in Job \ {j} : \A d \in todo[i] : d.vendor \in due => d.vendor \in relisted'
    BY <1>1 DEF Listed
  <2>3. \A v \in due : entry(v).vendor = v /\ entry(v).tier = member[v].tier
            /\ (entry(v).covered <=> coins[v] >= Price[member[v].tier])
    OBVIOUS
  <2>4. \A v \in due : coins[v] \in Int /\ Price[member[v].tier] \in Int
    <3> TAKE v \in due
    <3>1. v \in Vendor /\ member[v] \in Membership
      BY <1>2 DEF IInv, TypeOK
    <3>2. Price[member[v].tier] \in Nat
      BY <3>1, PriceType DEF Membership
    <3> QED
      BY <3>1, <3>2 DEF IInv, TypeOK
  <2>5. ASSUME NEW v \in due
        PROVE  /\ member'[v] # NoMember /\ member'[v].ends # "ahead"
               /\ ~(entry(v).covered /\ coins'[v] < Price[entry(v).tier])
    <3>1. member' = member /\ coins' = coins
      BY <1>1
    <3>2. member[v] # NoMember /\ member[v].ends = "soon"
      BY <1>2
    <3>3. coins[v] \in Int /\ Price[member[v].tier] \in Int /\ entry(v).tier = member[v].tier
      BY <2>3, <2>4
    <3>4. entry(v).covered <=> coins[v] >= Price[member[v].tier]
      BY <2>3
    <3> HIDE DEF entry
    <3> QED
      BY <3>1, <3>2, <3>3, <3>4
  <2>6. \A d1, d2 \in todo'[j] : d1.vendor = d2.vendor => d1 = d2
    BY <2>1, <2>3
  <2> HIDE DEF due, entry
  <2> SUFFICES ASSUME NEW i \in Job, NEW e \in todo'[i]
               PROVE  /\ member'[e.vendor] # NoMember
                      /\ member'[e.vendor].ends = "ahead" => e.vendor \in relisted'
                      /\ e.covered /\ coins'[e.vendor] < Price[e.tier] => e.vendor \in overspent'
                      /\ \A k \in Job : \A d \in todo'[k] :
                            d.vendor = e.vendor =>
                                IF k = i THEN d = e ELSE e.vendor \in relisted'
    BY DEF ListedIsDue
  <2>7. CASE i = j
    <3>1. PICK v \in due : e = entry(v)
      BY <2>1, <2>7
    <3>2. e.vendor = v
      BY <2>3, <3>1
    <3>3. ASSUME NEW k \in Job, NEW d \in todo'[k], d.vendor = e.vendor
          PROVE  IF k = i THEN d = e ELSE e.vendor \in relisted'
      <4>1. CASE k = j
        BY <2>6, <2>7, <3>3, <4>1
      <4>2. CASE k # j
        <5>1. e.vendor \in due /\ d \in todo[k] /\ k # i
          BY <2>1, <2>7, <3>2, <3>3, <4>2
        <5>2. e.vendor \in relisted'
          BY <2>2, <3>3, <4>2, <5>1
        <5> QED
          BY <5>1, <5>2
      <4> QED
        BY <4>1, <4>2
    <3> QED
      BY <2>5, <3>1, <3>2, <3>3
  <2>8. CASE i # j
    <3>1. e \in todo[i]
      BY <2>1, <2>8
    <3>2. relisted \subseteq relisted'
      BY <1>1
    <3>3. ASSUME NEW k \in Job, NEW d \in todo'[k], d.vendor = e.vendor
          PROVE  IF k = i THEN d = e ELSE e.vendor \in relisted'
      <4>1. CASE k = j
        <5>1. PICK v \in due : d = entry(v)
          BY <2>1, <4>1
        <5>2. e.vendor \in due /\ k # i
          BY <2>3, <2>8, <3>3, <4>1, <5>1
        <5>3. e.vendor \in relisted'
          BY <2>2, <2>8, <3>1, <5>2
        <5> QED
          BY <5>2, <5>3
      <4>2. CASE k # j
        BY <2>1, <3>1, <3>2, <3>3, <4>2 DEF IInv, ListedIsDue
      <4> QED
        BY <4>1, <4>2
    <3> QED
      BY <1>1, <3>1, <3>2, <3>3 DEF IInv, ListedIsDue
  <2> QED
    BY <2>7, <2>8
<1>6. CallsOK'
  BY <1>1, TiersKept
<1> QED
  BY <1>3, <1>4, <1>5, <1>6 DEF IInv, CallsOK

\* A renewal: the entry goes, and the membership it is about is paid up.
LEMMA RenewKeepsLists ==
    ASSUME IInv, NEW j \in Job, NEW e \in todo[j],
           member' = [member EXCEPT ![e.vendor].ends = "ahead"],
           todo' = [todo EXCEPT ![j] = @ \ {e}],
           relisted' = relisted, overspent \subseteq overspent', overspent' \subseteq Vendor,
           \A v \in Vendor \ {e.vendor} : coins'[v] = coins[v],
           coins'[e.vendor] = coins[e.vendor]
                \/ \A i \in Job \ {j} : \A d \in todo[i] :
                        d.vendor = e.vendor => e.vendor \in overspent'
    PROVE  /\ ListedIsDue' /\ e \in Entry
           /\ todo' \in [Job -> SUBSET Entry]
           /\ member' \in [Vendor -> Membership \cup {NoMember}]
           /\ \A v \in Vendor : /\ member'[v] = NoMember <=> member[v] = NoMember
                                /\ member[v] # NoMember => member'[v].tier = member[v].tier
<1> DEFINE m == [member[e.vendor] EXCEPT !.ends = "ahead"]
<1>1. e \in Entry /\ e.vendor \in Vendor /\ member[e.vendor] # NoMember
      /\ member[e.vendor] \in Membership
  BY DEF IInv, TypeOK, Entry, ListedIsDue
<1>2. m \in Membership /\ m.tier = member[e.vendor].tier /\ m.ends = "ahead" /\ m # NoMember
  BY <1>1, NoMemberAssumption DEF Membership, Ends
<1>3. member'[e.vendor] = m /\ \A v \in Vendor \ {e.vendor} : member'[v] = member[v]
  BY <1>1 DEF IInv, TypeOK
<1>4. member' \in [Vendor -> Membership \cup {NoMember}]
  BY <1>1, <1>2 DEF IInv, TypeOK
<1>5. /\ todo' \in [Job -> SUBSET Entry] /\ todo'[j] = todo[j] \ {e}
      /\ \A i \in Job \ {j} : todo'[i] = todo[i]
  BY DEF IInv, TypeOK
<1> HIDE DEF m
<1>6. ListedIsDue'
  <2> SUFFICES ASSUME NEW i \in Job, NEW f \in todo'[i]
               PROVE  /\ member'[f.vendor] # NoMember
                      /\ member'[f.vendor].ends = "ahead" => f.vendor \in relisted
                      /\ f.covered /\ coins'[f.vendor] < Price[f.tier] => f.vendor \in overspent'
                      /\ \A k \in Job : \A d \in todo'[k] :
                            d.vendor = f.vendor => IF k = i THEN d = f ELSE f.vendor \in relisted
    BY DEF ListedIsDue
  <2>1. f \in todo[i] /\ f.vendor \in Vendor /\ (i = j => f # e)
    BY <1>5 DEF IInv, TypeOK, Entry
  <2>2. \A k \in Job : \A d \in todo'[k] : d \in todo[k]
    BY <1>5
  <2>3. \A k \in Job : \A d \in todo'[k] :
            d.vendor = f.vendor => IF k = i THEN d = f ELSE f.vendor \in relisted
    BY <2>1, <2>2 DEF IInv, ListedIsDue
  <2>4. CASE f.vendor = e.vendor
    <3>1. i # j /\ f.vendor \in relisted
      BY <2>1, <2>4 DEF IInv, ListedIsDue
    <3>2. coins'[f.vendor] = coins[f.vendor] \/ f.vendor \in overspent'
      BY <2>1, <2>4, <3>1
    <3>3. f.covered /\ coins'[f.vendor] < Price[f.tier] => f.vendor \in overspent'
      BY <2>1, <3>2 DEF IInv, ListedIsDue
    <3> QED
      BY <1>2, <1>3, <2>3, <2>4, <3>1, <3>3
  <2>5. CASE f.vendor # e.vendor
    BY <1>3, <2>1, <2>3, <2>5 DEF IInv, ListedIsDue
  <2> QED
    BY <2>4, <2>5
<1>7. \A v \in Vendor : /\ member'[v] = NoMember <=> member[v] = NoMember
                        /\ member[v] # NoMember => member'[v].tier = member[v].tier
  BY <1>1, <1>2, <1>3
<1> QED
  BY <1>1, <1>4, <1>5, <1>6, <1>7

LEMMA RenewPaidKeeps ==
    ASSUME IInv, NEW j \in Job, NEW e \in todo[j], RenewPaid(j, e)
    PROVE  IInv'
<1>1. e.vendor \in Vendor /\ Price[e.tier] \in Nat /\ coins[e.vendor] \in Int
  BY PriceType DEF IInv, TypeOK, Entry
<1>2. /\ coins' = [coins EXCEPT ![e.vendor] = @ - Price[e.tier]] /\ coins[e.vendor] >= Price[e.tier]
      /\ UNCHANGED <<level, assigned, call, quote, stale, relisted, free>>
      /\ member' = [member EXCEPT ![e.vendor].ends = "ahead"]
      /\ todo' = [todo EXCEPT ![j] = @ \ {e}]
  BY DEF RenewPaid
<1>3. /\ overspent \subseteq overspent' /\ overspent' \subseteq Vendor
      /\ \A i \in Job \ {j} : \A d \in todo[i] :
            d.vendor = e.vendor => e.vendor \in overspent'
  BY <1>1 DEF IInv, TypeOK, RenewPaid
<1>4. \A v \in Vendor \ {e.vendor} : coins'[v] = coins[v]
  BY <1>2 DEF IInv, TypeOK
<1>5. /\ ListedIsDue' /\ todo' \in [Job -> SUBSET Entry]
      /\ member' \in [Vendor -> Membership \cup {NoMember}]
      /\ \A v \in Vendor : /\ member'[v] = NoMember <=> member[v] = NoMember
                           /\ member[v] # NoMember => member'[v].tier = member[v].tier
  BY <1>2, <1>3, <1>4, RenewKeepsLists
<1>6. coins' \in [Vendor -> Int] /\ CoinsNeverNegative'
  BY <1>1, <1>2 DEF IInv, TypeOK, CoinsNeverNegative
<1>7. again' \subseteq Vendor /\ ChargedAgainOnlyByRace'
  BY <1>1, <1>2 DEF IInv, TypeOK, ChargedAgainOnlyByRace, ListedIsDue, RenewPaid
<1>8. FreeOnlyIfSpent'
  BY <1>2, <1>3 DEF IInv, FreeOnlyIfSpent
<1>9. TypeOK'
  BY <1>2, <1>3, <1>5, <1>6, <1>7 DEF IInv, TypeOK
<1>10. CallsOK'
  BY <1>2, <1>5, TiersKept
<1> QED
  BY <1>5, <1>6, <1>7, <1>8, <1>9, <1>10 DEF IInv, CallsOK

LEMMA RenewUnpaidKeeps ==
    ASSUME IInv, NEW j \in Job, NEW e \in todo[j], RenewUnpaid(j, e)
    PROVE  IInv'
<1>1. e.vendor \in Vendor /\ e.vendor \in overspent /\ overspent \subseteq Vendor
  BY DEF IInv, TypeOK, Entry, ListedIsDue, RenewUnpaid
<1>2. /\ UNCHANGED <<coins, level, assigned, call, quote, stale, relisted, overspent, again>>
      /\ member' = [member EXCEPT ![e.vendor].ends = "ahead"]
      /\ todo' = [todo EXCEPT ![j] = @ \ {e}] /\ free' = free \cup {e.vendor}
  BY DEF RenewUnpaid
<1>3. /\ ListedIsDue' /\ todo' \in [Job -> SUBSET Entry]
      /\ member' \in [Vendor -> Membership \cup {NoMember}]
      /\ \A v \in Vendor : /\ member'[v] = NoMember <=> member[v] = NoMember
                           /\ member[v] # NoMember => member'[v].tier = member[v].tier
  BY <1>1, <1>2, RenewKeepsLists
<1>4. TypeOK'
  BY <1>1, <1>2, <1>3 DEF IInv, TypeOK
<1>5. CoinsNeverNegative' /\ FreeOnlyIfSpent' /\ ChargedAgainOnlyByRace'
  BY <1>1, <1>2 DEF IInv, CoinsNeverNegative, FreeOnlyIfSpent, ChargedAgainOnlyByRace
<1>6. CallsOK'
  BY <1>2, <1>3, TiersKept
<1> QED
  BY <1>3, <1>4, <1>5, <1>6 DEF IInv, CallsOK

LEMMA SkipKeeps ==
    ASSUME IInv, NEW j \in Job, NEW e \in todo[j], Skip(j, e)
    PROVE  IInv'
<1>1. /\ UNCHANGED <<coins, member, level, assigned, call, quote, stale, relisted, overspent, free, again>>
      /\ todo' = [todo EXCEPT ![j] = @ \ {e}]
  BY DEF Skip, jobHistory
<1>2. TypeOK' /\ \A i \in Job : todo'[i] \subseteq todo[i]
  BY <1>1 DEF IInv, TypeOK
<1>3. ListedIsDue'
  BY <1>1, <1>2 DEF IInv, ListedIsDue
<1>4. CoinsNeverNegative' /\ FreeOnlyIfSpent' /\ ChargedAgainOnlyByRace'
  BY <1>1 DEF IInv, CoinsNeverNegative, FreeOnlyIfSpent, ChargedAgainOnlyByRace
<1>5. CallsOK'
  BY <1>1, TiersKept
<1> QED
  BY <1>2, <1>3, <1>4, <1>5 DEF IInv, CallsOK

-----------------------------------------------------------------------------
LEMMA NextKeeps ==
    ASSUME IInv, [Next]_vars
    PROVE  IInv'
<1>1. CASE UNCHANGED vars
  <2>1. TypeOK'
    BY <1>1 DEF IInv, TypeOK, vars
  <2>2. JobsOK'
    BY <1>1, JobsKept DEF vars
  <2>3. CallsOK'
    BY <1>1, TiersKept DEF vars
  <2> QED
    BY <2>1, <2>2, <2>3 DEF IInv, JobsOK, CallsOK
<1>2. CASE Next
  BY <1>2, ReadKeeps, ReadUnpaidKeeps, AssignKeeps, PayKeeps, SpendKeeps, RefuseOrDieKeeps, CreateKeeps, RaiseKeeps, LevelKeeps,
     TimeAndAdminKeep, ListKeeps, RenewPaidKeeps, RenewUnpaidKeeps, SkipKeeps DEF Next
<1> QED
  BY <1>1, <1>2

\* The inductive invariant, of which the next theorems are parts.
THEOREM Invariance == Spec => []IInv
<1> QED
  BY InitEstablishes, NextKeeps, PTL DEF Spec

\* However the deductions of a vendor's coins interleave, none of them
\* overdraws the account.
THEOREM CoinsStayCovered == Spec => []CoinsNeverNegative
<1>1. IInv => CoinsNeverNegative
  BY DEF IInv
<1> QED
  BY <1>1, Invariance, PTL

\* A subscription's coins are lost to nobody but an overlapping call.
THEOREM NoLossAlone == Spec => []LostOnlyByRace
<1>1. IInv => LostOnlyByRace
  BY DEF IInv
<1> QED
  BY <1>1, Invariance, PTL

\* The two copies of the tier agree after any calls that ran one by one, as long
\* as no administrator has made them differ since the last of them.
THEOREM CopiesAgree == Spec => []TiersAgree
<1>1. IInv => TiersAgree
  BY DEF IInv
<1> QED
  BY <1>1, Invariance, PTL

\* A month is free only for a vendor whose coins were spent since the job
\* listed it: nobody looks at the count of the conditional UPDATE.
THEOREM NoFreeMonthAlone == Spec => []FreeOnlyIfSpent
<1>1. IInv => FreeOnlyIfSpent
  BY DEF IInv
<1> QED
  BY <1>1, Invariance, PTL

\* A month already there is charged again only to a vendor that two jobs have
\* listed, or that was extended after it was listed.
THEOREM NoMonthTwiceAlone == Spec => []ChargedAgainOnlyByRace
<1>1. IInv => ChargedAgainOnlyByRace
  BY DEF IInv
<1> QED
  BY <1>1, Invariance, PTL

-----------------------------------------------------------------------------
(* The tier falls only by an upgrade that was overtaken                    *)

\* What a step may do to a membership: the UPDATE of an upgrade that nobody
\* has overtaken finds the tier it has compared with, and raises it.
TierStep == \A v \in Vendor :
    member[v] # NoMember => \/ member'[v].tier >= member[v].tier
                            \/ \E c \in stale : CallVendor[c] = v /\ call[c] = "writing"

LEMMA SameTierSteps ==
    ASSUME IInv, \A v \in Vendor : member[v] # NoMember => member'[v].tier = member[v].tier
    PROVE  TierStep
<1> SUFFICES ASSUME NEW v \in Vendor, member[v] # NoMember
             PROVE  member'[v].tier >= member[v].tier
  BY DEF TierStep
<1>1. member[v].tier \in Nat
  BY TierAssumption DEF IInv, TypeOK, Membership
<1> QED
  BY <1>1

LEMMA CallsStepUp ==
    ASSUME IInv, NEW c \in Call,
           \/ Read(c) \/ ReadUnpaid(c) \/ Pay(c) \/ PayRefused(c)
           \/ Create(c) \/ Raise(c) \/ Level(c) \/ Die(c) \/ Spend(c)
    PROVE  TierStep
<1>1. CallVendor[c] \in Vendor /\ CallTier[c] \in Nat
  BY TierAssumption, CallAssumption
<1>2. CASE UNCHANGED member
  BY <1>2, SameTierSteps
<1>3. CASE Create(c)
  <2>1. \A v \in Vendor : member[v] # NoMember => member'[v] = member[v]
    BY <1>3 DEF Create, IInv, TypeOK
  <2> QED
    BY <2>1, SameTierSteps
<1>4. CASE Raise(c)
  <2> DEFINE u == CallVendor[c]
  <2>1. Kind[c] = "Upgrade" /\ call[c] = "writing"
    BY <1>4 DEF Raise
  <2>2. member[u] # NoMember
    BY <2>1 DEF IInv, WritesAsRead
  <2>3. member[u] \in Membership /\ member[u].tier \in Nat
    BY <1>1, <2>2, TierAssumption DEF IInv, TypeOK, Membership
  <2>4. member'[u].tier = CallTier[c] /\ \A v \in Vendor \ {u} : member'[v] = member[v]
    BY <1>1, <1>4, <2>3 DEF Raise, IInv, TypeOK, Membership
  <2>5. \A v \in Vendor \ {u} : member[v] # NoMember => member[v].tier \in Nat
    BY TierAssumption DEF IInv, TypeOK, Membership
  <2>6. CASE c \in stale
    BY <2>1, <2>4, <2>5, <2>6 DEF TierStep
  <2>7. CASE c \notin stale
    <3>1. member[u].tier < CallTier[c]
      BY <2>1, <2>7 DEF IInv, WritesAsRead, AsLeft
    <3>2. member'[u].tier >= member[u].tier
      BY <1>1, <2>3, <2>4, <3>1
    <3> QED
      BY <2>4, <2>5, <3>2 DEF TierStep
  <2> QED
    BY <2>6, <2>7
<1> QED
  BY <1>2, <1>3, <1>4 DEF Read, ReadUnpaid, Pay, PayRefused, Level, Die, Spend

LEMMA NextStepsUp ==
    ASSUME IInv, [Next]_vars
    PROVE  TierStep
<1>1. CASE UNCHANGED vars
  BY <1>1, SameTierSteps DEF vars
<1>2. ASSUME NEW v \in Vendor, Passes(v) \/ StopRenewal(v) \/ Extend(v) \/ Cancel(v)
      PROVE  TierStep
  <2>1. member[v] \in Membership
    BY <1>2 DEF Passes, StopRenewal, Extend, Cancel, IInv, TypeOK
  <2>2. \A w \in Vendor : member[w] # NoMember => member'[w].tier = member[w].tier
    <3> USE DEF IInv, TypeOK, Membership
    <3>1. CASE Passes(v)
      BY <2>1, <3>1 DEF Passes
    <3>2. CASE StopRenewal(v)
      BY <2>1, <3>2 DEF StopRenewal
    <3>3. CASE Extend(v)
      BY <2>1, <3>3 DEF Extend
    <3>4. CASE Cancel(v)
      BY <2>1, <3>4 DEF Cancel
    <3> QED
      BY <1>2, <3>1, <3>2, <3>3, <3>4
  <2> QED
    BY <2>2, SameTierSteps
<1>3. ASSUME NEW j \in Job, NEW e \in todo[j], RenewPaid(j, e) \/ RenewUnpaid(j, e) \/ Skip(j, e)
      PROVE  TierStep
  <2>1. e.vendor \in Vendor /\ member[e.vendor] \in Membership
    BY DEF IInv, TypeOK, Entry, ListedIsDue
  <2>2. \A w \in Vendor : member[w] # NoMember => member'[w].tier = member[w].tier
    BY <1>3, <2>1 DEF RenewPaid, RenewUnpaid, Skip, IInv, TypeOK, Membership
  <2> QED
    BY <2>2, SameTierSteps
<1>4. ASSUME NEW j \in Job, List(j)
      PROVE  TierStep
  BY <1>4, SameTierSteps DEF List
<1>5. ASSUME NEW v \in Vendor, Assign(v)
      PROVE  TierStep
  BY <1>5, SameTierSteps DEF Assign
<1> QED
  BY <1>1, <1>2, <1>3, <1>4, <1>5, CallsStepUp DEF Next

\* "Can only upgrade to a higher tier": it does, as long as no other call of the
\* vendor writes the membership between the comparison and the UPDATE.
THEOREM UpgradesRaise == Spec => TierFallsOnlyByRace
<1>1. IInv /\ [Next]_vars => [TierStep]_vars
  BY NextStepsUp
<1>2. Spec => [][TierStep]_vars
  BY <1>1, Invariance, PTL DEF Spec
<1> QED
  BY <1>2 DEF TierFallsOnlyByRace, TierStep
=============================================================================
