-------------------------- MODULE CoinLedgerProofs --------------------------
(***************************************************************************)
(* Proofs about CoinLedger, for any users, calls, amounts and overlapping  *)
(* sweeps.                                                                 *)
(***************************************************************************)
EXTENDS CoinLedger, FiniteSetTheorems, TLAPS

-----------------------------------------------------------------------------
(* Sums of coins                                                           *)

LEMMA AmountType ==
    ASSUME NEW c \in Call
    PROVE  /\ CallUser[c] \in User /\ Amount[c] \in Int /\ Kind[c] \in Kinds
           /\ RowAmount(c) \in Int /\ Size(c) \in Nat
BY CallAssumption DEF RowAmount, Size

LEMMA NoCoins == Coins({}) = {}
BY DEF Coins

\* The coins of one more row.
LEMMA OneMoreRow ==
    ASSUME NEW S, NEW c \in Call, c \notin S, IsFiniteSet(Coins(S)),
           NEW T, T = S \cup {c}
    PROVE  /\ IsFiniteSet(Coins(T))
           /\ Cardinality(Coins(T)) = Cardinality(Coins(S)) + Size(c)
           /\ Cardinality(Coins(S)) \in Nat
<1>1. Size(c) \in Nat
  BY AmountType
<1> DEFINE W == {c} \X (1..Size(c))
<1>2. IsFiniteSet(W) /\ Cardinality(W) = Size(c)
  <2>1. IsFiniteSet({c}) /\ Cardinality({c}) = 1
    BY FS_Singleton
  <2>2. IsFiniteSet(1..Size(c)) /\ Cardinality(1..Size(c)) = Size(c)
    BY <1>1, FS_Interval
  <2>3. /\ IsFiniteSet({c} \X (1..Size(c)))
        /\ Cardinality({c} \X (1..Size(c))) = Cardinality({c}) * Cardinality(1..Size(c))
    BY <2>1, <2>2, FS_Product
  <2> QED
    BY <1>1, <2>1, <2>2, <2>3
<1> HIDE DEF W
<1>3. Coins(T) = Coins(S) \cup W
  <2>1. \A x : x \in Coins(T) <=> x \in W \/ \E d \in S : x \in {d} \X (1..Size(d))
    BY DEF Coins, W
  <2>2. \A x : x \in Coins(S) <=> \E d \in S : x \in {d} \X (1..Size(d))
    BY DEF Coins
  <2> QED
    BY <2>1, <2>2
<1>4. Coins(S) \cap W = {}
  BY DEF Coins, W
<1>5. /\ IsFiniteSet(Coins(S) \cup W)
      /\ Cardinality(Coins(S) \cup W) = Cardinality(Coins(S)) + Cardinality(W) - Cardinality({})
  BY <1>2, <1>4, FS_Union
<1>6. Cardinality({}) = 0 /\ Cardinality(Coins(S)) \in Nat
  BY FS_EmptySet, FS_CardinalityType
<1>7. Cardinality(Coins(S) \cup W) = Cardinality(Coins(S)) + Size(c)
  BY <1>1, <1>2, <1>5, <1>6
<1> QED
  BY <1>3, <1>5, <1>6, <1>7

LEMMA FewerRows ==
    ASSUME NEW S, IsFiniteSet(Coins(S)), NEW T \in SUBSET S
    PROVE  IsFiniteSet(Coins(T))
<1>1. Coins(T) \subseteq Coins(S)
  BY DEF Coins
<1> QED
  BY <1>1, FS_Subset

LEMMA SumType ==
    ASSUME RowsOK, NEW u \in User
    PROVE  CreditSum(u) \in Int /\ DebitSum(u) \in Int
<1>1. /\ Cardinality(Coins(CreditsOf(u))) \in Nat
      /\ Cardinality(Coins(DebitsOf(u))) \in Nat
  BY FS_CardinalityType DEF RowsOK
<1> QED
  BY <1>1 DEF CreditSum, DebitSum

\* The sums of a user depend on which rows are live.
LEMMA SameLiveRows ==
    ASSUME NEW u, \A c \in Call : CallUser[c] = u => (row'[c] = "live" <=> row[c] = "live")
    PROVE  /\ CreditsOf(u)' = CreditsOf(u) /\ DebitsOf(u)' = DebitsOf(u)
           /\ CreditSum(u)' = CreditSum(u) /\ DebitSum(u)' = DebitSum(u)
<1>1. CreditsOf(u)' = CreditsOf(u) /\ DebitsOf(u)' = DebitsOf(u)
  BY DEF CreditsOf, DebitsOf
<1> QED
  BY <1>1 DEF CreditSum, DebitSum

\* A new row adds its amount to what the rows of its user add up to.
LEMMA NewRow ==
    ASSUME IInv, NEW c \in Call, row[c] = "none", row' = [row EXCEPT ![c] = "live"],
           NEW u, u = CallUser[c]
    PROVE  /\ IsFiniteSet(Coins(CreditsOf(u)')) /\ IsFiniteSet(Coins(DebitsOf(u)'))
           /\ CreditSum(u)' + DebitSum(u)' = CreditSum(u) + DebitSum(u) + RowAmount(c)
<1>1. /\ u \in User /\ RowAmount(c) \in Int
      /\ IsFiniteSet(Coins(CreditsOf(u))) /\ IsFiniteSet(Coins(DebitsOf(u)))
      /\ CreditSum(u) \in Int /\ DebitSum(u) \in Int
  BY AmountType, SumType DEF IInv, RowsOK
<1>2. row'[c] = "live" /\ \A d \in Call \ {c} : row'[d] = row[d]
  BY DEF IInv, TypeOK
<1>3. c \notin CreditsOf(u) /\ c \notin DebitsOf(u)
  BY DEF CreditsOf, DebitsOf
<1>4. CASE RowAmount(c) > 0
  <2>1. CreditsOf(u)' = CreditsOf(u) \cup {c} /\ DebitsOf(u)' = DebitsOf(u)
    BY <1>1, <1>2, <1>4 DEF CreditsOf, DebitsOf
  <2>2. Size(c) = RowAmount(c)
    BY <1>1, <1>4 DEF Size
  <2>3. /\ IsFiniteSet(Coins(CreditsOf(u)'))
        /\ Cardinality(Coins(CreditsOf(u)')) = Cardinality(Coins(CreditsOf(u))) + Size(c)
    BY <1>1, <1>3, <2>1, OneMoreRow
  <2>4. CreditSum(u)' = CreditSum(u) + RowAmount(c) /\ DebitSum(u)' = DebitSum(u)
    BY <2>1, <2>2, <2>3 DEF CreditSum, DebitSum
  <2> QED
    BY <1>1, <2>1, <2>3, <2>4
<1>5. CASE RowAmount(c) < 0
  <2>1. DebitsOf(u)' = DebitsOf(u) \cup {c} /\ CreditsOf(u)' = CreditsOf(u)
    BY <1>1, <1>2, <1>5 DEF CreditsOf, DebitsOf
  <2>2. Size(c) = -RowAmount(c)
    BY <1>1, <1>5 DEF Size
  <2>3. /\ IsFiniteSet(Coins(DebitsOf(u)')) /\ Cardinality(Coins(DebitsOf(u))) \in Nat
        /\ Cardinality(Coins(DebitsOf(u)')) = Cardinality(Coins(DebitsOf(u))) + Size(c)
    BY <1>1, <1>3, <2>1, OneMoreRow
  <2>4. CreditSum(u)' = CreditSum(u) /\ DebitSum(u)' = DebitSum(u) + RowAmount(c)
    BY <1>1, <2>1, <2>2, <2>3 DEF CreditSum, DebitSum
  <2> QED
    BY <1>1, <2>1, <2>3, <2>4
<1>6. CASE RowAmount(c) = 0
  <2>1. DebitsOf(u)' = DebitsOf(u) /\ CreditsOf(u)' = CreditsOf(u)
    BY <1>1, <1>2, <1>6 DEF CreditsOf, DebitsOf
  <2>2. CreditSum(u)' = CreditSum(u) /\ DebitSum(u)' = DebitSum(u)
    BY <2>1 DEF CreditSum, DebitSum
  <2> QED
    BY <1>1, <1>6, <2>1, <2>2
<1> QED
  BY <1>1, <1>4, <1>5, <1>6

-----------------------------------------------------------------------------
(* The rows                                                                *)

LEMMA InitEstablishes ==
    ASSUME Init
    PROVE  IInv
<1>1. \A u \in User : CreditsOf(u) = {} /\ DebitsOf(u) = {}
  BY DEF Init, CreditsOf, DebitsOf
<1>2. \A u \in User : IsFiniteSet(Coins(CreditsOf(u))) /\ IsFiniteSet(Coins(DebitsOf(u)))
  BY <1>1, NoCoins, FS_EmptySet
<1>3. RowsOK
  BY <1>2 DEF Init, RowsOK
<1> QED
  BY <1>3, CallAssumption, SweepAssumption
     DEF Init, IInv, TypeOK, NegativeOnlyByRace, ReadyCovered

\* Finitely many coins, when all rows of other users stay as live as they are.
LEMMA RowsFinite ==
    ASSUME IInv, NEW v,
           \A d \in Call : CallUser[d] # v => (row'[d] = "live" <=> row[d] = "live"),
           v \in User => IsFiniteSet(Coins(CreditsOf(v)')) /\ IsFiniteSet(Coins(DebitsOf(v)'))
    PROVE  \A u \in User : IsFiniteSet(Coins(CreditsOf(u)')) /\ IsFiniteSet(Coins(DebitsOf(u)'))
<1> SUFFICES ASSUME NEW u \in User, u # v
             PROVE  IsFiniteSet(Coins(CreditsOf(u)')) /\ IsFiniteSet(Coins(DebitsOf(u)'))
  OBVIOUS
<1>1. CreditsOf(u)' = CreditsOf(u) /\ DebitsOf(u)' = DebitsOf(u)
  BY SameLiveRows
<1> QED
  BY <1>1 DEF IInv, RowsOK

\* The rows stay as live as they are, and so do the sums.
LEMMA RowsKept ==
    ASSUME IInv, \A c \in Call : row'[c] = "live" <=> row[c] = "live",
           \A c \in Call : call'[c] # "done" => row'[c] = "none",
           \A s \in Sweep : \A c \in todo'[s] : row'[c] \in {"due", "expired"}
    PROVE  RowsOK'
<1>1. \A u \in User : CreditsOf(u)' = CreditsOf(u) /\ DebitsOf(u)' = DebitsOf(u)
  BY SameLiveRows
<1>2. \A u \in User : IsFiniteSet(Coins(CreditsOf(u)')) /\ IsFiniteSet(Coins(DebitsOf(u)'))
  BY <1>1 DEF IInv, RowsOK
<1> QED
  BY <1>2 DEF RowsOK

\* A call ends and leaves a row, or none.
LEMMA AddRowRows ==
    ASSUME IInv, NEW c \in Call, call[c] # "done", call' = [call EXCEPT ![c] = "done"],
           row' = row \/ row' = [row EXCEPT ![c] = "live"], todo' = todo
    PROVE  RowsOK'
<1>1. row[c] = "none" /\ call'[c] = "done" /\ \A d \in Call \ {c} : call'[d] = call[d]
  BY DEF IInv, TypeOK, RowsOK
<1>2. CASE row' = row
  BY <1>1, <1>2, RowsKept DEF IInv, RowsOK
<1>3. CASE row' = [row EXCEPT ![c] = "live"]
  <2>1. row'[c] = "live" /\ \A d \in Call \ {c} : row'[d] = row[d]
    BY <1>3 DEF IInv, TypeOK
  <2>2. \A u \in User : IsFiniteSet(Coins(CreditsOf(u)')) /\ IsFiniteSet(Coins(DebitsOf(u)'))
    BY <1>1, <1>3, <2>1, NewRow, RowsFinite
  <2>3. \A d \in Call : call'[d] # "done" => row'[d] = "none"
    BY <1>1, <2>1 DEF IInv, RowsOK
  <2>4. \A s \in Sweep : \A d \in todo[s] : row'[d] \in {"due", "expired"}
    BY <1>1, <2>1 DEF IInv, TypeOK, RowsOK
  <2> QED
    BY <2>2, <2>3, <2>4 DEF RowsOK
<1> QED
  BY <1>2, <1>3

LEMMA FallDueRows ==
    ASSUME IInv, NEW c \in Call, FallDue(c)
    PROVE  RowsOK'
<1>1. /\ row[c] = "live" /\ row'[c] = "due" /\ \A d \in Call \ {c} : row'[d] = row[d]
      /\ call' = call /\ todo' = todo
  BY DEF IInv, TypeOK, FallDue, callVars, sweepVars
<1>2. ASSUME NEW u \in User
      PROVE  IsFiniteSet(Coins(CreditsOf(u)')) /\ IsFiniteSet(Coins(DebitsOf(u)'))
  <2>1. CreditsOf(u)' \subseteq CreditsOf(u) /\ DebitsOf(u)' \subseteq DebitsOf(u)
    BY <1>1 DEF CreditsOf, DebitsOf
  <2> QED
    BY <2>1, FewerRows DEF IInv, RowsOK
<1>3. \A d \in Call : call'[d] # "done" => row'[d] = "none"
  BY <1>1 DEF IInv, RowsOK
<1>4. \A s \in Sweep : \A d \in todo[s] : row'[d] \in {"due", "expired"}
  BY <1>1 DEF IInv, TypeOK, RowsOK
<1> QED
  BY <1>1, <1>2, <1>3, <1>4 DEF RowsOK

LEMMA MarkRows ==
    ASSUME IInv, NEW s \in Sweep, NEW c \in Call, Mark(s, c)
    PROVE  /\ RowsOK'
           /\ row[c] \in {"due", "expired"} /\ row'[c] = "expired"
           /\ \A d \in Call \ {c} : row'[d] = row[d]
<1>1. /\ row[c] \in {"due", "expired"} /\ row'[c] = "expired"
      /\ \A d \in Call \ {c} : row'[d] = row[d]
      /\ call' = call /\ \A x \in Sweep : todo'[x] \subseteq todo[x]
  BY DEF IInv, TypeOK, RowsOK, Mark, callVars
<1>2. \A d \in Call : call'[d] # "done" => row'[d] = "none"
  BY <1>1 DEF IInv, RowsOK
<1>3. \A x \in Sweep : \A d \in todo'[x] : row'[d] \in {"due", "expired"}
  BY <1>1 DEF IInv, TypeOK, RowsOK
<1> QED
  BY <1>1, <1>2, <1>3, RowsKept

LEMMA NextRows ==
    ASSUME IInv, [Next]_vars
    PROVE  RowsOK'
<1>1. CASE \E c \in Call : Increment(c) \/ Decrement(c) \/ Overwrite(c) \/ Boost(c)
  BY <1>1, AddRowRows DEF Increment, Decrement, Overwrite, Boost, Finish, AddRow, sweepVars
<1>2. CASE \E c \in Call : FallDue(c)
  BY <1>2, FallDueRows
<1>3. CASE \E s \in Sweep : \E c \in Call : Mark(s, c)
  BY <1>3, MarkRows
<1>4. CASE \E c \in Call : Read(c) \/ Abort(c)
  <2>1. /\ row' = row /\ todo' = todo
        /\ \A c \in Call : call'[c] # "done" => call[c] # "done"
    BY <1>4 DEF IInv, TypeOK, Read, Abort, sweepVars
  <2> QED
    BY <2>1, RowsKept DEF IInv, RowsOK
<1>5. CASE \E s \in Sweep : List(s) \/ SumCredits(s) \/ SumDebits(s) \/ WriteBalance(s)
                                \/ SweepDies(s)
  <2>1. PICK s \in Sweep : List(s) \/ SumCredits(s) \/ SumDebits(s) \/ WriteBalance(s)
                                \/ SweepDies(s)
    BY <1>5
  <2>2. row' = row /\ call' = call
    BY <2>1 DEF List, SumCredits, SumDebits, WriteBalance, SweepDies, callVars
  <2>3. \A x \in Sweep : \A c \in todo'[x] : c \in todo[x] \/ row[c] = "due"
    BY <2>1 DEF IInv, TypeOK, List, SumCredits, SumDebits, WriteBalance, SweepDies
  <2> QED
    BY <2>2, <2>3, RowsKept DEF IInv, RowsOK
<1>6. CASE UNCHANGED vars
  <2>1. row' = row /\ call' = call /\ todo' = todo
    BY <1>6 DEF vars
  <2> QED
    BY <2>1, RowsKept DEF IInv, RowsOK
<1> QED
  BY <1>1, <1>2, <1>3, <1>4, <1>5, <1>6 DEF Next

-----------------------------------------------------------------------------
(* No debt without a race                                                  *)

\* Coins an administrator has taken stay taken.
LEMMA ForcedGrows ==
    ASSUME \A c \in Call : row[c] # "none" => row'[c] # "none"
    PROVE  Forced \subseteq Forced'
BY DEF Forced

\* Whoever else is about to write coins that move is stale from then on.
LEMMA MovesKeepCovered ==
    ASSUME IInv, NEW u \in User, NEW x \in Call \cup Sweep, Outdate(u, x),
           \A c \in Call : call'[c] = "ready" =>
                call[c] = "ready" /\ c # x /\ seen'[c] = seen[c],
           \A w \in User \ {u} : balance'[w] = balance[w],
           raced \subseteq raced', Forced \subseteq Forced'
    PROVE  ReadyCovered'
<1> SUFFICES ASSUME NEW c \in Call, call'[c] = "ready"
             PROVE  /\ Kind[c] \in Checked /\ c \notin stale' => balance'[CallUser[c]] >= Amount[c]
                    /\ Kind[c] = "Adjust" /\ seen'[c] < 0 => CallUser[c] \in raced' \cup Forced'
  BY DEF ReadyCovered
<1>1. call[c] = "ready" /\ c # x /\ seen'[c] = seen[c] /\ CallUser[c] \in User
  BY CallAssumption
<1>2. CallUser[c] = u => c \in stale'
  BY <1>1 DEF Outdate, ReadersOf
<1>3. c \in stale => c \in stale'
  BY <1>1 DEF Outdate
<1>4. CallUser[c] # u => balance'[CallUser[c]] = balance[CallUser[c]]
  BY <1>1
<1> QED
  BY <1>1, <1>2, <1>3, <1>4 DEF IInv, ReadyCovered

\* Steps that leave the coins alone.
LEMMA QuietKeeps ==
    ASSUME IInv, TypeOK', RowsOK', balance' = balance, raced' = raced, stale \cap Call \subseteq stale',
           \A c \in Call : row[c] # "none" => row'[c] # "none",
           \A c \in Call : call'[c] = "ready" => call[c] = "ready" /\ seen'[c] = seen[c]
    PROVE  IInv'
<1>1. Forced \subseteq Forced'
  BY ForcedGrows
<1>2. NegativeOnlyByRace'
  BY <1>1 DEF IInv, NegativeOnlyByRace
<1>3. ReadyCovered'
  BY <1>1 DEF IInv, ReadyCovered
<1> QED
  BY <1>2, <1>3 DEF IInv

-----------------------------------------------------------------------------
LEMMA ReadKeeps ==
    ASSUME IInv, RowsOK', NEW c \in Call, Read(c)
    PROVE  IInv'
<1>1. TypeOK'
  BY CallAssumption DEF IInv, TypeOK, Read, Remember, sweepVars
<1>2. Forced' = Forced
  BY DEF Read, Forced
<1>3. NegativeOnlyByRace'
  BY <1>2 DEF IInv, NegativeOnlyByRace, Read
<1>4. ReadyCovered'
  <2> SUFFICES ASSUME NEW d \in Call, call'[d] = "ready"
               PROVE  /\ Kind[d] \in Checked /\ d \notin stale' => balance'[CallUser[d]] >= Amount[d]
                      /\ Kind[d] = "Adjust" /\ seen'[d] < 0 => CallUser[d] \in raced' \cup Forced'
    BY DEF ReadyCovered
  <2>1. CASE d # c
    BY <1>2, <2>1 DEF IInv, TypeOK, ReadyCovered, Read, Remember
  <2>2. CASE d = c
    <3>1. /\ seen'[c] = IF Kind[c] = "Adjust" THEN balance[CallUser[c]] ELSE 0
          /\ Kind[c] \in Checked => ~(balance[CallUser[c]] < Amount[c])
          /\ balance' = balance /\ raced' = raced
      BY <2>2 DEF IInv, TypeOK, Read, Remember
    <3>2. CallUser[c] \in User /\ balance[CallUser[c]] \in Int /\ Amount[c] \in Int
      BY CallAssumption DEF IInv, TypeOK
    <3>3. balance[CallUser[c]] < 0 => CallUser[c] \in raced \cup Forced
      BY <3>2 DEF IInv, NegativeOnlyByRace
    <3> QED
      BY <1>2, <2>2, <3>1, <3>2, <3>3
  <2> QED
    BY <2>1, <2>2
<1> QED
  BY <1>1, <1>3, <1>4 DEF IInv

LEMMA AbortKeeps ==
    ASSUME IInv, RowsOK', NEW c \in Call, Abort(c)
    PROVE  IInv'
<1>1. TypeOK'
  BY DEF IInv, TypeOK, Abort, sweepVars
<1>2. Forced' = Forced
  BY DEF Abort, Forced
<1>3. NegativeOnlyByRace'
  BY <1>2 DEF IInv, NegativeOnlyByRace, Abort
<1>4. ReadyCovered'
  BY <1>2 DEF IInv, TypeOK, ReadyCovered, Abort
<1> QED
  BY <1>1, <1>3, <1>4 DEF IInv

\* What Increment, Decrement and Overwrite have in common.
LEMMA FinishKeeps ==
    ASSUME IInv, RowsOK', NEW c \in Call, Finish(c), NEW b \in Int,
           balance' = [balance EXCEPT ![CallUser[c]] = b],
           row' \in [Call -> {"none", "live", "due", "expired"}],
           \A d \in Call : row[d] # "none" => row'[d] # "none",
           raced \subseteq raced', raced' \subseteq User, drifted' \subseteq User,
           b < 0 => CallUser[c] \in raced' \cup Forced'
    PROVE  IInv'
<1>1. CallUser[c] \in User
  BY CallAssumption
<1>2. TypeOK'
  <2>1. stale' \subseteq Call \cup Sweep
    BY DEF IInv, TypeOK, Finish, Outdate, ReadersOf
  <2>2. balance' \in [User -> Int]
    BY <1>1 DEF IInv, TypeOK
  <2>3. /\ call' \in [Call -> {"idle", "ready", "done"}] /\ seen' \in [Call -> Int]
        /\ UNCHANGED <<phase, todo, on, sum, faults>>
    BY DEF IInv, TypeOK, Finish, sweepVars
  <2> QED
    BY <2>1, <2>2, <2>3 DEF IInv, TypeOK
<1>3. Forced \subseteq Forced'
  BY ForcedGrows
<1>4. NegativeOnlyByRace'
  BY <1>1, <1>3 DEF IInv, TypeOK, NegativeOnlyByRace
<1>5. \A d \in Call : call'[d] = "ready" => call[d] = "ready" /\ d # c /\ seen'[d] = seen[d]
  BY DEF IInv, TypeOK, Finish
<1>6. \A w \in User \ {CallUser[c]} : balance'[w] = balance[w]
  BY <1>1 DEF IInv, TypeOK
<1>7. ReadyCovered'
  BY <1>1, <1>3, <1>5, <1>6, MovesKeepCovered DEF Finish
<1> QED
  BY <1>2, <1>4, <1>7 DEF IInv

LEMMA AddRowType ==
    ASSUME IInv, NEW c \in Call, AddRow(c)
    PROVE  /\ row' \in [Call -> {"none", "live", "due", "expired"}]
           /\ \A d \in Call : row[d] # "none" => row'[d] # "none"
           /\ drifted' \subseteq User
BY CallAssumption DEF IInv, TypeOK, AddRow

LEMMA IncrementKeeps ==
    ASSUME IInv, RowsOK', NEW c \in Call, Increment(c)
    PROVE  IInv'
<1> DEFINE b == balance[CallUser[c]] + Amount[c]
<1>1. CallUser[c] \in User /\ balance[CallUser[c]] \in Int /\ Amount[c] \in Int /\ Amount[c] >= 0
  BY CallAssumption DEF IInv, TypeOK, Increment, Blind
<1>2. b \in Int /\ balance' = [balance EXCEPT ![CallUser[c]] = b]
  BY <1>1 DEF Increment
<1>3. AddRow(c) /\ Finish(c) /\ raced' = raced /\ raced \subseteq User
  BY DEF IInv, TypeOK, Increment
<1>4. Forced \subseteq Forced'
  BY <1>3, AddRowType, ForcedGrows
<1>5. b < 0 => CallUser[c] \in raced' \cup Forced'
  BY <1>1, <1>3, <1>4 DEF IInv, NegativeOnlyByRace
<1> HIDE DEF b
<1> QED
  BY <1>2, <1>3, <1>5, AddRowType, FinishKeeps

LEMMA DecrementKeeps ==
    ASSUME IInv, RowsOK', NEW c \in Call, Decrement(c)
    PROVE  IInv'
<1> DEFINE b == balance[CallUser[c]] - Amount[c]
<1>1. CallUser[c] \in User /\ balance[CallUser[c]] \in Int /\ Amount[c] \in Int
  BY CallAssumption DEF IInv, TypeOK
<1>2. b \in Int /\ balance' = [balance EXCEPT ![CallUser[c]] = b]
  BY <1>1 DEF Decrement
<1>3. AddRow(c) /\ Finish(c)
  BY DEF Decrement
<1>4. raced \subseteq raced' /\ raced' \subseteq User /\ (c \in stale => CallUser[c] \in raced')
  BY <1>1 DEF IInv, TypeOK, Decrement
<1>5. b < 0 => CallUser[c] \in raced'
  BY <1>1, <1>4 DEF IInv, ReadyCovered, Decrement
<1> HIDE DEF b
<1> QED
  BY <1>2, <1>3, <1>4, <1>5, AddRowType, FinishKeeps

LEMMA OverwriteKeeps ==
    ASSUME IInv, RowsOK', NEW c \in Call, Overwrite(c)
    PROVE  IInv'
<1> DEFINE b == seen[c] + Amount[c]
<1>1. CallUser[c] \in User /\ seen[c] \in Int /\ Amount[c] \in Int
  BY CallAssumption DEF IInv, TypeOK
<1>2. b \in Int /\ balance' = [balance EXCEPT ![CallUser[c]] = b]
  BY <1>1 DEF Overwrite
<1>3. /\ Finish(c) /\ raced' = raced /\ raced \subseteq User /\ drifted' \subseteq User
      /\ row' = [row EXCEPT ![c] = "live"]
  BY <1>1 DEF IInv, TypeOK, Overwrite
<1>4. /\ row' \in [Call -> {"none", "live", "due", "expired"}] /\ row'[c] = "live"
      /\ \A d \in Call : row[d] # "none" => row'[d] # "none"
  BY <1>3 DEF IInv, TypeOK
<1>5. Forced \subseteq Forced'
  BY <1>4, ForcedGrows
<1>6. b < 0 => CallUser[c] \in raced' \cup Forced'
  <2>1. CASE Amount[c] < 0
    BY <1>4, <2>1 DEF Forced
  <2>2. CASE Amount[c] >= 0
    BY <1>1, <1>3, <1>5, <2>2 DEF IInv, ReadyCovered, Overwrite
  <2> QED
    BY <1>1, <2>1, <2>2
<1> HIDE DEF b
<1> QED
  BY <1>2, <1>3, <1>4, <1>6, FinishKeeps

\* A boost leaves the coins of the user alone.
LEMMA BoostKeeps ==
    ASSUME IInv, RowsOK', NEW c \in Call, Boost(c)
    PROVE  IInv'
<1>1. TypeOK'
  BY AmountType, SweepAssumption DEF IInv, TypeOK, Boost, ReadersOf, sweepVars
<1>2. /\ \A d \in Call : row[d] # "none" => row'[d] # "none"
      /\ \A d \in Call : call'[d] = "ready" => call[d] = "ready" /\ seen'[d] = seen[d]
  BY DEF IInv, TypeOK, Boost
<1> QED
  BY <1>1, <1>2, QuietKeeps DEF Boost

-----------------------------------------------------------------------------
LEMMA FallDueKeeps ==
    ASSUME IInv, RowsOK', NEW c \in Call, FallDue(c)
    PROVE  IInv'
<1>1. TypeOK'
  BY DEF IInv, TypeOK, FallDue, callVars, sweepVars
<1> QED
  BY <1>1, QuietKeeps DEF IInv, TypeOK, FallDue, callVars

\* A sweep reads and marks rows without touching a balance.
LEMMA SweepReadsKeep ==
    ASSUME IInv, RowsOK', NEW s \in Sweep,
           \/ List(s) \/ SumCredits(s) \/ SumDebits(s) \/ SweepDies(s)
           \/ \E c \in Call : Mark(s, c)
    PROVE  IInv'
<1>1. CASE List(s)
  <2>1. TypeOK'
    BY <1>1, SweepAssumption DEF IInv, TypeOK, List, callVars
  <2> QED
    BY <1>1, <2>1, QuietKeeps DEF List, callVars
<1>2. CASE SumCredits(s)
  <2>1. CreditSum(CallUser[on[s]]) \in Int
    BY <1>2, AmountType, SumType DEF IInv, TypeOK, SumCredits
  <2>2. TypeOK'
    BY <1>2, <2>1 DEF IInv, TypeOK, SumCredits, callVars
  <2> QED
    BY <1>2, <2>2, QuietKeeps DEF SumCredits, callVars
<1>3. CASE SumDebits(s)
  <2>1. sum[s] \in Int /\ DebitSum(CallUser[on[s]]) \in Int
    BY <1>3, AmountType, SumType DEF IInv, TypeOK, SumDebits
  <2>2. TypeOK'
    BY <1>3, <2>1 DEF IInv, TypeOK, SumDebits, callVars
  <2> QED
    BY <1>3, <2>2, QuietKeeps DEF SumDebits, callVars
<1>4. CASE SweepDies(s)
  <2>1. on[s] # NoRow => CallUser[on[s]] \in User
    BY CallAssumption DEF IInv, TypeOK
  <2>2. TypeOK'
    BY <1>4, <2>1 DEF IInv, TypeOK, SweepDies, callVars
  <2>3. stale \cap Call \subseteq stale'
    BY <1>4, SweepAssumption DEF SweepDies
  <2> QED
    BY <1>4, <2>2, <2>3, QuietKeeps DEF SweepDies, callVars
<1>5. ASSUME NEW c \in Call, Mark(s, c)
      PROVE  IInv'
  <2>1. TypeOK'
    BY <1>5, SweepAssumption DEF IInv, TypeOK, Mark, ReadersOf, callVars
  <2>2. /\ \A d \in Call : row[d] # "none" => row'[d] # "none"
        /\ stale \cap Call \subseteq stale'
    BY <1>5 DEF IInv, TypeOK, Mark
  <2> QED
    BY <1>5, <2>1, <2>2, QuietKeeps DEF Mark, callVars
<1> QED
  BY <1>1, <1>2, <1>3, <1>4, <1>5

\* The balance a sweep writes is never negative, and calls that have read
\* another one are stale.
LEMMA WriteBalanceKeeps ==
    ASSUME IInv, RowsOK', NEW s \in Sweep, WriteBalance(s)
    PROVE  IInv'
<1> DEFINE u == CallUser[on[s]]
<1>1. on[s] \in Call /\ u \in User /\ sum[s] \in Int
  BY CallAssumption DEF IInv, TypeOK, WriteBalance
<1>2. /\ balance' = [balance EXCEPT ![u] = IF sum[s] < 0 THEN 0 ELSE sum[s]]
      /\ Outdate(u, s) /\ UNCHANGED <<row, call, seen, raced>>
      /\ drifted' \in {drifted \cup {u}, drifted \ {u}}
  BY DEF WriteBalance, callVars
<1>3. Forced' = Forced
  BY <1>2 DEF Forced
<1>4. TypeOK'
  <2>1. stale' \subseteq Call \cup Sweep /\ drifted' \subseteq User
    BY <1>1, <1>2 DEF IInv, TypeOK, Outdate, ReadersOf
  <2>2. balance' \in [User -> Int]
    BY <1>1, <1>2 DEF IInv, TypeOK
  <2> QED
    BY <1>2, <2>1, <2>2 DEF IInv, TypeOK, WriteBalance
<1>5. NegativeOnlyByRace'
  BY <1>1, <1>2, <1>3 DEF IInv, TypeOK, NegativeOnlyByRace
<1>6. /\ \A c \in Call : call'[c] = "ready" => call[c] = "ready" /\ c # s /\ seen'[c] = seen[c]
      /\ \A w \in User \ {u} : balance'[w] = balance[w]
  BY <1>1, <1>2, SweepAssumption DEF IInv, TypeOK
<1> HIDE DEF u
<1>7. ReadyCovered'
  BY <1>1, <1>2, <1>3, <1>6, MovesKeepCovered
<1> QED
  BY <1>4, <1>5, <1>7 DEF IInv

LEMMA NextKeeps ==
    ASSUME IInv, [Next]_vars
    PROVE  IInv'
<1>1. CASE UNCHANGED vars
  <2>1. TypeOK'
    BY <1>1 DEF IInv, TypeOK, vars, callVars, sweepVars
  <2> QED
    BY <1>1, <2>1, NextRows, QuietKeeps DEF vars
<1>2. CASE Next
  BY <1>2, NextRows, ReadKeeps, AbortKeeps, IncrementKeeps, DecrementKeeps, OverwriteKeeps, BoostKeeps,
     FallDueKeeps, SweepReadsKeep, WriteBalanceKeeps DEF Next
<1> QED
  BY <1>1, <1>2

\* The inductive invariant, of which the other theorems are parts.
THEOREM Invariance == Spec => []IInv
<1> QED
  BY InitEstablishes, NextKeeps, PTL DEF Spec

\* Coins are owed only after calls that overlapped, or after an administrator
\* took them: neither a retry, a refund nor a sweep that reads alongside other
\* calls makes a balance negative.
THEOREM NoDebtWithoutRace == Spec => []NegativeOnlyByRace
<1>1. IInv => NegativeOnlyByRace
  BY DEF IInv
<1> QED
  BY <1>1, Invariance, PTL

-----------------------------------------------------------------------------
(* The balance is the ledger                                               *)

LEMMA InitLedger ==
    ASSUME Init
    PROVE  LedgerInv
<1>1. \A u \in User : CreditSum(u) = 0 /\ DebitSum(u) = 0
  <2>1. \A u \in User : CreditsOf(u) = {} /\ DebitsOf(u) = {}
    BY DEF Init, CreditsOf, DebitsOf
  <2> QED
    BY <2>1, NoCoins, FS_EmptySet DEF CreditSum, DebitSum
<1>2. BalanceIsLedger
  BY <1>1 DEF Init, BalanceIsLedger
<1>3. ReadingsCurrent
  BY DEF Init, ReadingsCurrent
<1> QED
  BY <1>2, <1>3 DEF LedgerInv

\* A call of one user leaves the rows of the others as they are.
LEMMA OthersRows ==
    ASSUME NEW u, \A c \in Call : CallUser[c] # u => row'[c] = row[c], NEW w, w # u
    PROVE  CreditSum(w)' = CreditSum(w) /\ DebitSum(w)' = DebitSum(w) /\ (Due(w)' <=> Due(w))
<1>1. \A c \in Call : CallUser[c] = w => row'[c] = row[c]
  OBVIOUS
<1>2. Due(w)' <=> Due(w)
  BY <1>1 DEF Due
<1> QED
  BY <1>1, <1>2, SameLiveRows

\* A call that is over without a trace, or has read what is there.
LEMMA ReadingKeepsLedger ==
    ASSUME IInv, LedgerInv, NEW c \in Call, Read(c) \/ Abort(c)
    PROVE  LedgerInv'
<1>1. /\ UNCHANGED <<balance, row, sweepVars, drifted>>
      /\ stale' \in {stale, stale \ {c}}
      /\ \A d \in Call \ {c} : call'[d] = call[d] /\ seen'[d] = seen[d]
      /\ c \in stale /\ c \notin stale' => call'[c] # "ready"
      /\ Kind[c] = "Adjust" /\ call'[c] = "ready" => seen'[c] = balance[CallUser[c]]
  BY DEF IInv, TypeOK, Read, Abort, Remember
<1>2. \A u : CreditSum(u)' = CreditSum(u) /\ DebitSum(u)' = DebitSum(u) /\ (Due(u)' <=> Due(u))
  BY <1>1, SameLiveRows DEF Due
<1>3. BalanceIsLedger'
  BY <1>1, <1>2 DEF LedgerInv, BalanceIsLedger, sweepVars
<1>4. \A d \in Call \ stale' :
         call'[d] = "ready" /\ Kind[d] = "Adjust" => seen'[d] = balance'[CallUser[d]]
  BY <1>1 DEF LedgerInv, ReadingsCurrent
<1>5. \A s \in Sweep : s \notin stale' => s \notin stale
  BY <1>1, SweepAssumption
<1>6. ReadingsCurrent'
  BY <1>1, <1>2, <1>4, <1>5 DEF LedgerInv, ReadingsCurrent, sweepVars
<1> QED
  BY <1>3, <1>6 DEF LedgerInv

\* What a call books on the balance and in a row is the same, and everyone who
\* was about to write the balance is stale from then on.
LEMMA BookingKeepsLedger ==
    ASSUME IInv, LedgerInv, NEW c \in Call, Finish(c), NEW u, u = CallUser[c],
           \A d \in Call : CallUser[d] # u => row'[d] = row[d],
           Due(u) => Due(u)',
           \A w \in User \ {u} : balance'[w] = balance[w],
           drifted \subseteq drifted',
           \/ u \in drifted'
           \/ balance[u] = CreditSum(u) + DebitSum(u)
                => balance'[u] = CreditSum(u)' + DebitSum(u)'
    PROVE  LedgerInv'
<1>1. /\ \A d \in Call : call'[d] = "ready" => call[d] = "ready" /\ d # c /\ seen'[d] = seen[d]
      /\ UNCHANGED <<phase, on, sum>> /\ stale' = (stale \cup ReadersOf(u)) \ {c}
  BY DEF IInv, TypeOK, Finish, Outdate, sweepVars
<1>2. \A w \in User \ {u} : /\ CreditSum(w)' = CreditSum(w) /\ DebitSum(w)' = DebitSum(w)
                            /\ Due(w)' <=> Due(w)
  BY OthersRows
<1>3. BalanceIsLedger'
  <2> SUFFICES ASSUME NEW w \in User, w \notin drifted', ~Due(w)',
                      ~\E s \in Sweep : on[s] # NoRow /\ CallUser[on[s]] = w
               PROVE  balance'[w] = CreditSum(w)' + DebitSum(w)'
    BY <1>1 DEF BalanceIsLedger
  <2>1. CASE w = u
    BY <2>1 DEF LedgerInv, BalanceIsLedger
  <2>2. CASE w # u
    BY <1>2, <2>2 DEF LedgerInv, BalanceIsLedger
  <2> QED
    BY <2>1, <2>2
<1>4. ASSUME NEW d \in Call, d \notin stale', call'[d] = "ready", Kind[d] = "Adjust"
      PROVE  seen'[d] = balance'[CallUser[d]]
  <2>1. d \notin stale /\ CallUser[d] \in User \ {u}
    BY <1>1, <1>4, AmountType DEF ReadersOf
  <2> QED
    BY <1>1, <1>4, <2>1 DEF LedgerInv, ReadingsCurrent
<1>5. ASSUME NEW s \in Sweep, s \notin stale', phase[s] \in {"summed", "ready"},
             ~Due(CallUser[on[s]])'
      PROVE  sum[s] = CreditSum(CallUser[on[s]])'
                        + IF phase[s] = "ready" THEN DebitSum(CallUser[on[s]])' ELSE 0
  <2>1. PICK w \in User : w = CallUser[on[s]]
    BY <1>5, AmountType DEF IInv, TypeOK
  <2>2. s \notin stale /\ w # u
    BY <1>1, <1>5, <2>1, SweepAssumption DEF ReadersOf
  <2>3. on' = on
    BY <1>1
  <2>4. ~Due(w) /\ sum[s] = CreditSum(w) + IF phase[s] = "ready" THEN DebitSum(w) ELSE 0
    BY <1>2, <1>5, <2>1, <2>2, <2>3 DEF LedgerInv, ReadingsCurrent
  <2> QED
    BY <1>2, <2>1, <2>2, <2>3, <2>4
<1>6. ReadingsCurrent'
  BY <1>1, <1>4, <1>5 DEF ReadingsCurrent
<1> QED
  BY <1>3, <1>6 DEF LedgerInv

\* A row of the call's user that was not due comes, or none.
LEMMA RowOfCall ==
    ASSUME IInv, NEW c \in Call, row[c] = "none", NEW u, u = CallUser[c],
           row' = row \/ row' = [row EXCEPT ![c] = "live"]
    PROVE  /\ \A d \in Call : CallUser[d] # u => row'[d] = row[d]
           /\ Due(u) => Due(u)'
<1>1. \A d \in Call : row'[d] = row[d] \/ d = c
  BY DEF IInv, TypeOK
<1> QED
  BY <1>1 DEF Due

LEMMA CallKeepsLedger ==
    ASSUME IInv, LedgerInv, NEW c \in Call, Increment(c) \/ Decrement(c) \/ Overwrite(c)
    PROVE  LedgerInv'
<1>1. PICK u \in User : u = CallUser[c]
  BY AmountType
<1>2. Finish(c) /\ call[c] # "done"
  BY DEF Increment, Decrement, Overwrite
<1>3. /\ row[c] = "none" /\ RowAmount(c) \in Int /\ Amount[c] \in Int /\ balance[u] \in Int
      /\ CreditSum(u) \in Int /\ DebitSum(u) \in Int
  BY <1>1, <1>2, AmountType, SumType DEF IInv, TypeOK, RowsOK
<1>4. /\ row' = row \/ row' = [row EXCEPT ![c] = "live"]
      /\ drifted \subseteq drifted'
      /\ \A w \in User \ {u} : balance'[w] = balance[w]
  BY <1>1 DEF IInv, TypeOK, Increment, Decrement, Overwrite, AddRow
<1>5. \/ u \in drifted'
      \/ balance[u] = CreditSum(u) + DebitSum(u) => balance'[u] = CreditSum(u)' + DebitSum(u)'
  <2> SUFFICES ASSUME u \notin drifted'
               PROVE  row' = [row EXCEPT ![c] = "live"] /\ balance'[u] = balance[u] + RowAmount(c)
    BY <1>1, <1>3, NewRow
  <2>1. CASE Increment(c)
    <3>1. balance'[u] = balance[u] + Amount[c]
      BY <1>1, <2>1 DEF IInv, TypeOK, Increment
    <3>2. row' = [row EXCEPT ![c] = "live"] /\ RowAmount(c) = Amount[c]
      BY <1>1, <2>1 DEF Increment, AddRow, Blind, RowAmount
    <3> QED
      BY <3>1, <3>2
  <2>2. CASE Decrement(c)
    <3>1. balance'[u] = balance[u] - Amount[c]
      BY <1>1, <2>2 DEF IInv, TypeOK, Decrement
    <3>2. row' = [row EXCEPT ![c] = "live"] /\ RowAmount(c) = -Amount[c]
      BY <1>1, <2>2 DEF Decrement, AddRow, Checked, RowAmount
    <3> QED
      BY <1>3, <3>1, <3>2
  <2>3. CASE Overwrite(c)
    <3>1. balance'[u] = seen[c] + Amount[c]
      BY <1>1, <2>3 DEF IInv, TypeOK, Overwrite
    <3>2. /\ row' = [row EXCEPT ![c] = "live"] /\ RowAmount(c) = Amount[c]
          /\ c \notin stale /\ seen[c] = balance[u]
      BY <1>1, <2>3 DEF Overwrite, RowAmount, LedgerInv, ReadingsCurrent
    <3> QED
      BY <3>1, <3>2
  <2> QED
    BY <2>1, <2>2, <2>3
<1>6. /\ \A d \in Call : CallUser[d] # u => row'[d] = row[d]
      /\ Due(u) => Due(u)'
  BY <1>1, <1>3, <1>4, RowOfCall
<1> QED
  BY <1>1, <1>2, <1>4, <1>5, <1>6, BookingKeepsLedger

\* A row the balance knows nothing of: the user is known to have drifted.
LEMMA BoostKeepsLedger ==
    ASSUME IInv, LedgerInv, NEW c \in Call, Boost(c)
    PROVE  LedgerInv'
<1>1. PICK u \in User : u = CallUser[c]
  BY AmountType
<1>2. /\ row[c] = "none" /\ row' = [row EXCEPT ![c] = "live"]
      /\ UNCHANGED <<balance, seen, phase, on, sum>> /\ drifted' = drifted \cup {u}
      /\ stale' = stale \cup (ReadersOf(u) \cap Sweep)
      /\ \A d \in Call : call'[d] = "ready" => call[d] = "ready"
  BY <1>1 DEF IInv, TypeOK, RowsOK, Boost, sweepVars
<1>3. \A w \in User \ {u} : /\ CreditSum(w)' = CreditSum(w) /\ DebitSum(w)' = DebitSum(w)
                            /\ Due(w)' <=> Due(w)
  <2>1. \A d \in Call : CallUser[d] # u => row'[d] = row[d]
    BY <1>1, <1>2, RowOfCall
  <2> QED
    BY <2>1, OthersRows
<1>4. BalanceIsLedger'
  BY <1>2, <1>3 DEF LedgerInv, BalanceIsLedger
<1>5. \A d \in Call \ stale' :
         call'[d] = "ready" /\ Kind[d] = "Adjust" => seen'[d] = balance'[CallUser[d]]
  BY <1>2 DEF LedgerInv, ReadingsCurrent
<1>6. ASSUME NEW s \in Sweep \ stale', phase[s] \in {"summed", "ready"},
             ~Due(CallUser[on[s]])'
      PROVE  sum[s] = CreditSum(CallUser[on[s]])'
                        + IF phase[s] = "ready" THEN DebitSum(CallUser[on[s]])' ELSE 0
  <2>1. PICK w \in User : w = CallUser[on[s]]
    BY <1>6, AmountType DEF IInv, TypeOK
  <2>2. s \notin stale /\ w # u
    BY <1>2, <1>6, <2>1 DEF ReadersOf
  <2>3. ~Due(w) /\ sum[s] = CreditSum(w) + IF phase[s] = "ready" THEN DebitSum(w) ELSE 0
    BY <1>2, <1>3, <1>6, <2>1, <2>2 DEF LedgerInv, ReadingsCurrent
  <2> QED
    BY <1>2, <1>3, <2>1, <2>2, <2>3
<1>7. ReadingsCurrent'
  BY <1>2, <1>5, <1>6 DEF ReadingsCurrent
<1> QED
  BY <1>4, <1>7 DEF LedgerInv

\* Until the credit is expired, the balance includes it and the rows do not.
LEMMA FallDueKeepsLedger ==
    ASSUME IInv, LedgerInv, NEW c \in Call, FallDue(c)
    PROVE  LedgerInv'
<1>1. PICK u \in User : u = CallUser[c]
  BY AmountType
<1>2. /\ row'[c] = "due" /\ \A d \in Call \ {c} : row'[d] = row[d]
      /\ UNCHANGED <<balance, callVars, sweepVars, stale, drifted>>
  BY DEF IInv, TypeOK, FallDue
<1>3. Due(u)'
  BY <1>1, <1>2 DEF Due
<1>4. \A w \in User \ {u} : /\ CreditSum(w)' = CreditSum(w) /\ DebitSum(w)' = DebitSum(w)
                            /\ Due(w)' <=> Due(w)
  BY <1>1, <1>2, OthersRows
<1>5. BalanceIsLedger'
  BY <1>2, <1>3, <1>4 DEF LedgerInv, BalanceIsLedger, sweepVars
<1>6. \A s \in Sweep \ stale : phase[s] \in {"summed", "ready"} => CallUser[on[s]] \in User
  BY AmountType DEF IInv, TypeOK
<1>7. ReadingsCurrent'
  BY <1>2, <1>3, <1>4, <1>6 DEF LedgerInv, ReadingsCurrent, sweepVars, callVars
<1> QED
  BY <1>5, <1>7 DEF LedgerInv

\* Marking a credit takes it from no sum, and the sums of the user are stale.
LEMMA MarkKeepsLedger ==
    ASSUME IInv, LedgerInv, NEW s \in Sweep, NEW c \in Call, Mark(s, c)
    PROVE  LedgerInv'
<1>1. PICK u \in User : u = CallUser[c]
  BY AmountType
<1>2. /\ row[c] # "live" /\ row'[c] = "expired" /\ \A d \in Call \ {c} : row'[d] = row[d]
  BY MarkRows
<1>3. /\ UNCHANGED <<balance, callVars, sum, drifted>>
      /\ on[s] = NoRow /\ on'[s] = c /\ phase'[s] = "marked" /\ NoRow \notin Call
      /\ \A x \in Sweep \ {s} : on'[x] = on[x] /\ phase'[x] = phase[x]
      /\ stale' = stale \cup (ReadersOf(u) \cap Sweep)
  BY <1>1, SweepAssumption DEF IInv, TypeOK, Mark
<1>4. \A w : CreditSum(w)' = CreditSum(w) /\ DebitSum(w)' = DebitSum(w)
  BY <1>2, SameLiveRows
<1>5. \A w \in User \ {u} : Due(w)' <=> Due(w)
  BY <1>1, <1>2, OthersRows
<1>6. BalanceIsLedger'
  BY <1>1, <1>3, <1>4, <1>5 DEF LedgerInv, BalanceIsLedger
<1>7. \A d \in Call \ stale' :
         call'[d] = "ready" /\ Kind[d] = "Adjust" => seen'[d] = balance'[CallUser[d]]
  BY <1>3 DEF LedgerInv, ReadingsCurrent, callVars
<1>8. ASSUME NEW x \in Sweep \ stale', phase'[x] \in {"summed", "ready"}, ~Due(CallUser[on[x]])'
      PROVE  sum'[x] = CreditSum(CallUser[on[x]])'
                        + IF phase'[x] = "ready" THEN DebitSum(CallUser[on[x]])' ELSE 0
  <2>1. x # s /\ on'[x] = on[x] /\ phase'[x] = phase[x] /\ x \notin stale
    BY <1>3, <1>8
  <2>2. PICK w \in User : w = CallUser[on[x]]
    BY <1>8, <2>1, AmountType DEF IInv, TypeOK
  <2>3. w # u
    BY <1>3, <1>8, <2>1, <2>2 DEF ReadersOf
  <2>4. ~Due(w)'
    BY <1>8, <2>1, <2>2
  <2>5. sum[x] = CreditSum(w) + IF phase[x] = "ready" THEN DebitSum(w) ELSE 0
    BY <1>5, <1>8, <2>1, <2>2, <2>3, <2>4 DEF LedgerInv, ReadingsCurrent
  <2> QED
    BY <1>3, <1>4, <2>1, <2>2, <2>5
<1> QED
  BY <1>6, <1>7, <1>8 DEF LedgerInv, ReadingsCurrent

\* A sweep that only reads, or stands still.
LEMMA SweepReadsLedger ==
    ASSUME IInv, LedgerInv, NEW s \in Sweep, List(s) \/ SumCredits(s) \/ SumDebits(s)
    PROVE  LedgerInv'
<1>1. /\ UNCHANGED <<balance, row, callVars, on, stale, drifted>>
      /\ \A x \in Sweep \ {s} : phase'[x] = phase[x] /\ sum'[x] = sum[x]
  BY DEF IInv, TypeOK, List, SumCredits, SumDebits
<1>2. \A w : CreditSum(w)' = CreditSum(w) /\ DebitSum(w)' = DebitSum(w) /\ (Due(w)' <=> Due(w))
  BY <1>1, SameLiveRows DEF Due
<1>3. BalanceIsLedger'
  BY <1>1, <1>2 DEF LedgerInv, BalanceIsLedger
<1>4. \A d \in Call \ stale' :
         call'[d] = "ready" /\ Kind[d] = "Adjust" => seen'[d] = balance'[CallUser[d]]
  BY <1>1 DEF LedgerInv, ReadingsCurrent, callVars
<1>5. ASSUME NEW x \in Sweep \ stale, phase'[x] \in {"summed", "ready"}, NEW w \in User,
             w = CallUser[on[x]], ~Due(w)
      PROVE  sum'[x] = CreditSum(w) + IF phase'[x] = "ready" THEN DebitSum(w) ELSE 0
  <2>1. CreditSum(w) \in Int /\ DebitSum(w) \in Int
    BY SumType DEF IInv
  <2>2. CASE x # s
    BY <1>1, <1>5, <2>2 DEF LedgerInv, ReadingsCurrent
  <2>3. CASE x = s /\ List(s)
    BY <1>5, <2>3 DEF IInv, TypeOK, List
  <2>4. CASE x = s /\ SumCredits(s)
    <3>1. phase'[s] = "summed" /\ sum'[s] = CreditSum(w)
      BY <1>5, <2>4 DEF IInv, TypeOK, SumCredits
    <3> QED
      BY <2>1, <2>4, <3>1
  <2>5. CASE x = s /\ SumDebits(s)
    <3>1. phase[s] = "summed" /\ phase'[s] = "ready" /\ sum'[s] = sum[s] + DebitSum(w)
      BY <1>5, <2>5 DEF IInv, TypeOK, SumDebits
    <3>2. sum[s] = CreditSum(w) + 0
      BY <1>5, <2>5, <3>1 DEF LedgerInv, ReadingsCurrent
    <3> QED
      BY <2>1, <2>5, <3>1, <3>2
  <2> QED
    BY <2>2, <2>3, <2>4, <2>5
<1>6. ASSUME NEW x \in Sweep \ stale, phase'[x] \in {"summed", "ready"}
      PROVE  CallUser[on[x]] \in User
  <2>1. phase[x] \in {"marked", "summed", "ready"}
    BY <1>1, <1>6 DEF IInv, TypeOK, List, SumCredits, SumDebits
  <2> QED
    BY <2>1, AmountType DEF IInv, TypeOK
<1>7. ReadingsCurrent'
  BY <1>1, <1>2, <1>4, <1>5, <1>6 DEF ReadingsCurrent
<1> QED
  BY <1>3, <1>7 DEF LedgerInv

\* What a sweep writes is what the rows add up to, or it is known not to be.
LEMMA WriteKeepsLedger ==
    ASSUME IInv, LedgerInv, NEW s \in Sweep, WriteBalance(s)
    PROVE  LedgerInv'
<1>1. PICK u \in User : u = CallUser[on[s]]
  BY AmountType DEF IInv, TypeOK, WriteBalance
<1>2. /\ UNCHANGED <<row, callVars>> /\ phase[s] = "ready" /\ on[s] # NoRow
      /\ on'[s] = NoRow /\ phase'[s] \in {"idle", "listed"}
      /\ \A x \in Sweep \ {s} : phase'[x] = phase[x] /\ on'[x] = on[x] /\ sum'[x] = sum[x]
      /\ balance'[u] = IF sum[s] < 0 THEN 0 ELSE sum[s]
      /\ \A w \in User \ {u} : balance'[w] = balance[w]
      /\ drifted' = IF s \in stale \/ sum[s] < 0 THEN drifted \cup {u} ELSE drifted \ {u}
      /\ stale' = (stale \cup ReadersOf(u)) \ {s}
  BY <1>1 DEF IInv, TypeOK, WriteBalance, Outdate
<1>3. \A w : CreditSum(w)' = CreditSum(w) /\ DebitSum(w)' = DebitSum(w) /\ (Due(w)' <=> Due(w))
  BY <1>2, SameLiveRows DEF Due
<1>4. BalanceIsLedger'
  <2> SUFFICES ASSUME NEW w \in User, w \notin drifted', ~Due(w),
                      ~\E x \in Sweep : on'[x] # NoRow /\ CallUser[on'[x]] = w
               PROVE  balance'[w] = CreditSum(w) + DebitSum(w)
    BY <1>3 DEF BalanceIsLedger
  <2>1. CASE w = u
    <3>1. s \notin stale /\ ~(sum[s] < 0)
      BY <1>2, <2>1
    <3>2. sum[s] = CreditSum(u) + DebitSum(u)
      BY <1>1, <1>2, <2>1, <3>1 DEF LedgerInv, ReadingsCurrent
    <3> QED
      BY <1>2, <2>1, <3>1, <3>2
  <2>2. CASE w # u
    <3>1. w \notin drifted /\ ~\E x \in Sweep : on[x] # NoRow /\ CallUser[on[x]] = w
      BY <1>1, <1>2, <2>2
    <3> QED
      BY <1>2, <2>2, <3>1 DEF LedgerInv, BalanceIsLedger
  <2> QED
    BY <2>1, <2>2
<1>5. ASSUME NEW d \in Call \ stale', call[d] = "ready", Kind[d] = "Adjust"
      PROVE  seen[d] = balance'[CallUser[d]]
  <2>1. d \notin stale /\ CallUser[d] \in User \ {u}
    BY <1>2, <1>5, AmountType, SweepAssumption DEF ReadersOf
  <2> QED
    BY <1>2, <1>5, <2>1 DEF LedgerInv, ReadingsCurrent
<1>6. \A x \in Sweep \ stale' : phase'[x] \in {"summed", "ready"} => x # s /\ x \notin stale
  BY <1>2
<1>7. ReadingsCurrent'
  BY <1>2, <1>3, <1>5, <1>6 DEF LedgerInv, ReadingsCurrent, callVars
<1> QED
  BY <1>4, <1>7 DEF LedgerInv

LEMMA DeathKeepsLedger ==
    ASSUME IInv, LedgerInv, NEW s \in Sweep, SweepDies(s)
    PROVE  LedgerInv'
<1>1. /\ UNCHANGED <<balance, row, callVars>> /\ on'[s] = NoRow /\ phase'[s] = "idle"
      /\ \A x \in Sweep \ {s} : phase'[x] = phase[x] /\ on'[x] = on[x] /\ sum'[x] = sum[x]
      /\ drifted' = IF on[s] = NoRow THEN drifted ELSE drifted \cup {CallUser[on[s]]}
      /\ stale' = stale \ {s}
  BY DEF IInv, TypeOK, SweepDies
<1>2. \A w : CreditSum(w)' = CreditSum(w) /\ DebitSum(w)' = DebitSum(w) /\ (Due(w)' <=> Due(w))
  BY <1>1, SameLiveRows DEF Due
<1>3. BalanceIsLedger'
  BY <1>1, <1>2 DEF LedgerInv, BalanceIsLedger
<1>4. \A d \in Call : d \notin stale' => d \notin stale
  BY <1>1, SweepAssumption
<1>5. ReadingsCurrent'
  BY <1>1, <1>2, <1>4 DEF LedgerInv, ReadingsCurrent, callVars
<1> QED
  BY <1>3, <1>5 DEF LedgerInv

LEMMA NextKeepsLedger ==
    ASSUME IInv, LedgerInv, [Next]_vars
    PROVE  LedgerInv'
<1>1. CASE UNCHANGED vars
  <2>1. \A w : CreditSum(w)' = CreditSum(w) /\ DebitSum(w)' = DebitSum(w) /\ (Due(w)' <=> Due(w))
    BY <1>1, SameLiveRows DEF Due, vars
  <2>2. BalanceIsLedger'
    BY <1>1, <2>1 DEF LedgerInv, BalanceIsLedger, vars
  <2>3. ReadingsCurrent'
    BY <1>1, <2>1 DEF LedgerInv, ReadingsCurrent, vars
  <2> QED
    BY <2>2, <2>3 DEF LedgerInv
<1>2. CASE Next
  BY <1>2, ReadingKeepsLedger, CallKeepsLedger, BoostKeepsLedger, FallDueKeepsLedger,
     MarkKeepsLedger, SweepReadsLedger, WriteKeepsLedger, DeathKeepsLedger DEF Next
<1> QED
  BY <1>1, <1>2

\* The balance of a user is the sum of the rows, through any calls and sweeps,
\* unless the two are known to have been moved apart, a credit waits to be
\* expired, or a sweep is at work.
THEOREM RowsExplainBalance == Spec => []BalanceIsLedger
<1>1. LedgerInv => BalanceIsLedger
  BY DEF LedgerInv
<1> QED
  BY <1>1, InitLedger, NextKeepsLedger, Invariance, PTL DEF Spec
=============================================================================
