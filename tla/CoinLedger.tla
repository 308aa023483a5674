----------------------------- MODULE CoinLedger -----------------------------
(***************************************************************************)
(* The coins of the users: User.coinsBalance, the CoinLedger rows that     *)
(* explain it, and the sweep that expires credits after three months and   *)
(* writes the balance anew from the rows.                                  *)
(*                                                                         *)
(* The sweep runs under RedisLock from the cron and without a lock from    *)
(* POST coins/expire-cron, so two of them may overlap at any time.         *)
(***************************************************************************)
EXTENDS Integers, FiniteSets

CONSTANTS
    User,
    Call,       \* calls that move coins, each at most one ledger row
    Kind,       \* [Call -> Kinds]
    CallUser,   \* [Call -> User]
    Amount,     \* [Call -> Int]
    RefundOf,   \* [Call -> Call]: the debit of the order a Refund cancels
    Sweep,      \* runs of expireCoinsCron that may overlap
    NoRow,      \* the row a sweep works on, when it works on none
    MaxFaults   \* bound: sweeps that die

\* Credit, Debit: CoinsService.  Refund: the transaction of cancelOrder.
\* Adjust: AdminService.updateUserCoins, the amount of which has a sign.
\* Grant, Revoke: BowCoinService, which keeps a ledger of its own.
\* Boost: a vendor pays for a room with the coins of the vendor account.
Kinds == {"Credit", "Debit", "Refund", "Adjust", "Grant", "Revoke", "Boost"}
Blind == {"Credit", "Refund", "Grant"}      \* increment without a look
Checked == {"Debit", "Revoke"}              \* compare, then decrement

ASSUME CallAssumption ==
    /\ Kind \in [Call -> Kinds] /\ CallUser \in [Call -> User]
    /\ Amount \in [Call -> Int]
    /\ \A c \in Call : Kind[c] # "Adjust" => Amount[c] >= 0
ASSUME SweepAssumption == NoRow \notin Call /\ Sweep \cap Call = {} /\ MaxFaults \in Nat

VARIABLES
    balance,    \* User.coinsBalance
    row,        \* the ledger row of each call
    call,       \* where each call is
    seen,       \* coinsBalance as an Adjust has read it
    phase,      \* where each sweep is
    todo,       \* rows it has found past their date
    on,         \* the row it works on
    sum,        \* what it has added up for the row's user
    stale,      \* history: calls and sweeps that have read what others changed since
    raced,      \* history: users whom a stale call has taken coins from
    drifted,    \* history: users whose balance and rows were moved apart
    faults      \* counter for the bound

vars == <<balance, row, call, seen, phase, todo, on, sum, stale, raced, drifted, faults>>
callVars == <<call, seen>>
sweepVars == <<phase, todo, on, sum>>

Init ==
    /\ balance = [u \in User |-> 0]
    /\ row = [c \in Call |-> "none"]
    /\ call = [c \in Call |-> "idle"]
    /\ seen = [c \in Call |-> 0]
    /\ phase = [s \in Sweep |-> "idle"]
    /\ todo = [s \in Sweep |-> {}]
    /\ on = [s \in Sweep |-> NoRow]
    /\ sum = [s \in Sweep |-> 0]
    /\ stale = {}
    /\ raced = {}
    /\ drifted = {}
    /\ faults = 0

-----------------------------------------------------------------------------
\* The amount of the row, which is negative for coins taken.
RowAmount(c) == IF Kind[c] \in {"Debit", "Boost"} THEN -Amount[c] ELSE Amount[c]
CreditsOf(u) == {c \in Call : CallUser[c] = u /\ row[c] = "live" /\ RowAmount(c) > 0}
DebitsOf(u) == {c \in Call : CallUser[c] = u /\ row[c] = "live" /\ RowAmount(c) < 0}

\* The coins of some rows one by one: <<c, n>> is the n-th coin of the row of c.
Size(c) == IF RowAmount(c) < 0 THEN -RowAmount(c) ELSE RowAmount(c)
Coins(rows) == UNION {{c} \X (1..Size(c)) : c \in rows}
\* What the rows of the user add up to.
CreditSum(u) == Cardinality(Coins(CreditsOf(u)))
DebitSum(u) == -Cardinality(Coins(DebitsOf(u)))

\* Who has read the coins of the user and is about to write them.
ReadersOf(u) ==
    {c \in Call : CallUser[c] = u /\ call[c] = "ready"}
        \cup {s \in Sweep : phase[s] \in {"summed", "ready"} /\ CallUser[on[s]] = u}

\* x commits to the coins of the user: everyone else's reading is stale.
Outdate(u, x) == stale' = (stale \cup ReadersOf(u)) \ {x}

-----------------------------------------------------------------------------
(* Calls.  READ COMMITTED: each read sees what is committed then.          *)

\* Only updateUserCoins writes what it has read.
Remember(c) == seen' = [seen EXCEPT ![c] = IF Kind[c] = "Adjust" THEN balance[CallUser[c]] ELSE 0]

\* Mutant of Read: the balance is not compared.
ReadOnly(c) ==
    /\ Kind[c] \in Checked \cup {"Adjust"} /\ call[c] = "idle"
    /\ call' = [call EXCEPT ![c] = "ready"]
    /\ Remember(c)
    /\ UNCHANGED <<balance, row, sweepVars, stale, raced, drifted, faults>>

\* Fewer coins than asked for are refused; updateUserCoins compares nothing.
Read(c) ==
    /\ Kind[c] \in Checked \cup {"Adjust"} /\ call[c] = "idle"
    /\ IF Kind[c] \in Checked /\ balance[CallUser[c]] < Amount[c]
       THEN call' = [call EXCEPT ![c] = "done"] /\ UNCHANGED seen
       ELSE /\ call' = [call EXCEPT ![c] = "ready"]
            /\ Remember(c)
    /\ UNCHANGED <<balance, row, sweepVars, stale, raced, drifted, faults>>

\* A statement fails and the transaction rolls back.
Abort(c) ==
    /\ call[c] = "ready"
    /\ call' = [call EXCEPT ![c] = "done"]
    /\ seen' = [seen EXCEPT ![c] = 0]
    /\ stale' = stale \ {c}
    /\ UNCHANGED <<balance, row, sweepVars, raced, drifted, faults>>

\* The statements that end a call, whatever it has done to the balance.
Finish(c) ==
    /\ call' = [call EXCEPT ![c] = "done"]
    /\ seen' = [seen EXCEPT ![c] = 0]
    /\ Outdate(CallUser[c], c)
    /\ UNCHANGED <<sweepVars, faults>>

\* BowCoinService leaves no row behind.
AddRow(c) ==
    IF Kind[c] \in {"Grant", "Revoke"}
    THEN UNCHANGED row /\ drifted' = drifted \cup {CallUser[c]}
    ELSE row' = [row EXCEPT ![c] = "live"] /\ UNCHANGED drifted

\* credit, grantCoins, and the coins cancelOrder gives back.
Increment(c) ==
    /\ Kind[c] \in Blind /\ call[c] = "idle"
    /\ Kind[c] = "Refund" => row[RefundOf[c]] = "live"
    /\ balance' = [balance EXCEPT ![CallUser[c]] = @ + Amount[c]]
    /\ AddRow(c)
    /\ Finish(c)
    /\ UNCHANGED raced

\* debit and revokeCoins: the row and the unconditional decrement.
Decrement(c) ==
    /\ Kind[c] \in Checked /\ call[c] = "ready"
    /\ balance' = [balance EXCEPT ![CallUser[c]] = @ - Amount[c]]
    /\ raced' = IF c \in stale THEN raced \cup {CallUser[c]} ELSE raced
    /\ AddRow(c)
    /\ Finish(c)

\* updateUserCoins writes the balance it has read, plus the amount.
Overwrite(c) ==
    /\ Kind[c] = "Adjust" /\ call[c] = "ready"
    /\ balance' = [balance EXCEPT ![CallUser[c]] = seen[c] + Amount[c]]
    /\ row' = [row EXCEPT ![c] = "live"]
    /\ drifted' = IF c \in stale THEN drifted \cup {CallUser[c]} ELSE drifted
    /\ Finish(c)
    /\ UNCHANGED raced

\* purchaseRoomBoost takes Vendor.coinsBalance and books the row on the user
\* who buys, whose own coins stay as they are.
Boost(c) ==
    /\ Kind[c] = "Boost" /\ call[c] = "idle"
    /\ call' = [call EXCEPT ![c] = "done"]
    /\ row' = [row EXCEPT ![c] = "live"]
    /\ drifted' = drifted \cup {CallUser[c]}
    /\ stale' = stale \cup (ReadersOf(CallUser[c]) \cap Sweep)
    /\ UNCHANGED <<balance, seen, sweepVars, raced, faults>>

-----------------------------------------------------------------------------
(* CoinsService.expireCoinsCron and recalculateBalance                     *)

\* expiresAt of a credit goes by; refunds and adjustments have none.
FallDue(c) ==
    /\ Kind[c] = "Credit" /\ row[c] = "live"
    /\ row' = [row EXCEPT ![c] = "due"]
    /\ UNCHANGED <<balance, callVars, sweepVars, stale, raced, drifted, faults>>

\* Mutant of List: the credits that are not past their date.
ListLive(s) ==
    /\ phase[s] = "idle"
    /\ \E c \in Call : Kind[c] = "Credit" /\ row[c] = "live"
    /\ phase' = [phase EXCEPT ![s] = "listed"]
    /\ todo' = [todo EXCEPT ![s] = {c \in Call : Kind[c] = "Credit" /\ row[c] = "live"}]
    /\ UNCHANGED <<balance, row, callVars, on, sum, stale, raced, drifted, faults>>

\* A sweep that finds nothing changes nothing.
List(s) ==
    /\ phase[s] = "idle"
    /\ \E c \in Call : row[c] = "due"
    /\ phase' = [phase EXCEPT ![s] = "listed"]
    /\ todo' = [todo EXCEPT ![s] = {c \in Call : row[c] = "due"}]
    /\ UNCHANGED <<balance, row, callVars, on, sum, stale, raced, drifted, faults>>

Mark(s, c) ==
    /\ phase[s] = "listed" /\ c \in todo[s]
    /\ row' = [row EXCEPT ![c] = "expired"]
    /\ phase' = [phase EXCEPT ![s] = "marked"]
    /\ todo' = [todo EXCEPT ![s] = @ \ {c}]
    /\ on' = [on EXCEPT ![s] = c]
    /\ stale' = stale \cup (ReadersOf(CallUser[c]) \cap Sweep)
    /\ UNCHANGED <<balance, callVars, sum, raced, drifted, faults>>

\* Mutant of SumCredits: without the condition on isExpired and expiresAt.
SumAllCredits(s) ==
    /\ phase[s] = "marked"
    /\ phase' = [phase EXCEPT ![s] = "summed"]
    /\ sum' = [sum EXCEPT ![s] = Cardinality(Coins({c \in Call :
            CallUser[c] = CallUser[on[s]] /\ row[c] # "none" /\ RowAmount(c) > 0}))]
    /\ UNCHANGED <<balance, row, callVars, todo, on, stale, raced, drifted, faults>>

\* Credits that are neither marked nor past their date.
SumCredits(s) ==
    /\ phase[s] = "marked"
    /\ phase' = [phase EXCEPT ![s] = "summed"]
    /\ sum' = [sum EXCEPT ![s] = CreditSum(CallUser[on[s]])]
    /\ UNCHANGED <<balance, row, callVars, todo, on, stale, raced, drifted, faults>>

\* All debits, those paid from credits that have expired since included.
SumDebits(s) ==
    /\ phase[s] = "summed"
    /\ phase' = [phase EXCEPT ![s] = "ready"]
    /\ sum' = [sum EXCEPT ![s] = @ + DebitSum(CallUser[on[s]])]
    /\ UNCHANGED <<balance, row, callVars, todo, on, stale, raced, drifted, faults>>

\* The balance of the rows, but never less than none.
WriteBalance(s) ==
    /\ phase[s] = "ready"
    /\ LET u == CallUser[on[s]] IN
        /\ balance' = [balance EXCEPT ![u] = IF sum[s] < 0 THEN 0 ELSE sum[s]]
        /\ drifted' = IF s \in stale \/ sum[s] < 0 THEN drifted \cup {u} ELSE drifted \ {u}
        /\ Outdate(u, s)
    /\ phase' = [phase EXCEPT ![s] = IF todo[s] = {} THEN "idle" ELSE "listed"]
    /\ on' = [on EXCEPT ![s] = NoRow]
    /\ sum' = [sum EXCEPT ![s] = 0]
    /\ UNCHANGED <<row, callVars, todo, raced, faults>>

\* A statement throws or the process dies: nobody recalculates the balance of
\* a row that is marked already, until another row of the user expires.
SweepDies(s) ==
    /\ phase[s] # "idle" /\ faults < MaxFaults
    /\ faults' = faults + 1
    /\ phase' = [phase EXCEPT ![s] = "idle"]
    /\ todo' = [todo EXCEPT ![s] = {}]
    /\ on' = [on EXCEPT ![s] = NoRow]
    /\ sum' = [sum EXCEPT ![s] = 0]
    /\ stale' = stale \ {s}
    /\ drifted' = IF on[s] = NoRow THEN drifted ELSE drifted \cup {CallUser[on[s]]}
    /\ UNCHANGED <<balance, row, callVars, raced>>

-----------------------------------------------------------------------------
Next ==
    \/ \E c \in Call : Read(c) \/ Abort(c) \/ Increment(c) \/ Decrement(c)
                         \/ Overwrite(c) \/ Boost(c) \/ FallDue(c)
    \/ \E s \in Sweep : List(s) \/ SumCredits(s) \/ SumDebits(s) \/ WriteBalance(s)
                          \/ SweepDies(s) \/ \E c \in Call : Mark(s, c)

Spec == Init /\ [][Next]_vars

\* The cron fires every midnight and its statements are answered.
FairSpec == Spec /\ \A s \in Sweep :
    /\ WF_vars(List(s)) /\ WF_vars(SumCredits(s)) /\ WF_vars(SumDebits(s))
    /\ WF_vars(WriteBalance(s))
    /\ \A c \in Call : WF_vars(Mark(s, c))

-----------------------------------------------------------------------------
TypeOK ==
    /\ balance \in [User -> Int]
    /\ row \in [Call -> {"none", "live", "due", "expired"}]
    /\ call \in [Call -> {"idle", "ready", "done"}]
    /\ seen \in [Call -> Int]
    /\ phase \in [Sweep -> {"idle", "listed", "marked", "summed", "ready"}]
    /\ todo \in [Sweep -> SUBSET Call]
    /\ on \in [Sweep -> Call \cup {NoRow}]
    /\ \A s \in Sweep : phase[s] \in {"marked", "summed", "ready"} <=> on[s] # NoRow
    /\ sum \in [Sweep -> Int]
    /\ stale \subseteq Call \cup Sweep
    /\ raced \subseteq User
    /\ drifted \subseteq User
    /\ faults \in Nat

\* Users an administrator has taken coins from, which nothing bounds.
Forced == {CallUser[c] : c \in {d \in Call : Amount[d] < 0 /\ row[d] # "none"}}

\* debit and revokeCoins compare the balance as read and decrement it without
\* a condition (coins.service.ts:121, bow-coin.service.ts:285).  A user owes
\* coins only if one of them was overtaken, or an administrator took them; a
\* sweep that runs alongside never makes a balance negative.
NegativeOnlyByRace == \A u \in User : balance[u] < 0 => u \in raced \cup Forced

\* A credit of the user waits to be expired.
Due(u) == \E c \in Call : CallUser[c] = u /\ row[c] = "due"

\* recalculateBalance and every call keep the balance and the rows together
\* (coins.service.ts:154): they differ only while a credit waits to be expired,
\* while a sweep is at it, or after a write from a stale read, a sweep that died
\* or met more debits than credits, coins of the other ledger, or a boost paid
\* with a vendor's coins (room-monetization.service.ts:70); and any later sweep
\* of the user that is not overtaken puts them together again.
BalanceIsLedger == \A u \in User \ drifted :
    \/ balance[u] = CreditSum(u) + DebitSum(u)
    \/ Due(u)
    \/ \E s \in Sweep : on[s] # NoRow /\ CallUser[on[s]] = u

\* A call about to take coins has found enough, and still does.
ReadyCovered == \A c \in Call :
    call[c] = "ready" =>
        /\ Kind[c] \in Checked /\ c \notin stale => balance[CallUser[c]] >= Amount[c]
        /\ Kind[c] = "Adjust" /\ seen[c] < 0 => CallUser[c] \in raced \cup Forced

\* A call that has not ended has no row, a sweep works on rows that were due,
\* and the rows of a user hold finitely many coins.
RowsOK ==
    /\ \A c \in Call : call[c] # "done" => row[c] = "none"
    /\ \A s \in Sweep : \A c \in todo[s] : row[c] \in {"due", "expired"}
    /\ \A u \in User : IsFiniteSet(Coins(CreditsOf(u))) /\ IsFiniteSet(Coins(DebitsOf(u)))

\* What is read and not stale is what is there, but for a credit falling due.
ReadingsCurrent ==
    /\ \A c \in Call \ stale :
          call[c] = "ready" /\ Kind[c] = "Adjust" => seen[c] = balance[CallUser[c]]
    /\ \A s \in Sweep \ stale : phase[s] \in {"summed", "ready"} /\ ~Due(CallUser[on[s]]) =>
          sum[s] = CreditSum(CallUser[on[s]])
                    + IF phase[s] = "ready" THEN DebitSum(CallUser[on[s]]) ELSE 0

\* The inductive invariants behind the theorems of CoinLedgerProofs.
IInv == TypeOK /\ RowsOK /\ NegativeOnlyByRace /\ ReadyCovered
LedgerInv == BalanceIsLedger /\ ReadingsCurrent

\* A credit past its date is expired in the end: sweeps that die or overlap
\* leave it to the next one.
ExpiresInTheEnd == \A c \in Call : row[c] = "due" ~> row[c] = "expired"
=============================================================================
