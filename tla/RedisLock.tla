----------------------------- MODULE RedisLock -----------------------------
(***************************************************************************)
(* RedisLockService.withLock on one lock key: the cron jobs of several     *)
(* instances of the backend, of which one should run.  A job is taken      *)
(* through each await of withLock; the key in Redis has a time to live,    *)
(* and each instance remembers in a map, under the lock key, the value it  *)
(* has stored.  The value is fresh for each attempt, so that here it is    *)
(* the run that stored it.                                                 *)
(***************************************************************************)
EXTENDS Naturals

CONSTANTS
    Instance,       \* processes of the backend
    Run,            \* firings of the cron
    On,             \* [Run -> Instance]
    NoRun,
    MaxCrashes      \* bound: crashes of instances

ASSUME RunAssumption == On \in [Run -> Instance] /\ NoRun \notin Run
ASSUME BoundAssumption == MaxCrashes \in Nat

VARIABLES
    lock,       \* the value of the key lock:<lockKey>, NoRun when absent
    mine,       \* lockOwnership of each instance, NoRun when it has no entry
    pc,         \* where each run is
    expected,   \* the value releaseLock has read from the map
    expired,    \* history: runs whose key expired
    crashes     \* counter for the bound

vars == <<lock, mine, pc, expected, expired, crashes>>

Where == {"idle", "granted", "running", "releasing", "forgetting", "done"}

Init ==
    /\ lock = NoRun
    /\ mine = [i \in Instance |-> NoRun]
    /\ pc = [r \in Run |-> "idle"]
    /\ expected = [r \in Run |-> NoRun]
    /\ expired = {}
    /\ crashes = 0

Goto(r, l) == pc' = [pc EXCEPT ![r] = l]

\* Mutant of Acquire: an EXISTS that was answered earlier stands for NX.
AcquireUnconditionally(r) ==
    /\ pc[r] = "idle"
    /\ \/ lock = NoRun /\ Goto(r, "done") /\ UNCHANGED lock
       \/ lock' = r /\ Goto(r, "granted")
    /\ UNCHANGED <<mine, expected, expired, crashes>>

\* Mutant of Acquire: the finally covers a job that did not get the lock.
AcquireThenRelease(r) ==
    /\ pc[r] = "idle"
    /\ IF lock = NoRun
       THEN lock' = r /\ Goto(r, "granted") /\ UNCHANGED expected
       ELSE /\ expected' = [expected EXCEPT ![r] = mine[On[r]]]
            /\ Goto(r, IF mine[On[r]] = NoRun THEN "done" ELSE "releasing")
            /\ UNCHANGED lock
    /\ UNCHANGED <<mine, expired, crashes>>

\* SET key value NX EX ttl: one command.  withLock does not retry.
Acquire(r) ==
    /\ pc[r] = "idle"
    /\ IF lock = NoRun
       THEN lock' = r /\ Goto(r, "granted")
       ELSE Goto(r, "done") /\ UNCHANGED lock
    /\ UNCHANGED <<mine, expected, expired, crashes>>

\* The answer arrives; the map forgets what it had under the same key.
Remember(r) ==
    /\ pc[r] = "granted"
    /\ mine' = [mine EXCEPT ![On[r]] = r]
    /\ Goto(r, "running")
    /\ UNCHANGED <<lock, expected, expired, crashes>>

\* The job ends, or throws; releaseLock looks its value up by the lock key.
Finish(r) ==
    /\ pc[r] = "running"
    /\ expected' = [expected EXCEPT ![r] = mine[On[r]]]
    /\ Goto(r, IF mine[On[r]] = NoRun THEN "done" ELSE "releasing")
    /\ UNCHANGED <<lock, mine, expired, crashes>>

\* Mutant of DelIfEqual: DEL, whoever holds the lock by now.
DelAnyway(r) ==
    /\ pc[r] = "releasing"
    /\ lock' = NoRun
    /\ Goto(r, "forgetting")
    /\ UNCHANGED <<mine, expected, expired, crashes>>

\* The Lua script deletes the key if it has the expected value.
DelIfEqual(r) ==
    /\ pc[r] = "releasing"
    /\ lock' = IF lock = expected[r] THEN NoRun ELSE lock
    /\ Goto(r, "forgetting")
    /\ UNCHANGED <<mine, expected, expired, crashes>>

\* Redis fails: releaseLock throws before it clears the map.
ReleaseFails(r) ==
    /\ pc[r] = "releasing"
    /\ Goto(r, "done")
    /\ UNCHANGED <<lock, mine, expected, expired, crashes>>

\* "Clear local ownership tracking regardless", also of a later run's value.
Forget(r) ==
    /\ pc[r] = "forgetting"
    /\ mine' = [mine EXCEPT ![On[r]] = NoRun]
    /\ Goto(r, "done")
    /\ UNCHANGED <<lock, expected, expired, crashes>>

\* The time to live is over, whether or not the job is.
Expire ==
    /\ lock # NoRun
    /\ lock' = NoRun
    /\ expired' = expired \cup {lock}
    /\ UNCHANGED <<mine, pc, expected, crashes>>

\* An instance dies with its map and its jobs; the key stays in Redis.
Crash(i) ==
    /\ crashes < MaxCrashes
    /\ crashes' = crashes + 1
    /\ mine' = [mine EXCEPT ![i] = NoRun]
    /\ pc' = [r \in Run |-> IF On[r] = i /\ pc[r] # "idle" THEN "done" ELSE pc[r]]
    /\ UNCHANGED <<lock, expected, expired>>

WithLock(r) == Acquire(r) \/ Remember(r) \/ Finish(r) \/ DelIfEqual(r)
                 \/ ReleaseFails(r) \/ Forget(r)

Next == (\E r \in Run : WithLock(r)) \/ Expire \/ \E i \in Instance : Crash(i)

Spec == Init /\ [][Next]_vars

-----------------------------------------------------------------------------
TypeOK ==
    /\ lock \in Run \cup {NoRun}
    /\ mine \in [Instance -> Run \cup {NoRun}]
    /\ pc \in [Run -> Where]
    /\ expected \in [Run -> Run \cup {NoRun}]
    /\ expired \subseteq Run
    /\ crashes \in Nat

\* In the critical section: the job runs, or is about to.
Inside(r) == pc[r] \in {"granted", "running"}

\* A job of the instance has outlived its key.
Overrun(i) == \E s \in expired : On[s] = i

\* Two jobs run at a time only if the key of a job of one of their instances
\* has expired under it: neither the map that the runs of an instance share,
\* nor releases that overlap, nor crashes let a second job in.
OneJob == \A q, r \in Run :
    q # r /\ Inside(q) /\ Inside(r) => Overrun(On[q]) \/ Overrun(On[r])

\* A job inside holds the lock, unless its instance has had an overrun.
HeldOrOverrun == \A r \in Run : Inside(r) => lock = r \/ Overrun(On[r])

\* The map has a running job's own value, or none, unless there was an overrun.
MapOrOverrun == \A r \in Run :
    /\ pc[r] = "running" => mine[On[r]] \in {r, NoRun} \/ Overrun(On[r])
    /\ pc[r] = "releasing" => expected[r] = r \/ Overrun(On[r])

\* What a run is about to delete, or its instance remembers, was stored by a
\* run of its own instance.
OwnValues ==
    /\ \A i \in Instance : mine[i] # NoRun => On[mine[i]] = i
    /\ \A r \in Run : expected[r] # NoRun => On[expected[r]] = On[r]

\* The inductive invariant behind the theorems of RedisLockProofs.
IInv == TypeOK /\ HeldOrOverrun /\ MapOrOverrun /\ OwnValues

\* A job of one instance never frees the lock that a job of another instance
\* holds, though its own key has expired and was taken over.
OthersKeepTheirs == [][\A r \in Run :
    lock = r /\ lock' = NoRun =>
        \/ r \in expired'
        \/ \E s \in Run : pc[s] = "releasing" /\ On[s] = On[r]]_vars

\* "ownership-verified release (no accidental unlock by other holders)"
\* (redis-lock.service.ts:12).  The ownership is the entry of a map that all runs
\* of an instance share under the lock key, so that a late release frees the lock
\* of the instance's next run: but only once a key has expired under one of the
\* instance's jobs, never because runs overlap in the map, fail or crash.
FreedByHolder == [][\A r \in Run :
    lock = r /\ lock' = NoRun /\ r \notin expired' =>
        pc[r] = "releasing" \/ Overrun(On[r])]_vars
=============================================================================
