-------------------------- MODULE RedisLockProofs --------------------------
(***************************************************************************)
(* Proofs about RedisLock, for any instances, runs and number of crashes:  *)
(* two jobs run at a time only after an overrun, an instance never frees   *)
(* the lock of another, and its own runs free each other's only after one. *)
(***************************************************************************)
EXTENDS RedisLock, TLAPS

\* IInv holds before the first cron fires.
LEMMA InitEstablishes ==
    ASSUME Init
    PROVE  IInv
BY RunAssumption DEF Init, IInv, TypeOK, Where, HeldOrOverrun, MapOrOverrun,
   OwnValues, Inside

\* Overruns are never forgotten.
LEMMA OverrunStays ==
    ASSUME expired \subseteq expired', NEW i, Overrun(i)
    PROVE  Overrun(i)'
BY DEF Overrun

\* SET NX preserves IInv: it answers OK only when nobody holds the key.
LEMMA AcquireKeeps ==
    ASSUME IInv, NEW r \in Run, Acquire(r)
    PROVE  IInv'
<1>1. TypeOK'
  BY DEF IInv, TypeOK, Acquire, Goto, Where
<1>2. \A q \in Run : Overrun(On[q]) => Overrun(On[q])'
  BY OverrunStays DEF Acquire
<1>3. CASE lock = NoRun
  <2>1. lock' = r /\ pc' = [pc EXCEPT ![r] = "granted"]
    BY <1>3 DEF Acquire, Goto
  <2>2. HeldOrOverrun'
    BY <1>2, <1>3, <2>1, RunAssumption DEF IInv, TypeOK, HeldOrOverrun, Inside
  <2>3. MapOrOverrun' /\ OwnValues'
    BY <1>2, <2>1 DEF IInv, TypeOK, MapOrOverrun, OwnValues, Acquire
  <2> QED
    BY <1>1, <2>2, <2>3 DEF IInv
<1>4. CASE lock # NoRun
  <2>1. lock' = lock /\ pc' = [pc EXCEPT ![r] = "done"]
    BY <1>4 DEF Acquire, Goto
  <2>2. HeldOrOverrun'
    BY <1>2, <2>1 DEF IInv, TypeOK, HeldOrOverrun, Inside
  <2>3. MapOrOverrun' /\ OwnValues'
    BY <1>2, <2>1 DEF IInv, TypeOK, MapOrOverrun, OwnValues, Acquire
  <2> QED
    BY <1>1, <2>2, <2>3 DEF IInv
<1> QED
  BY <1>3, <1>4

\* A run of the same instance that is already running has lost its entry of the
\* map: but then one of the two does not hold the lock.
LEMMA RememberKeeps ==
    ASSUME IInv, NEW r \in Run, Remember(r)
    PROVE  IInv'
<1>1. TypeOK'
  BY RunAssumption DEF IInv, TypeOK, Remember, Goto, Where
<1>2. \A q \in Run : Overrun(On[q]) => Overrun(On[q])'
  BY OverrunStays DEF Remember
<1>3. HeldOrOverrun'
  BY <1>2 DEF IInv, TypeOK, HeldOrOverrun, Inside, Remember, Goto
<1>4. MapOrOverrun'
  <2> SUFFICES ASSUME NEW q \in Run
               PROVE  /\ pc'[q] = "running" =>
                            mine'[On[q]] \in {q, NoRun} \/ Overrun(On[q])'
                      /\ pc'[q] = "releasing" => expected'[q] = q \/ Overrun(On[q])'
    BY DEF MapOrOverrun
  <2>1. On[r] \in Instance /\ On[q] \in Instance
    BY RunAssumption
  <2>2. CASE q = r
    BY <2>1, <2>2 DEF IInv, TypeOK, Remember, Goto
  <2>3. CASE q # r /\ On[q] = On[r] /\ pc[q] = "running"
    <3>1. lock = q \/ Overrun(On[q])
      BY <2>3 DEF IInv, HeldOrOverrun, Inside
    <3>2. lock = r \/ Overrun(On[q])
      BY <2>3 DEF IInv, HeldOrOverrun, Inside, Remember
    <3>3. Overrun(On[q])'
      BY <1>2, <2>3, <3>1, <3>2
    <3> QED
      BY <3>3
  <2>4. CASE q # r /\ ~(On[q] = On[r] /\ pc[q] = "running")
    BY <1>2, <2>1, <2>4 DEF IInv, TypeOK, MapOrOverrun, Remember, Goto
  <2> QED
    BY <2>2, <2>3, <2>4
<1>5. OwnValues'
  BY RunAssumption DEF IInv, TypeOK, OwnValues, Remember
<1> QED
  BY <1>1, <1>3, <1>4, <1>5 DEF IInv

\* releaseLock's look into the map preserves IInv.
LEMMA FinishKeeps ==
    ASSUME IInv, NEW r \in Run, Finish(r)
    PROVE  IInv'
<1>1. TypeOK'
  BY RunAssumption DEF IInv, TypeOK, Finish, Goto, Where
<1>2. \A q \in Run : Overrun(On[q]) => Overrun(On[q])'
  BY OverrunStays DEF Finish
<1>3. HeldOrOverrun'
  BY <1>2 DEF IInv, TypeOK, HeldOrOverrun, Inside, Finish, Goto
<1>4. MapOrOverrun'
  <2> SUFFICES ASSUME NEW q \in Run
               PROVE  /\ pc'[q] = "running" =>
                            mine'[On[q]] \in {q, NoRun} \/ Overrun(On[q])'
                      /\ pc'[q] = "releasing" => expected'[q] = q \/ Overrun(On[q])'
    BY DEF MapOrOverrun
  <2>1. CASE q = r
    <3>1. mine[On[r]] \in {r, NoRun} \/ Overrun(On[r])'
      BY <1>2 DEF IInv, MapOrOverrun, Finish
    <3>2. expected'[r] = mine[On[r]]
      BY DEF IInv, TypeOK, Finish
    <3>3. pc'[r] = (IF mine[On[r]] = NoRun THEN "done" ELSE "releasing")
      BY DEF IInv, TypeOK, Finish, Goto
    <3> QED
      BY <2>1, <3>1, <3>2, <3>3
  <2>2. CASE q # r
    BY <1>2, <2>2 DEF IInv, TypeOK, MapOrOverrun, Finish, Goto
  <2> QED
    BY <2>1, <2>2
<1>5. OwnValues'
  BY RunAssumption DEF IInv, TypeOK, OwnValues, Finish
<1> QED
  BY <1>1, <1>3, <1>4, <1>5 DEF IInv

\* Another run's value is deleted only after an overrun of its instance.
LEMMA DelIfEqualKeeps ==
    ASSUME IInv, NEW r \in Run, DelIfEqual(r)
    PROVE  IInv'
<1>1. TypeOK'
  BY DEF IInv, TypeOK, DelIfEqual, Goto, Where
<1>2. \A q \in Run : Overrun(On[q]) => Overrun(On[q])'
  BY OverrunStays DEF DelIfEqual
<1>3. HeldOrOverrun'
  <2> SUFFICES ASSUME NEW q \in Run, Inside(q)'
               PROVE  lock' = q \/ Overrun(On[q])'
    BY DEF HeldOrOverrun
  <2>1. q # r /\ Inside(q)
    BY DEF IInv, TypeOK, Inside, DelIfEqual, Goto
  <2>2. lock = q \/ Overrun(On[q])
    BY <2>1 DEF IInv, HeldOrOverrun
  <2>3. CASE lock = q /\ expected[r] = q
    <3>1. On[q] = On[r]
      BY <2>3, RunAssumption DEF IInv, OwnValues
    <3>2. Overrun(On[r])
      BY <2>1, <2>3 DEF IInv, MapOrOverrun, DelIfEqual
    <3> QED
      BY <1>2, <3>1, <3>2
  <2>4. CASE ~(lock = q /\ expected[r] = q)
    BY <1>2, <2>2, <2>4 DEF DelIfEqual
  <2> QED
    BY <2>3, <2>4
<1>4. MapOrOverrun' /\ OwnValues'
  BY <1>2 DEF IInv, TypeOK, MapOrOverrun, OwnValues, DelIfEqual, Goto
<1> QED
  BY <1>1, <1>3, <1>4 DEF IInv

\* A release that Redis refuses preserves IInv.
LEMMA ReleaseFailsKeeps ==
    ASSUME IInv, NEW r \in Run, ReleaseFails(r)
    PROVE  IInv'
<1>1. TypeOK'
  BY DEF IInv, TypeOK, ReleaseFails, Goto, Where
<1>2. \A q \in Run : Overrun(On[q]) => Overrun(On[q])'
  BY OverrunStays DEF ReleaseFails
<1>3. HeldOrOverrun'
  BY <1>2 DEF IInv, TypeOK, HeldOrOverrun, Inside, ReleaseFails, Goto
<1>4. MapOrOverrun' /\ OwnValues'
  BY <1>2 DEF IInv, TypeOK, MapOrOverrun, OwnValues, ReleaseFails, Goto
<1> QED
  BY <1>1, <1>3, <1>4 DEF IInv

\* Clearing the entry of the map preserves IInv.
LEMMA ForgetKeeps ==
    ASSUME IInv, NEW r \in Run, Forget(r)
    PROVE  IInv'
<1>1. TypeOK'
  BY DEF IInv, TypeOK, Forget, Goto, Where
<1>2. \A q \in Run : Overrun(On[q]) => Overrun(On[q])'
  BY OverrunStays DEF Forget
<1>3. HeldOrOverrun'
  BY <1>2 DEF IInv, TypeOK, HeldOrOverrun, Inside, Forget, Goto
<1>4. MapOrOverrun'
  BY <1>2, RunAssumption DEF IInv, TypeOK, MapOrOverrun, Forget, Goto
<1>5. OwnValues'
  BY RunAssumption DEF IInv, TypeOK, OwnValues, Forget
<1> QED
  BY <1>1, <1>3, <1>4, <1>5 DEF IInv

\* The end of the key's time to live preserves IInv: it counts as an overrun.
LEMMA ExpireKeeps ==
    ASSUME IInv, Expire
    PROVE  IInv'
<1>1. TypeOK'
  BY DEF IInv, TypeOK, Expire
<1>2. \A q \in Run : Overrun(On[q]) => Overrun(On[q])'
  BY OverrunStays DEF Expire
<1>3. HeldOrOverrun'
  <2> SUFFICES ASSUME NEW q \in Run, Inside(q)
               PROVE  Overrun(On[q])'
    BY DEF HeldOrOverrun, Inside, Expire
  <2>1. CASE lock = q
    BY <2>1 DEF Expire, Overrun
  <2>2. CASE lock # q
    BY <1>2, <2>2 DEF IInv, HeldOrOverrun
  <2> QED
    BY <2>1, <2>2
<1>4. MapOrOverrun' /\ OwnValues'
  BY <1>2 DEF IInv, MapOrOverrun, OwnValues, Expire
<1> QED
  BY <1>1, <1>3, <1>4 DEF IInv

\* The crash of an instance preserves IInv.
LEMMA CrashKeeps ==
    ASSUME IInv, NEW i \in Instance, Crash(i)
    PROVE  IInv'
<1>1. TypeOK'
  BY BoundAssumption DEF IInv, TypeOK, Crash, Where
<1>2. \A q \in Run : Overrun(On[q]) => Overrun(On[q])'
  BY OverrunStays DEF Crash
<1>3. \A q \in Run : pc'[q] = pc[q] \/ pc'[q] = "done"
  BY DEF Crash
<1>4. HeldOrOverrun'
  BY <1>2, <1>3 DEF IInv, HeldOrOverrun, Inside, Crash
<1>5. MapOrOverrun'
  BY <1>2, <1>3, RunAssumption DEF IInv, TypeOK, MapOrOverrun, Crash
<1>6. OwnValues'
  BY DEF IInv, TypeOK, OwnValues, Crash
<1> QED
  BY <1>1, <1>4, <1>5, <1>6 DEF IInv

\* IInv is inductive.
LEMMA NextKeeps ==
    ASSUME IInv, [Next]_vars
    PROVE  IInv'
<1>1. ASSUME NEW r \in Run, WithLock(r) PROVE IInv'
  BY <1>1, AcquireKeeps, RememberKeeps, FinishKeeps, DelIfEqualKeeps,
     ReleaseFailsKeeps, ForgetKeeps DEF WithLock
<1>2. CASE UNCHANGED vars
  BY <1>2 DEF vars, IInv, TypeOK, HeldOrOverrun, MapOrOverrun, OwnValues, Inside,
     Overrun
<1> QED
  BY <1>1, <1>2, ExpireKeeps, CrashKeeps DEF Next

\* The inductive invariant holds in every reachable state.
THEOREM Invariance == Spec => []IInv
BY InitEstablishes, NextKeeps, PTL DEF Spec

\* withLock lets a second job in only after a job has outlived the lock's time
\* to live on the instance of one of the two.
THEOREM Exclusion == Spec => []OneJob
<1>1. IInv => OneJob
  BY DEF IInv, HeldOrOverrun, OneJob
<1> QED
  BY <1>1, Invariance, PTL

\* Only the end of its time to live and a release change a held lock to a free
\* one, and the release is of a run that has stored the value it deletes.
LEMMA WhoFrees ==
    ASSUME IInv, Next, NEW r \in Run, lock = r, lock' = NoRun, r \notin expired'
    PROVE  \E s \in Run : pc[s] = "releasing" /\ expected[s] = r /\ On[s] = On[r]
<1>1. lock # lock'
  BY RunAssumption
<1>2. ~Expire /\ \A i \in Instance : ~Crash(i)
  BY <1>1 DEF Expire, Crash
<1>3. PICK s \in Run : WithLock(s)
  BY <1>2 DEF Next
<1>4. DelIfEqual(s)
  BY <1>1, <1>3, RunAssumption
     DEF WithLock, Acquire, Remember, Finish, ReleaseFails, Forget
<1>5. pc[s] = "releasing" /\ expected[s] = r
  BY <1>1, <1>4 DEF DelIfEqual
<1> QED
  BY <1>5, RunAssumption DEF IInv, OwnValues

\* releaseLock never frees a lock that a job of another instance holds.
THEOREM NoForeignRelease == Spec => OthersKeepTheirs
<1> DEFINE Kept == \A r \in Run :
                lock = r /\ lock' = NoRun =>
                    \/ r \in expired'
                    \/ \E s \in Run : pc[s] = "releasing" /\ On[s] = On[r]
<1>1. IInv /\ [Next]_vars => [Kept]_vars
  BY WhoFrees
<1> QED
  BY <1>1, Invariance, PTL DEF Spec, OthersKeepTheirs

\* releaseLock frees the lock of a run that has not begun its own release only
\* after a job of the instance has outlived its key.
THEOREM NoAccidentalRelease == Spec => FreedByHolder
<1> DEFINE Kept == \A r \in Run :
                lock = r /\ lock' = NoRun /\ r \notin expired' =>
                    pc[r] = "releasing" \/ Overrun(On[r])
<1>1. IInv /\ [Next]_vars => [Kept]_vars
  <2> SUFFICES ASSUME IInv, Next, NEW r \in Run, lock = r, lock' = NoRun, r \notin expired'
               PROVE  pc[r] = "releasing" \/ Overrun(On[r])
    OBVIOUS
  <2>1. PICK s \in Run : pc[s] = "releasing" /\ expected[s] = r /\ On[s] = On[r]
    BY WhoFrees
  <2>2. s = r \/ Overrun(On[s])
    BY <2>1 DEF IInv, MapOrOverrun
  <2> QED
    BY <2>1, <2>2
<1> QED
  BY <1>1, Invariance, PTL DEF Spec, FreedByHolder
=============================================================================
