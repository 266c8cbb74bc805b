---------------------------- MODULE MutexProofs -----------------------------
(***************************************************************************)
(* Proofs about Mutex, for any set of threads and any length of back-off.  *)
(***************************************************************************)
EXTENDS Mutex, TLAPS

\* A thread in a wait loop installs its own id or nothing, and has not used up
\* the acquisitions its caller makes.
LoopInv ==
  \A t \in Threads :
    InLoop(t) => /\ want[t] \in {0, ThreadId[t]}
                 /\ depth[t] < MaxDepth

TypedInv == TypeOK /\ LoopInv

\* TypedInv holds initially.
LEMMA InitTyped == Init => TypedInv
BY MutexAssumption DEF Init, TypedInv, TypeOK, LoopInv, InLoop, Ids, Locations

\* Every step of every thread preserves TypedInv.
LEMMA NextTyped == TypedInv /\ [Next]_vars => TypedInv'
<1> USE MutexAssumption DEF TypedInv, TypeOK, LoopInv, InLoop, Ids, Locations
<1> SUFFICES ASSUME TypedInv, [Next]_vars
             PROVE  TypedInv'
  OBVIOUS
<1>0. pointer' = pointer
  BY DEF Next, Step, Call, Stray, vars
<1>1. ASSUME NEW t \in Threads, Acquire(t) \/ WaitUntilFree(t)
      PROVE  TypedInv'
  BY <1>0, <1>1 DEF Acquire, WaitUntilFree, EnterLoop, Goto
<1>2. ASSUME NEW t \in Threads, CompareExchangeHit(t)
      PROVE  TypedInv'
  BY <1>0, <1>2 DEF CompareExchangeHit, Goto
<1>3. ASSUME NEW t \in Threads, CompareExchangeMiss(t)
      PROVE  TypedInv'
  BY <1>0, <1>3 DEF CompareExchangeMiss, Goto
<1>4. ASSUME NEW t \in Threads, Spin(t)
      PROVE  TypedInv'
  BY <1>0, <1>4 DEF Spin, Goto
<1>10. ASSUME NEW t \in Threads, Yield(t)
      PROVE  TypedInv'
  BY <1>0, <1>10 DEF Yield, Goto
<1>5. ASSUME NEW t \in Threads, Wait(t) \/ ReturnUnwoken(t)
      PROVE  TypedInv'
  BY <1>0, <1>5 DEF Wait, ReturnUnwoken, Goto
<1>6. ASSUME NEW t \in Threads, AcquireIfFree(t)
      PROVE  TypedInv'
  BY <1>0, <1>6 DEF AcquireIfFree
<1>7. ASSUME NEW t \in Threads, Release(t)
      PROVE  TypedInv'
  BY <1>0, <1>7 DEF Release, Goto
<1>8. ASSUME NEW t \in Threads, Wake(t)
      PROVE  TypedInv'
  BY <1>0, <1>8 DEF Wake, ParkedOn
<1>9. CASE UNCHANGED vars
  BY <1>0, <1>9 DEF vars
<1> QED
  BY <1>1, <1>2, <1>3, <1>4, <1>5, <1>6, <1>7, <1>8, <1>9, <1>10 DEF Next, Step, Call, Stray

\* The variables of Mutex have their types, whatever its callers do: the
\* back-off counters stay within their two limits, and the lock word is 0 or
\* the id of some thread.
THEOREM TypeCorrect == Spec => []TypeOK
<1>1. TypedInv => TypeOK
  BY DEF TypedInv
<1> QED
  BY InitTyped, NextTyped, <1>1, PTL DEF Spec

-----------------------------------------------------------------------------
\* The inductive invariant under the discipline the code needs of its callers:
\* threads have distinct ids and acquire no mutex they hold.

\* The lock word names the thread that is inside, and is 0 when none is.
HeldNamesOwner ==
  \A t \in Threads : depth[t] > 0 <=> held = ThreadId[t]

IInv == TypedInv /\ HeldNamesOwner /\ Running

\* Init establishes IInv.
LEMMA InitInv == Init => IInv
BY InitTyped, MutexAssumption DEF Init, IInv, HeldNamesOwner, Running

\* Every step preserves IInv.  A compare-exchange of acquire succeeds only on a
\* free mutex, since a thread in the loop is not inside; a release always
\* finds its own id, since the thread is.
LEMMA NextInv ==
  ASSUME DistinctIds, MaxDepth = 1
  PROVE  IInv /\ [Next]_vars => IInv'
<1> SUFFICES ASSUME IInv, [Next]_vars
             PROVE  HeldNamesOwner' /\ Running'
  BY NextTyped DEF IInv
<1> USE MutexAssumption
    DEF DistinctIds, IInv, TypedInv, TypeOK, LoopInv, InLoop, Ids, Locations,
        HeldNamesOwner, Running
<1>1. ASSUME NEW t \in Threads, Acquire(t) \/ WaitUntilFree(t)
      PROVE  HeldNamesOwner' /\ Running'
  BY <1>1 DEF Acquire, WaitUntilFree, EnterLoop, Goto
<1>2. ASSUME NEW t \in Threads, CompareExchangeHit(t)
      PROVE  HeldNamesOwner' /\ Running'
  BY <1>2 DEF CompareExchangeHit, Goto
<1>3. ASSUME NEW t \in Threads, CompareExchangeMiss(t)
      PROVE  HeldNamesOwner' /\ Running'
  BY <1>3 DEF CompareExchangeMiss, Goto
<1>4. ASSUME NEW t \in Threads, Spin(t) \/ Yield(t)
      PROVE  HeldNamesOwner' /\ Running'
  BY <1>4 DEF Spin, Yield, Goto
<1>5. ASSUME NEW t \in Threads, Wait(t) \/ ReturnUnwoken(t)
      PROVE  HeldNamesOwner' /\ Running'
  BY <1>5 DEF Wait, ReturnUnwoken, Goto
<1>6. ASSUME NEW t \in Threads, AcquireIfFree(t)
      PROVE  HeldNamesOwner' /\ Running'
  BY <1>6 DEF AcquireIfFree
<1>7. ASSUME NEW t \in Threads, Release(t)
      PROVE  HeldNamesOwner' /\ Running'
  BY <1>7 DEF Release, Goto
<1>8. ASSUME NEW t \in Threads, Wake(t)
      PROVE  HeldNamesOwner' /\ Running'
  BY <1>8 DEF Wake, ParkedOn
<1>9. CASE UNCHANGED vars
  BY <1>9 DEF vars
<1> QED
  BY <1>1, <1>2, <1>3, <1>4, <1>5, <1>6, <1>7, <1>8, <1>9 DEF Next, Step, Call, Stray

\* At most one thread is inside the mutex, however many there are: the lock
\* word can name only one of them.
THEOREM Exclusion ==
  ASSUME DistinctIds, MaxDepth = 1
  PROVE  Spec => []MutualExclusion
<1>1. IInv => MutualExclusion
  BY DEF IInv, HeldNamesOwner, MutualExclusion, DistinctIds
<1> QED
  BY InitInv, NextInv, <1>1, PTL DEF Spec

\* The assertion of release never fails for a caller that keeps the discipline.
THEOREM ReleaseSafe ==
  ASSUME DistinctIds, MaxDepth = 1
  PROVE  Spec => []ReleaseFindsOwnId
<1>1. IInv => ReleaseFindsOwnId
  BY DEF IInv, ReleaseFindsOwnId
<1> QED
  BY InitInv, NextInv, <1>1, PTL DEF Spec

-----------------------------------------------------------------------------
Inside == {t \in Threads : depth[t] > 0}

\* Each step of the mutex is a step of the abstract lock or leaves it alone.
LEMMA StepRefines ==
  ASSUME DistinctIds, MaxDepth = 1, IInv, [Next]_vars
  PROVE  [AbstractLock!LockNext]_Inside
<1> SUFFICES \/ Inside' = Inside
             \/ \E t \in Threads : Inside = {} /\ Inside' = {t}
             \/ \E t \in Threads : Inside = {t} /\ Inside' = {}
  BY DEF AbstractLock!LockNext, AbstractLock!Enter, AbstractLock!Leave, Inside
<1>0. /\ depth \in [Threads -> 0..1]
      /\ ThreadId \in [Threads -> Nat \ {0}]
      /\ \A t \in Threads : depth[t] > 0 <=> held = ThreadId[t]
      /\ \A t \in Threads : InLoop(t) => want[t] \in {0, ThreadId[t]} /\ depth[t] = 0
  BY MutexAssumption DEF IInv, TypedInv, TypeOK, LoopInv, HeldNamesOwner
<1>1. ASSUME depth' = depth
      PROVE  Inside' = Inside
  BY <1>1 DEF Inside
<1>2. ASSUME NEW t \in Threads, held = 0, depth' = [depth EXCEPT ![t] = @ + 1]
      PROVE  Inside = {} /\ Inside' = {t}
  <2>1. \A u \in Threads : depth[u] = 0
    BY <1>0, <1>2
  <2> QED
    BY <1>0, <1>2, <2>1 DEF Inside
<1>3. ASSUME NEW t \in Threads, Release(t)
      PROVE  Inside = {t} /\ Inside' = {}
  <2>1. depth[t] = 1 /\ \A u \in Threads : u # t => depth[u] = 0
    BY <1>0, <1>3 DEF Release, DistinctIds
  <2>2. depth' = [depth EXCEPT ![t] = 0]
    BY <1>0, <2>1, <1>3 DEF Release
  <2> QED
    BY <1>0, <2>1, <2>2 DEF Inside
<1>4. ASSUME NEW t \in Threads, CompareExchangeHit(t)
      PROVE  Inside' = Inside \/ (Inside = {} /\ Inside' = {t})
  <2>1. CASE want[t] = 0
    <3>1. depth' = depth
      BY <1>0, <1>4, <2>1 DEF CompareExchangeHit
    <3> QED
      BY <3>1, <1>1
  <2>2. CASE want[t] # 0
    <3>1. held = 0 /\ depth' = [depth EXCEPT ![t] = @ + 1]
      BY <1>0, <1>4, <2>2 DEF CompareExchangeHit, InLoop
    <3> QED
      BY <3>1, <1>2
  <2> QED
    BY <2>1, <2>2
<1>5. ASSUME NEW t \in Threads, AcquireIfFree(t)
      PROVE  Inside = {} /\ Inside' = {t}
  <2>1. depth[t] = 0
    BY <1>0, <1>5, MaxDepth = 1 DEF AcquireIfFree
  <2>2. held = 0 /\ depth' = [depth EXCEPT ![t] = @ + 1]
    BY <1>0, <1>5, <2>1 DEF AcquireIfFree
  <2> QED
    BY <2>2, <1>2
<1>6. ASSUME NEW t \in Threads, \/ Acquire(t) \/ WaitUntilFree(t)
                               \/ CompareExchangeMiss(t)
                               \/ Spin(t) \/ Yield(t) \/ Wait(t) \/ Wake(t)
                               \/ ReturnUnwoken(t)
      PROVE  Inside' = Inside
  <2>1. depth' = depth
    BY <1>6 DEF Acquire, WaitUntilFree, EnterLoop, CompareExchangeMiss, Spin,
                Yield, Wait, Wake, ReturnUnwoken
  <2> QED
    BY <2>1, <1>1
<1>7. CASE UNCHANGED vars
  BY <1>7, <1>1 DEF vars
<1>8. CASE Next
  <2>1. PICK t \in Threads : Step(t) \/ Call(t) \/ Stray(t)
    BY <1>8 DEF Next
  <2>2. \/ Inside' = Inside
        \/ Inside = {} /\ Inside' = {t}
        \/ Inside = {t} /\ Inside' = {}
    <3>1. CASE CompareExchangeHit(t)
      BY <3>1, <1>4
    <3>2. CASE AcquireIfFree(t)
      BY <3>2, <1>5
    <3>3. CASE Release(t)
      BY <3>3, <1>3
    <3>4. CASE \/ Acquire(t) \/ WaitUntilFree(t)
               \/ CompareExchangeMiss(t)
               \/ Spin(t) \/ Yield(t) \/ Wait(t) \/ Wake(t)
               \/ ReturnUnwoken(t)
      BY <3>4, <1>6
    <3> QED
      BY <2>1, <3>1, <3>2, <3>3, <3>4 DEF Step, Call, Stray
  <2> QED
    BY <2>1, <2>2
<1> QED
  BY <1>7, <1>8

\* A Mutex implements the abstract lock: whatever the interleaving of the
\* compare-exchanges, ownership passes from thread to thread only by a release
\* that leaves nobody inside.
THEOREM Refinement ==
  ASSUME DistinctIds, MaxDepth = 1
  PROVE  Spec => ImplementsLock
<1>1. Init => AbstractLock!LockInit
  BY MutexAssumption DEF Init, AbstractLock!LockInit
<1>2. IInv /\ [Next]_vars => [AbstractLock!LockNext]_Inside
  BY StepRefines
<1> QED
  BY InitInv, NextInv, <1>1, <1>2, PTL
  DEF Spec, ImplementsLock, AbstractLock!LockSpec, Inside
=============================================================================
