------------------------------- MODULE Mutex --------------------------------
(***************************************************************************)
(* struct Mutex (include/AxleUtil/threading.h, src/threading.cpp).         *)
(*                                                                         *)
(* The lock is one 32-bit word, 0 when free and the id of the owner        *)
(* otherwise, changed only by interlocked compare-exchanges: one atomic    *)
(* step of a thread is one compare-exchange or one turn of the back-off    *)
(* between two of them.  acquire and wait_until_free are the same loop     *)
(* with another value to install (the caller's id, or 0).                  *)
(*                                                                         *)
(* The back-off spins, then yields, then calls                             *)
(* WaitOnAddress(&held, ...).  `held' is a pointer parameter, so the       *)
(* address waited on is the local variable that holds the pointer, and     *)
(* the value compared is the low half of the pointer, not the lock word.   *)
(***************************************************************************)
EXTENDS Naturals

CONSTANTS
  Threads,
  ThreadId,    \* THREAD_ID.id of each thread
  PointerLows, \* what the low 32 bits of the address of Mutex::held may be
  MaxSpin,     \* MAX_SPIN_BEFORE_YIELD
  MaxYield,    \* MAX_YIELD_BEFORE_WAIT
  MaxDepth     \* bound: how often a thread acquires before it releases

ASSUME MutexAssumption ==
  /\ ThreadId \in [Threads -> Nat \ {0}]
  /\ PointerLows \subseteq Nat
  /\ MaxSpin \in Nat
  /\ MaxYield \in Nat
  /\ MaxDepth \in Nat \ {0}

VARIABLES
  pointer, \* the low 32 bits of the address of this mutex, fixed where it lies
  held,    \* the lock word
  pc,      \* where each thread is in the operation it is executing
  want,    \* the value its loop installs: its id (acquire) or 0 (wait_until_free)
  res,     \* what its last compare-exchange found
  spin,    \* spin_counter
  yield,   \* yield_counter
  depth    \* acquisitions that returned, less the releases made since

vars == <<pointer, held, pc, want, res, spin, yield, depth>>

Ids == {ThreadId[t] : t \in Threads}

\* No two threads share an id.  start_thread gives each thread it creates a
\* new one; every thread the library did not create has the id 1.
DistinctIds == \A s, t \in Threads : ThreadId[s] = ThreadId[t] => s = t

Locations == {"idle", "cas", "backoff", "parked", "wake", "panicked"}

TypeOK ==
  /\ pointer \in PointerLows
  /\ held \in Ids \union {0}
  /\ pc \in [Threads -> Locations]
  /\ want \in [Threads -> Ids \union {0}]
  /\ res \in [Threads -> Ids \union {0}]
  /\ spin \in [Threads -> 0..MaxSpin]
  /\ yield \in [Threads -> 0..MaxYield]
  /\ depth \in [Threads -> 0..MaxDepth]

Init ==
  /\ pointer \in PointerLows
  /\ held = 0
  /\ pc = [t \in Threads |-> "idle"]
  /\ want = [t \in Threads |-> 0]
  /\ res = [t \in Threads |-> 0]
  /\ spin = [t \in Threads |-> 0]
  /\ yield = [t \in Threads |-> 0]
  /\ depth = [t \in Threads |-> 0]

Goto(t, loc) == pc' = [pc EXCEPT ![t] = loc]

-----------------------------------------------------------------------------
(* wait_until_zero_or_value and wait_until_zero                            *)

EnterLoop(t, value) ==
  /\ pc[t] = "idle"
  /\ want' = [want EXCEPT ![t] = value]
  /\ spin' = [spin EXCEPT ![t] = 0]
  /\ yield' = [yield EXCEPT ![t] = 0]
  /\ Goto(t, "cas")
  /\ UNCHANGED <<held, res, depth>>

Acquire(t) == depth[t] < MaxDepth /\ EnterLoop(t, ThreadId[t])

\* Called by threads that do not hold the mutex; a holder would wait for itself.
WaitUntilFree(t) == depth[t] = 0 /\ EnterLoop(t, 0)

\* Mutant: an exchange where the compare-exchange is.
CompareExchangeHitBlind(t) ==
  /\ pc[t] = "cas"
  /\ held' = want[t]
  /\ depth' = [depth EXCEPT ![t] = IF want[t] = 0 THEN @ ELSE @ + 1]
  /\ Goto(t, "idle")
  /\ UNCHANGED <<want, res, spin, yield>>

\* The compare-exchange found 0, or the value it was to install: the loop ends,
\* and its local variables with it.
CompareExchangeHit(t) ==
  /\ pc[t] = "cas"
  /\ held \in {0, want[t]}
  /\ held' = want[t]
  /\ depth' = [depth EXCEPT ![t] = IF want[t] = 0 THEN @ ELSE @ + 1]
  /\ want' = [want EXCEPT ![t] = 0]
  /\ res' = [res EXCEPT ![t] = 0]
  /\ spin' = [spin EXCEPT ![t] = 0]
  /\ yield' = [yield EXCEPT ![t] = 0]
  /\ Goto(t, "idle")

CompareExchangeMiss(t) ==
  /\ pc[t] = "cas"
  /\ held \notin {0, want[t]}
  /\ res' = [res EXCEPT ![t] = held]
  /\ Goto(t, "backoff")
  /\ UNCHANGED <<held, want, spin, yield, depth>>

\* Mutant: spins without regard to MAX_SPIN_BEFORE_YIELD.
SpinUnbounded(t) ==
  /\ pc[t] = "backoff"
  /\ yield[t] < MaxYield
  /\ spin' = [spin EXCEPT ![t] = @ + 1]
  /\ Goto(t, "cas")
  /\ UNCHANGED <<held, want, res, yield, depth>>

Spin(t) ==
  /\ pc[t] = "backoff"
  /\ yield[t] < MaxYield
  /\ spin[t] < MaxSpin
  /\ spin' = [spin EXCEPT ![t] = @ + 1]
  /\ Goto(t, "cas")
  /\ UNCHANGED <<held, want, res, yield, depth>>

Yield(t) ==
  /\ pc[t] = "backoff"
  /\ yield[t] < MaxYield
  /\ spin[t] >= MaxSpin
  /\ spin' = [spin EXCEPT ![t] = 0]
  /\ yield' = [yield EXCEPT ![t] = @ + 1]
  /\ Goto(t, "cas")
  /\ UNCHANGED <<held, want, res, depth>>

\* The address handed to WaitOnAddress: the loop's own pointer variable
\* ("local"), not the lock word ("word") that release wakes.
WaitAddress == "local"

\* Mutant: compares the lock word, but still parks where no release wakes.
ValueAtWord(address) == held

ValueAt(address) == IF address = "word" THEN held ELSE pointer

\* WaitOnAddress compares and parks in one step; when the value at the address
\* is not the one given, it returns at once.
Wait(t) ==
  /\ pc[t] = "backoff"
  /\ yield[t] >= MaxYield
  /\ yield' = [yield EXCEPT ![t] = 0]
  /\ \/ ValueAt(WaitAddress) = res[t] /\ Goto(t, "parked")
     \/ ValueAt(WaitAddress) # res[t] /\ Goto(t, "cas")
  /\ UNCHANGED <<held, want, res, spin, depth>>

\* WaitOnAddress may return without a wake.
ReturnUnwoken(t) ==
  /\ pc[t] = "parked"
  /\ Goto(t, "cas")
  /\ UNCHANGED <<held, want, res, spin, yield, depth>>

-----------------------------------------------------------------------------
(* try_hold, acquire_if_free and release                                   *)

\* Mutant: the result of try_hold is not looked at.
AcquireIfFreeUnchecked(t) ==
  /\ pc[t] = "idle"
  /\ depth[t] < MaxDepth
  /\ held' = IF held = 0 THEN ThreadId[t] ELSE held
  /\ depth' = [depth EXCEPT ![t] = @ + 1]
  /\ UNCHANGED <<pc, want, res, spin, yield>>

\* A try that fails returns false and changes nothing.
AcquireIfFree(t) ==
  /\ pc[t] = "idle"
  /\ depth[t] < MaxDepth
  /\ held \in {0, ThreadId[t]}
  /\ held' = ThreadId[t]
  /\ depth' = [depth EXCEPT ![t] = @ + 1]
  /\ UNCHANGED <<pc, want, res, spin, yield>>

\* The compare-exchange of release, called by a thread once for each of its
\* acquisitions.  ASSERT(res == THREAD_ID.id) panics when another value is held.
Release(t) ==
  /\ pc[t] = "idle"
  /\ depth[t] > 0
  /\ held' = IF held = ThreadId[t] THEN 0 ELSE held
  /\ Goto(t, IF held = ThreadId[t] THEN "wake" ELSE "panicked")
  /\ depth' = [depth EXCEPT ![t] = @ - 1]
  /\ UNCHANGED <<want, res, spin, yield>>

ParkedOn(address) == {t \in Threads : pc[t] = "parked" /\ WaitAddress = address}

\* WakeByAddressAll(&held) in release: here `held' is the member, the lock word.
Wake(t) ==
  /\ pc[t] = "wake"
  /\ pc' = [u \in Threads |-> IF u = t THEN "idle"
                              ELSE IF u \in ParkedOn("word") THEN "cas"
                              ELSE pc[u]]
  /\ UNCHANGED <<held, want, res, spin, yield, depth>>

-----------------------------------------------------------------------------
\* A panic ends the process.
Running == \A t \in Threads : pc[t] # "panicked"

\* The steps of a thread inside an operation, which the scheduler keeps running.
Step(t) ==
  /\ Running
  /\ UNCHANGED pointer
  /\ \/ CompareExchangeHit(t)
     \/ CompareExchangeMiss(t)
     \/ Spin(t)
     \/ Yield(t)
     \/ Wait(t)
     \/ Wake(t)

\* What a caller chooses to do.
Call(t) ==
  /\ Running
  /\ UNCHANGED pointer
  /\ \/ Acquire(t)
     \/ AcquireIfFree(t)
     \/ WaitUntilFree(t)
     \/ Release(t)

\* What the operating system may do, and need not.
Stray(t) ==
  /\ Running
  /\ UNCHANGED pointer
  /\ ReturnUnwoken(t)

Next == \E t \in Threads : Step(t) \/ Call(t) \/ Stray(t)

Spec == Init /\ [][Next]_vars

FairSpec == Spec /\ \A t \in Threads : WF_vars(Step(t))

-----------------------------------------------------------------------------
(* Properties                                                              *)

\* At most one thread is between an acquisition that returned and its release,
\* whichever of acquire and acquire_if_free gave it the mutex.
MutualExclusion ==
  \A s, t \in Threads : depth[s] > 0 /\ depth[t] > 0 => s = t

\* The assertion of release (threading.cpp:112): the thread that releases finds
\* its own id in the lock word.
ReleaseFindsOwnId == Running

\* A Mutex implements the abstract lock: ownership never passes directly from
\* one thread to another.
AbstractLock == INSTANCE Lock WITH inside <- {t \in Threads : depth[t] > 0}
ImplementsLock == AbstractLock!LockSpec

InLoop(t) == pc[t] \in {"cas", "backoff", "parked"}

\* No wait is lost: while the mutex is free, a thread in acquire or
\* wait_until_free comes out of its loop or somebody else takes the mutex.  No
\* release has to wake it, because it never sleeps on anything a release wakes;
\* that takes a mutex that lies where no thread id is the low half of its address.
NoLostWait ==
  \A t \in Threads :
    InLoop(t) /\ held = 0 /\ pointer \notin Ids ~> ~InLoop(t) \/ held # 0

\* The third way to wait named by the comment of threading.cpp:20: a thread
\* that goes on to wait tries again only once the lock word has changed from
\* the value it saw.
WaitsForChange ==
  [][\A t \in Threads :
       pc[t] = "backoff" /\ yield[t] >= MaxYield /\ pc'[t] = "cas"
         => held # res[t]]_vars
=============================================================================
