----------------------------- MODULE AtomicQueue ----------------------------
(***************************************************************************)
(* struct AtomicQueue (include/AxleUtil/utility.h): a ring buffer that     *)
(* doubles when it is full, and a Mutex around every operation.            *)
(*                                                                         *)
(* The mutex is taken for what Mutex.tla shows it to be: acquire returns   *)
(* when it is free, acquire_if_free fails when another thread has it.      *)
(* Inside it every assignment to the queue is a step of its own, so that   *)
(* a thread that got in beside another would find the queue half changed.  *)
(*                                                                         *)
(* Slots are numbered from 0, as in the code.  NoValue stands for what no  *)
(* operation may read: a default constructed or a moved-from element.      *)
(***************************************************************************)
EXTENDS Integers, Sequences, FiniteSets

CONSTANTS
  Threads,
  NoThread,         \* the mutex is free
  Values,
  NoValue,
  InitialCapacity,  \* 8 in the code
  MaxSize           \* bound: elements in the queue and on their way into it

ASSUME AtomicQueueAssumption ==
  /\ NoThread \notin Threads
  /\ NoValue \notin Values
  /\ InitialCapacity \in Nat \ {0}
  /\ MaxSize \in Nat

VARIABLES
  owner,     \* who holds the mutex
  holder,    \* the slots
  start,     \* the slot of the front element
  size,
  capacity,
  item,      \* what each thread pushes, or has popped
  pc

vars == <<owner, holder, start, size, capacity, item, pc>>

PushLocations == {"push", "makeRoom", "grow", "store"}
PopLocations == {"check", "take", "advance", "popped"}

TypeOK ==
  /\ owner \in Threads \union {NoThread}
  /\ capacity \in Nat
  /\ size \in 0..capacity
  /\ start \in Nat
  /\ capacity = 0 \/ start < capacity
  /\ holder \in [0..capacity - 1 -> Values \union {NoValue}]
  /\ item \in [Threads -> Values \union {NoValue}]
  /\ pc \in [Threads -> {"idle", "release"} \union PushLocations \union PopLocations]

Init ==
  /\ owner = NoThread
  /\ holder = [i \in 0..-1 |-> NoValue]
  /\ start = 0
  /\ size = 0
  /\ capacity = 0
  /\ item = [t \in Threads |-> NoValue]
  /\ pc = [t \in Threads |-> "idle"]

Goto(t, from, to) == pc[t] = from /\ pc' = [pc EXCEPT ![t] = to]

PtrIndex(i) == (start + i) % capacity       \* _ptr_index

-----------------------------------------------------------------------------
(* push_back and extend                                                    *)

CallPush(t, v) ==
  /\ size + Cardinality({u \in Threads : pc[u] \in PushLocations}) < MaxSize
  /\ Goto(t, "idle", "push")
  /\ item' = [item EXCEPT ![t] = v]
  /\ UNCHANGED <<owner, holder, start, size, capacity>>

Acquire(t) ==
  /\ owner = NoThread
  /\ owner' = t
  /\ Goto(t, "push", "makeRoom")
  /\ UNCHANGED <<holder, start, size, capacity, item>>

\* The first extend allocates; the others double.
FirstExtend ==
  /\ capacity = 0
  /\ capacity' = InitialCapacity
  /\ holder' = [i \in 0..InitialCapacity - 1 |-> NoValue]
  /\ UNCHANGED start

\* Mutant: the front stays where it was.
DoubleKeepStart ==
  /\ capacity # 0
  /\ capacity' = 2 * capacity
  /\ holder' = [i \in 0..2 * capacity - 1 |->
                  IF i < size THEN holder[PtrIndex(i)] ELSE NoValue]
  /\ UNCHANGED start

\* The loop moves size + 1 elements: the last one is the front again, which by
\* then has been moved from.
Double ==
  /\ capacity # 0
  /\ capacity' = 2 * capacity
  /\ holder' = [i \in 0..2 * capacity - 1 |->
                  IF i < size THEN holder[PtrIndex(i)] ELSE NoValue]
  /\ start' = 0

MakeRoom(t) ==
  /\ Goto(t, "makeRoom", "grow")
  /\ \/ size = capacity /\ (FirstExtend \/ Double)
     \/ size # capacity /\ UNCHANGED <<capacity, holder, start>>
  /\ UNCHANGED <<owner, size, item>>

Grow(t) ==
  /\ Goto(t, "grow", "store")
  /\ size' = size + 1
  /\ UNCHANGED <<owner, holder, start, capacity, item>>

Store(t) ==
  /\ Goto(t, "store", "release")
  /\ holder' = [holder EXCEPT ![PtrIndex(size - 1)] = item[t]]
  /\ item' = [item EXCEPT ![t] = NoValue]
  /\ UNCHANGED <<owner, start, size, capacity>>

-----------------------------------------------------------------------------
(* try_pop_front                                                           *)

\* Mutant: the result of acquire_if_free is not looked at.
TryAcquireUnchecked(t) ==
  /\ owner' = IF owner = NoThread THEN t ELSE owner
  /\ Goto(t, "idle", "check")
  /\ UNCHANGED <<holder, start, size, capacity, item>>

\* A try that finds another thread in the mutex returns false and changes nothing.
TryAcquire(t) ==
  /\ owner = NoThread
  /\ owner' = t
  /\ Goto(t, "idle", "check")
  /\ UNCHANGED <<holder, start, size, capacity, item>>

FindEmpty(t) ==
  /\ size = 0
  /\ Goto(t, "check", "release")
  /\ UNCHANGED <<owner, holder, start, size, capacity, item>>

Shrink(t) ==
  /\ size # 0
  /\ Goto(t, "check", "take")
  /\ size' = size - 1
  /\ UNCHANGED <<owner, holder, start, capacity, item>>

Take(t) ==
  /\ Goto(t, "take", "advance")
  /\ item' = [item EXCEPT ![t] = holder[start]]
  /\ holder' = [holder EXCEPT ![start] = NoValue]
  /\ UNCHANGED <<owner, start, size, capacity>>

\* Mutant: the front runs past the last slot.
AdvanceUnwrapped(t) ==
  /\ Goto(t, "advance", "popped")
  /\ start' = start + 1
  /\ UNCHANGED <<owner, holder, size, capacity, item>>

Advance(t) ==
  /\ Goto(t, "advance", "popped")
  /\ start' = (start + 1) % capacity
  /\ UNCHANGED <<owner, holder, size, capacity, item>>

-----------------------------------------------------------------------------
Release(t) ==
  /\ pc[t] \in {"release", "popped"}
  /\ pc' = [pc EXCEPT ![t] = "idle"]
  /\ owner' = NoThread
  /\ item' = [item EXCEPT ![t] = NoValue]
  /\ UNCHANGED <<holder, start, size, capacity>>

Next ==
  \E t \in Threads :
    \/ \E v \in Values : CallPush(t, v)
    \/ Acquire(t) \/ MakeRoom(t) \/ Grow(t) \/ Store(t)
    \/ TryAcquire(t) \/ FindEmpty(t) \/ Shrink(t) \/ Take(t) \/ Advance(t)
    \/ Release(t)

Spec == Init /\ [][Next]_vars

-----------------------------------------------------------------------------
(* Properties                                                              *)

At(loc) == \E t \in Threads : pc[t] = loc

\* The elements of n slots from the one that is i behind the front.
Elements(i, n) == [k \in 1..n |-> holder[PtrIndex(i + k - 1)]]

\* The elements in the queue, while an operation is half done too: a push adds
\* its element when it stores it, a pop removes one when it takes it.
Contents ==
  CASE At("take") -> Elements(0, size + 1)
    [] At("advance") -> Elements(1, size)
    [] At("store") -> Elements(0, size - 1)
    [] OTHER -> Elements(0, size)

\* An AtomicQueue implements the abstract queue: every element pushed is popped
\* once, in order, across wrap-around and growth, whichever threads do it.
AbstractQueue ==
  INSTANCE Fifo WITH
    queue <- Contents,
    taken <- [t \in Threads |-> IF pc[t] \in {"advance", "popped"} THEN item[t] ELSE NoValue]
ImplementsFifo == AbstractQueue!FifoSpec

\* While no operation is under way, the slots that hold an element are exactly
\* those from start on: nothing is left behind that free would miss, nothing
\* moved-from is left in front of a pop.
LiveSlots ==
  owner = NoThread =>
    {i \in 0..capacity - 1 : holder[i] # NoValue} = {PtrIndex(k) : k \in 0..size - 1}
=============================================================================
