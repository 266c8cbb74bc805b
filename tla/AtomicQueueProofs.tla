-------------------------- MODULE AtomicQueueProofs -------------------------
(***************************************************************************)
(* Proofs about AtomicQueue, for any set of threads, any values, any size  *)
(* of the first buffer and any number of elements.                         *)
(***************************************************************************)
EXTENDS AtomicQueue, SequenceTheorems, TLAPS

Inside(t) == pc[t] \notin {"idle", "push"}

\* The thread that has the mutex is the one inside.
OneInside == \A t \in Threads : Inside(t) <=> owner = t

\* What a thread has found out, or done, by the time it is at a place.
Staged ==
  \A t \in Threads :
    /\ pc[t] = "grow" => size < capacity
    /\ pc[t] = "store" => size > 0
    /\ pc[t] \in {"take", "advance"} => size < capacity
    /\ pc[t] \in PushLocations => item[t] \in Values

\* The slots in use, counted from the front: from First on, Count of them.
First == IF At("advance") THEN 1 ELSE 0
Count == IF At("take") THEN size + 1 ELSE IF At("store") THEN size - 1 ELSE size

\* How far behind the front a slot is.
Offset(i) == IF i >= start THEN i - start ELSE i - start + capacity

Filled == \A i \in 0..capacity - 1 : holder[i] # NoValue <=> Offset(i) \in First..First + Count - 1

IInv == TypeOK /\ (capacity = 0 => start = 0) /\ OneInside /\ Staged /\ Filled

-----------------------------------------------------------------------------
\* _ptr_index goes round once.
LEMMA Wrap ==
  ASSUME NEW c \in Nat \ {0}, NEW s \in 0..c - 1, NEW k \in 0..c
  PROVE  (s + k) % c = IF s + k < c THEN s + k ELSE s + k - c
BY SMT

\* _ptr_index, without the modulo, and the one slot that is k behind the front.
LEMMA Place ==
  ASSUME TypeOK, capacity # 0, NEW k \in 0..capacity
  PROVE  /\ PtrIndex(k) = IF start + k < capacity THEN start + k ELSE start + k - capacity
         /\ PtrIndex(k) \in 0..capacity - 1
         /\ k < capacity => \A i \in 0..capacity - 1 : Offset(i) = k <=> i = PtrIndex(k)
<1>1. capacity \in Nat \ {0} /\ start \in 0..capacity - 1
  BY DEF TypeOK
<1>2. PtrIndex(k) = IF start + k < capacity THEN start + k ELSE start + k - capacity
  BY <1>1, Wrap DEF PtrIndex
<1> QED
  BY <1>1, <1>2 DEF Offset

\* While a thread has the mutex, a place inside is where that thread is.
LEMMA OwnerAt ==
  ASSUME OneInside, NEW t \in Threads, Inside(t), NEW loc \in {"store", "take", "advance"}
  PROVE  At(loc) <=> pc[t] = loc
BY DEF OneInside, Inside, At

\* While no thread has it, nobody is at such a place.
LEMMA NobodyAt ==
  ASSUME OneInside, owner = NoThread, NEW loc \in {"store", "take", "advance"}
  PROVE  ~At(loc)
BY AtomicQueueAssumption DEF OneInside, Inside, At

\* A step of one thread.
Step(t) ==
  \/ \E v \in Values : CallPush(t, v)
  \/ Acquire(t) \/ MakeRoom(t) \/ Grow(t) \/ Store(t)
  \/ TryAcquire(t) \/ FindEmpty(t) \/ Shrink(t) \/ Take(t) \/ Advance(t)
  \/ Release(t)

-----------------------------------------------------------------------------
\* Ownership passes through a free mutex only.
LEMMA StepOneInside ==
  ASSUME TypeOK, OneInside, NEW t \in Threads, Step(t)
  PROVE  OneInside'
<1> USE AtomicQueueAssumption DEF TypeOK, OneInside, Inside, Goto, PushLocations, PopLocations
<1>1. CASE \E v \in Values : CallPush(t, v)
  BY <1>1 DEF CallPush
<1>2. CASE Acquire(t) \/ TryAcquire(t)
  BY <1>2 DEF Acquire, TryAcquire
<1>3. CASE MakeRoom(t) \/ Grow(t) \/ Store(t)
  BY <1>3 DEF MakeRoom, Grow, Store
<1>4. CASE FindEmpty(t) \/ Shrink(t) \/ Take(t) \/ Advance(t)
  BY <1>4 DEF FindEmpty, Shrink, Take, Advance
<1>5. CASE Release(t)
  BY <1>5 DEF Release
<1> QED
  BY <1>1, <1>2, <1>3, <1>4, <1>5 DEF Step

\* The members keep their ranges: the front stays below the capacity, and the size never
\* passes it.
LEMMA StepTyped ==
  ASSUME IInv, NEW t \in Threads, Step(t)
  PROVE  TypeOK' /\ (capacity' = 0 => start' = 0)
<1> USE AtomicQueueAssumption DEF IInv, TypeOK, Goto, PushLocations, PopLocations, Staged
<1>1. CASE \E v \in Values : CallPush(t, v)
  BY <1>1 DEF CallPush
<1>2. CASE Acquire(t) \/ TryAcquire(t)
  BY <1>2 DEF Acquire, TryAcquire
<1>3. CASE MakeRoom(t)
  <2>1. CASE size # capacity
    BY <1>3, <2>1 DEF MakeRoom, FirstExtend, Double
  <2>2. CASE size = capacity /\ FirstExtend
    BY <1>3, <2>2 DEF MakeRoom, FirstExtend
  <2>3. CASE size = capacity /\ Double
    <3>1. \A i \in 0..size - 1 : PtrIndex(i) \in 0..capacity - 1
      BY <2>3, Wrap DEF Double, PtrIndex
    <3>2. holder' \in [0..capacity' - 1 -> Values \union {NoValue}]
      BY <2>3, <3>1 DEF Double
    <3> QED
      BY <1>3, <2>3, <3>2 DEF MakeRoom, Double
  <2> QED
    BY <1>3, <2>1, <2>2, <2>3 DEF MakeRoom
<1>4. CASE Grow(t)
  BY <1>4 DEF Grow
<1>5. CASE Store(t)
  BY <1>5 DEF Store
<1>6. CASE FindEmpty(t) \/ Shrink(t)
  BY <1>6 DEF FindEmpty, Shrink
<1>7. CASE Take(t)
  BY <1>7 DEF Take
<1>8. CASE Advance(t)
  <2>1. (start + 1) % capacity \in 0..capacity - 1
    BY <1>8, Wrap DEF Advance
  <2> QED
    BY <1>8, <2>1 DEF Advance
<1>9. CASE Release(t)
  BY <1>9 DEF Release
<1> QED
  BY <1>1, <1>2, <1>3, <1>4, <1>5, <1>6, <1>7, <1>8, <1>9 DEF Step

\* No thread changes what another, inside or on its way, has found out.
LEMMA StepStaged ==
  ASSUME IInv, NEW t \in Threads, Step(t)
  PROVE  Staged'
<1> USE AtomicQueueAssumption DEF IInv, TypeOK, OneInside, Inside, Goto, PushLocations, PopLocations, Staged
<1>1. CASE \E v \in Values : CallPush(t, v)
  BY <1>1 DEF CallPush
<1>2. CASE Acquire(t) \/ TryAcquire(t)
  BY <1>2 DEF Acquire, TryAcquire
<1>3. CASE MakeRoom(t)
  BY <1>3 DEF MakeRoom, FirstExtend, Double
<1>4. CASE Grow(t) \/ Store(t)
  BY <1>4 DEF Grow, Store
<1>5. CASE FindEmpty(t) \/ Shrink(t) \/ Take(t) \/ Advance(t)
  BY <1>5 DEF FindEmpty, Shrink, Take, Advance
<1>6. CASE Release(t)
  BY <1>6 DEF Release
<1> QED
  BY <1>1, <1>2, <1>3, <1>4, <1>5, <1>6 DEF Step

\* The same after a step.
LEMMA OwnerAtAfter ==
  ASSUME OneInside', NEW t \in Threads, Inside(t)', NEW loc \in {"store", "take", "advance"}
  PROVE  At(loc)' <=> pc'[t] = loc
BY DEF OneInside, Inside, At

\* The steps that go in, find the queue empty or leave keep the slots as they are.
LEMMA OutsideStep ==
  ASSUME TypeOK, NEW t \in Threads,
         \/ \E v \in Values : CallPush(t, v)
         \/ Acquire(t) \/ TryAcquire(t) \/ FindEmpty(t) \/ Release(t)
  PROVE  /\ UNCHANGED <<holder, start, size, capacity>>
         /\ \A loc \in {"store", "take", "advance"} : At(loc)' <=> At(loc)
<1>1. UNCHANGED <<holder, start, size, capacity>>
  BY DEF CallPush, Acquire, TryAcquire, FindEmpty, Release
<1>2. ASSUME NEW loc \in {"store", "take", "advance"}, NEW u \in Threads
      PROVE  pc'[u] = loc <=> pc[u] = loc
  BY DEF TypeOK, Goto, PushLocations, PopLocations, CallPush, Acquire, TryAcquire, FindEmpty, Release
<1> QED
  BY <1>1, <1>2 DEF At

\* What is in use moves with the step that moves it: a slot is filled when, and only when,
\* it is one of Count slots from the one First behind the front.
LEMMA StepFilled ==
  ASSUME IInv, TypeOK', OneInside', NEW t \in Threads, Step(t)
  PROVE  Filled'
<1> USE AtomicQueueAssumption DEF IInv, TypeOK, Goto, PushLocations, PopLocations
<1>1. CASE \/ \E v \in Values : CallPush(t, v)
           \/ Acquire(t) \/ TryAcquire(t) \/ FindEmpty(t) \/ Release(t)
  <2>1. \A loc \in {"store", "take", "advance"} : At(loc)' <=> At(loc)
    BY <1>1, OutsideStep
  <2>2. UNCHANGED <<holder, start, size, capacity>>
    BY <1>1, OutsideStep
  <2>3. First' = First /\ Count' = Count
    BY <2>1, <2>2 DEF First, Count
  <2> QED
    BY <2>2, <2>3 DEF Filled, Offset
<1>2. CASE MakeRoom(t) \/ Grow(t) \/ Store(t) \/ Shrink(t) \/ Take(t) \/ Advance(t)
  <2>0. Inside(t) /\ Inside(t)'
    BY <1>2 DEF Inside, MakeRoom, Grow, Store, Shrink, Take, Advance
  <2>1. \A loc \in {"store", "take", "advance"} : At(loc) <=> pc[t] = loc
    BY <2>0, OwnerAt
  <2>2. \A loc \in {"store", "take", "advance"} : At(loc)' <=> pc'[t] = loc
    BY <2>0, OwnerAtAfter
  <2>3. CASE MakeRoom(t)
    <3>1. First = 0 /\ Count = size /\ First' = 0 /\ Count' = size'
      BY <2>1, <2>2, <2>3 DEF MakeRoom, First, Count
    <3>2. CASE UNCHANGED <<capacity, holder, start>>
      BY <2>3, <3>1, <3>2 DEF MakeRoom, Filled, Offset
    <3>3. CASE size = capacity /\ FirstExtend
      BY <2>3, <3>1, <3>3 DEF MakeRoom, FirstExtend, Filled, Offset
    <3>4. CASE size = capacity /\ Double
      <4>1. \A i \in 0..size - 1 : PtrIndex(i) \in 0..capacity - 1 /\ Offset(PtrIndex(i)) = i
        BY <3>4, Place DEF Double
      <4>2. \A i \in 0..size - 1 : holder[PtrIndex(i)] # NoValue
        BY <3>1, <4>1 DEF Filled
      <4>3. \A i \in 0..capacity' - 1 : holder'[i] # NoValue <=> i < size
        BY <3>4, <4>2 DEF Double
      <4> QED
        BY <2>3, <3>1, <3>4, <4>3 DEF MakeRoom, Double, Filled, Offset
    <3> QED
      BY <2>3, <3>2, <3>3, <3>4 DEF MakeRoom
  <2>4. CASE Grow(t)
    <3>1. First = 0 /\ Count = size /\ First' = 0 /\ Count' = size
      BY <2>1, <2>2, <2>4 DEF Grow, First, Count
    <3> QED
      BY <2>4, <3>1 DEF Grow, Filled, Offset
  <2>5. CASE Store(t)
    <3>1. First = 0 /\ Count = size - 1 /\ First' = 0 /\ Count' = size
      BY <2>1, <2>2, <2>5 DEF Store, First, Count
    <3>2. size > 0 /\ capacity # 0 /\ size - 1 \in 0..capacity - 1 /\ item[t] \in Values
      BY <2>5 DEF Store, Staged
    <3>4. \A i \in 0..capacity - 1 : Offset(i) = size - 1 <=> i = PtrIndex(size - 1)
      BY <3>2, Place
    <3>5. \A i \in 0..capacity - 1 :
             holder'[i] # NoValue <=> holder[i] # NoValue \/ i = PtrIndex(size - 1)
      BY <2>5, <3>2 DEF Store
    <3>6. \A i \in 0..capacity - 1 : Offset(i)' = Offset(i) /\ Offset(i) \in Nat
      BY <2>5 DEF Store, Offset
    <3> QED
      BY <2>5, <3>1, <3>2, <3>4, <3>5, <3>6 DEF Store, Filled
  <2>6. CASE Shrink(t)
    <3>1. First = 0 /\ Count = size /\ First' = 0 /\ Count' = size
      BY <2>1, <2>2, <2>6 DEF Shrink, First, Count
    <3> QED
      BY <2>6, <3>1 DEF Shrink, Filled, Offset
  <2>7. CASE Take(t)
    <3>1. First = 0 /\ Count = size + 1 /\ First' = 1 /\ Count' = size
      BY <2>1, <2>2, <2>7 DEF Take, First, Count
    <3>2. \A i \in 0..capacity - 1 : holder'[i] # NoValue <=> holder[i] # NoValue /\ i # start
      BY <2>7 DEF Take
    <3>3. \A i \in 0..capacity - 1 :
             Offset(i) \in Nat /\ (Offset(i) = 0 <=> i = start) /\ Offset(i)' = Offset(i)
      BY <2>7 DEF Take, Offset
    <3> QED
      BY <2>7, <3>1, <3>2, <3>3 DEF Take, Filled
  <2>8. CASE Advance(t)
    <3>1. First = 1 /\ Count = size /\ First' = 0 /\ Count' = size
      BY <2>1, <2>2, <2>8 DEF Advance, First, Count
    <3>2. size < capacity /\ capacity # 0 /\ 1 \in 0..capacity
      BY <2>8 DEF Advance, Staged
    <3>3. start' = IF start + 1 < capacity THEN start + 1 ELSE start + 1 - capacity
      <4>1. start' = PtrIndex(1)
        BY <2>8 DEF Advance, PtrIndex
      <4> QED
        BY <3>2, <4>1, Place
    <3>4. \A i \in 0..capacity - 1 : Offset(i) \in 1..size <=> Offset(i)' \in 0..size - 1
      BY <2>8, <3>2, <3>3 DEF Advance, Offset
    <3>5. capacity' = capacity /\ holder' = holder
      BY <2>8 DEF Advance
    <3> QED
      BY <3>1, <3>4, <3>5 DEF Filled
  <2> QED
    BY <1>2, <2>3, <2>4, <2>5, <2>6, <2>7, <2>8
<1> QED
  BY <1>1, <1>2 DEF Step

-----------------------------------------------------------------------------
\* IInv is inductive.
LEMMA Initially == Init => IInv
BY AtomicQueueAssumption
   DEF Init, IInv, TypeOK, OneInside, Inside, Staged, Filled, PushLocations, PopLocations

\* Every step keeps the invariant.
LEMMA Inductive == IInv /\ [Next]_vars => IInv'
<1> SUFFICES ASSUME IInv, [Next]_vars PROVE IInv'
  OBVIOUS
<1>1. CASE UNCHANGED vars
  BY <1>1 DEF vars, IInv, TypeOK, OneInside, Inside, Staged, Filled, First, Count, Offset, At
<1>2. ASSUME NEW t \in Threads, Step(t) PROVE IInv'
  <2>1. TypeOK' /\ (capacity' = 0 => start' = 0)
    BY <1>2, StepTyped
  <2>2. OneInside'
    BY <1>2, StepOneInside DEF IInv
  <2>3. Staged'
    BY <1>2, StepStaged
  <2>4. Filled'
    BY <1>2, <2>1, <2>2, StepFilled
  <2> QED
    BY <2>1, <2>2, <2>3, <2>4 DEF IInv
<1> QED
  BY <1>1, <1>2 DEF Next, Step

\* So it always holds.
LEMMA Invariance == Spec => []IInv
<1> QED
  BY Initially, Inductive, PTL DEF Spec

-----------------------------------------------------------------------------
\* The members keep their types and ranges whatever the threads do: size never passes the
\* capacity, and start stays a slot of the buffer (push_back, extend, try_pop_front).
THEOREM TypeCorrect == Spec => []TypeOK
<1>1. IInv => TypeOK
  BY DEF IInv
<1> QED
  BY <1>1, Invariance, PTL

\* While no thread is inside, the slots that hold an element are the size slots from start
\* on, round the end of the buffer: what free and try_pop_front rely on.
THEOREM SlotsInUse == Spec => []LiveSlots
<1>1. IInv => LiveSlots
  <2> SUFFICES ASSUME IInv, owner = NoThread
               PROVE  {i \in 0..capacity - 1 : holder[i] # NoValue} = {PtrIndex(k) : k \in 0..size - 1}
    BY DEF LiveSlots
  <2>1. First = 0 /\ Count = size
    BY NobodyAt DEF IInv, First, Count
  <2>2. \A i \in 0..capacity - 1 : holder[i] # NoValue <=> Offset(i) \in 0..size - 1
    BY <2>1 DEF IInv, TypeOK, Filled
  <2>3. ASSUME NEW k \in 0..size - 1
        PROVE  PtrIndex(k) \in 0..capacity - 1 /\ holder[PtrIndex(k)] # NoValue
    <3>1. capacity # 0 /\ k \in 0..capacity /\ k < capacity
      BY DEF IInv, TypeOK
    <3> QED
      BY <2>2, <3>1, Place DEF IInv
  <2>4. ASSUME NEW i \in 0..capacity - 1, holder[i] # NoValue
        PROVE  \E k \in 0..size - 1 : i = PtrIndex(k)
    <3>1. /\ capacity # 0
          /\ Offset(i) \in 0..size - 1 /\ Offset(i) \in 0..capacity /\ Offset(i) < capacity
      BY <2>2, <2>4 DEF IInv, TypeOK
    <3> QED
      BY <3>1, Place DEF IInv
  <2> QED
    BY <2>3, <2>4
<1> QED
  BY <1>1, Invariance, PTL

-----------------------------------------------------------------------------
(* The refinement                                                          *)

\* What Append, Head and Tail do to sequences given by their elements.
LEMMA Appended ==
  ASSUME NEW S, NEW n \in Nat, NEW f \in [1..n -> S], NEW e \in S, NEW g \in [1..n + 1 -> S],
         g[n + 1] = e, \A k \in 1..n : g[k] = f[k]
  PROVE  g = Append(f, e)
<1>1. f \in Seq(S) /\ Len(f) = n /\ g \in Seq(S) /\ Len(g) = n + 1
  BY SMT
<1>2. /\ Append(f, e) \in Seq(S) /\ Len(Append(f, e)) = n + 1
      /\ Append(f, e)[n + 1] = e /\ \A k \in 1..n : Append(f, e)[k] = f[k]
  BY <1>1, AppendProperties
<1> QED
  BY <1>1, <1>2, SeqEqual

\* A sequence without its first element.
LEMMA Tailed ==
  ASSUME NEW S, NEW n \in Nat, NEW f \in [1..n + 1 -> S], NEW g \in [1..n -> S],
         \A k \in 1..n : g[k] = f[k + 1]
  PROVE  f # <<>> /\ Head(f) = f[1] /\ g = Tail(f)
<1>1. f \in Seq(S) /\ Len(f) = n + 1 /\ g \in Seq(S) /\ Len(g) = n
  BY SMT
<1>2. /\ f # <<>> /\ Head(f) = f[1]
      /\ Tail(f) \in Seq(S) /\ Len(Tail(f)) = n /\ \A k \in 1..n : Tail(f)[k] = f[k + 1]
  BY <1>1, HeadTailProperties, EmptySeq
<1> QED
  BY <1>1, <1>2, SeqEqual

\* The abstract variable taken.
Taken == [t \in Threads |-> IF pc[t] \in {"advance", "popped"} THEN item[t] ELSE NoValue]

\* The contents of n slots, from the one i behind slot b, in a ring h of c slots.
Slot(b, c, k) == IF b + k < c THEN b + k ELSE b + k - c
Ring(h, b, c, i, n) == [k \in 1..n |-> h[Slot(b, c, i + k - 1)]]


\* The abstract queue is the slots in use.
LEMMA ContentsInUse ==
  IInv => Contents = Ring(holder, start, capacity, First, Count)
<1> SUFFICES ASSUME IInv PROVE Contents = Ring(holder, start, capacity, First, Count)
  OBVIOUS
<1> USE AtomicQueueAssumption DEF IInv
<1>1. \A a, b \in {"store", "take", "advance"} : At(a) /\ At(b) => a = b
  BY DEF OneInside, Inside, At
<1>2. Contents = Elements(First, Count)
  BY <1>1 DEF Contents, First, Count
<1>3. First \in 0..1 /\ Count \in Nat /\ First + Count <= capacity
  <2>1. /\ At("store") => size > 0
        /\ At("take") \/ At("advance") => size < capacity
    BY DEF Staged, At
  <2> QED
    BY <1>1, <2>1 DEF TypeOK, First, Count
<1>4. ASSUME NEW k \in 1..Count
      PROVE  PtrIndex(First + k - 1) = Slot(start, capacity, First + k - 1)
  <2>1. capacity # 0 /\ First + k - 1 \in 0..capacity
    BY <1>3 DEF TypeOK
  <2> QED
    BY <2>1, Place DEF Slot
<1> QED
  BY <1>2, <1>4 DEF Elements, Ring

\* The same after a step.
LEMMA ContentsInUseAfter ==
  IInv' => (Contents = Ring(holder, start, capacity, First, Count))'
BY ContentsInUse, PTL

\* The step that stores pushes, the step that takes pops, the release of a pop that
\* succeeded returns its element; every other step is one of the mutex or of the layout of
\* the buffer.
LEMMA StepRefines ==
  ASSUME IInv, IInv', NEW t \in Threads, Step(t)
  PROVE  \/ Contents' = Contents /\ Taken' = Taken
         \/ \E v \in Values : Contents' = Append(Contents, v) /\ Taken' = Taken
         \/ /\ Contents # <<>> /\ Taken[t] = NoValue
            /\ Taken' = [Taken EXCEPT ![t] = Head(Contents)] /\ Contents' = Tail(Contents)
         \/ Contents' = Contents /\ Taken' = [Taken EXCEPT ![t] = NoValue]
<1> USE AtomicQueueAssumption DEF IInv, TypeOK, Goto, PushLocations, PopLocations
<1>0. /\ Contents = Ring(holder, start, capacity, First, Count)
      /\ Contents' = Ring(holder', start', capacity', First', Count')
  BY ContentsInUse, ContentsInUseAfter
<1>1. CASE \/ \E v \in Values : CallPush(t, v)
           \/ Acquire(t) \/ TryAcquire(t) \/ FindEmpty(t) \/ Release(t)
  <2>1. \A loc \in {"store", "take", "advance"} : At(loc)' <=> At(loc)
    BY <1>1, OutsideStep
  <2>2. UNCHANGED <<holder, start, size, capacity>>
    BY <1>1, OutsideStep
  <2>3. Contents' = Contents
    BY <1>0, <2>1, <2>2 DEF First, Count
  <2>4. Taken' = Taken \/ Taken' = [Taken EXCEPT ![t] = NoValue]
    <3>1. CASE pc[t] = "popped" /\ Release(t)
      BY <3>1 DEF Taken, Release
    <3>2. CASE ~(pc[t] = "popped" /\ Release(t))
      BY <1>1, <3>2 DEF Taken, CallPush, Acquire, TryAcquire, FindEmpty, Release
    <3> QED
      BY <3>1, <3>2
  <2> QED
    BY <2>3, <2>4
<1>2. CASE MakeRoom(t) \/ Grow(t) \/ Store(t) \/ Shrink(t) \/ Take(t) \/ Advance(t)
  <2>0. Inside(t) /\ Inside(t)'
    BY <1>2 DEF Inside, MakeRoom, Grow, Store, Shrink, Take, Advance
  <2>1. \A loc \in {"store", "take", "advance"} : At(loc) <=> pc[t] = loc
    BY <2>0, OwnerAt
  <2>2. \A loc \in {"store", "take", "advance"} : At(loc)' <=> pc'[t] = loc
    BY <2>0, OwnerAtAfter
  <2>3. CASE MakeRoom(t)
    <3>1. /\ Contents = Ring(holder, start, capacity, 0, size)
          /\ Contents' = Ring(holder', start', capacity', 0, size)
      BY <1>0, <2>1, <2>2, <2>3 DEF MakeRoom, First, Count
    <3>2. Taken' = Taken
      BY <2>3 DEF MakeRoom, Taken
    <3>3. CASE UNCHANGED <<capacity, holder, start>>
      BY <3>1, <3>2, <3>3
    <3>4. CASE size = capacity /\ FirstExtend
      BY <3>1, <3>2, <3>4 DEF FirstExtend, Ring
    <3>5. CASE size = capacity /\ Double
      <4>1. \A k \in 1..size : Slot(start', capacity', 0 + k - 1) = k - 1
        BY <3>5 DEF Double, Slot
      <4>2. \A k \in 1..size : holder'[k - 1] = holder[PtrIndex(k - 1)]
        BY <3>5 DEF Double
      <4>3. \A k \in 1..size : PtrIndex(k - 1) = Slot(start, capacity, 0 + k - 1)
        BY <3>5, Place DEF Double, Slot
      <4>4. \A k \in 1..size :
               holder'[Slot(start', capacity', 0 + k - 1)] = holder[Slot(start, capacity, 0 + k - 1)]
        BY <4>1, <4>2, <4>3
      <4> QED
        BY <3>1, <3>2, <4>4 DEF Ring
    <3> QED
      BY <2>3, <3>3, <3>4, <3>5 DEF MakeRoom
  <2>4. CASE Grow(t) \/ Shrink(t)
    <3>1. First' = First /\ UNCHANGED <<holder, start, capacity, item>>
      BY <2>1, <2>2, <2>4 DEF Grow, Shrink, First
    <3>2. ASSUME Grow(t) PROVE Count' = Count
      BY <2>1, <2>2, <3>2 DEF Grow, Count
    <3>3. ASSUME Shrink(t) PROVE Count' = Count
      BY <2>1, <2>2, <3>3 DEF Shrink, Count
    <3>4. Count' = Count
      BY <2>4, <3>2, <3>3
    <3>5. Taken' = Taken
      BY <2>4 DEF Grow, Shrink, Taken
    <3> QED
      BY <1>0, <3>1, <3>4, <3>5
  <2>5. CASE Store(t)
    <3>1. /\ Contents = Ring(holder, start, capacity, 0, size - 1)
          /\ Contents' = Ring(holder', start, capacity, 0, size)
      BY <1>0, <2>1, <2>2, <2>5 DEF Store, First, Count
    <3>2. size > 0 /\ capacity # 0 /\ item[t] \in Values /\ size - 1 \in 0..capacity
      BY <2>5 DEF Store, Staged
    <3>3. PtrIndex(size - 1) = Slot(start, capacity, size - 1)
      BY <3>2, Place DEF Slot
    <3>4. \A k \in 1..size : Slot(start, capacity, 0 + k - 1) \in 0..capacity - 1
      BY <3>2 DEF Slot
    <3>5. \A k \in 1..size - 1 : Slot(start, capacity, 0 + k - 1) # Slot(start, capacity, size - 1)
      BY <3>2 DEF Slot
    <3>6. \A k \in 1..size - 1 :
             holder'[Slot(start, capacity, 0 + k - 1)] = holder[Slot(start, capacity, 0 + k - 1)]
      BY <2>5, <3>3, <3>4, <3>5 DEF Store
    <3>7. holder'[Slot(start, capacity, 0 + size - 1)] = item[t]
      BY <2>5, <3>2, <3>3, <3>4 DEF Store
    <3>8. Contents \in [1..size - 1 -> Values \union {NoValue}]
      BY <3>1, <3>2, <3>4 DEF Ring
    <3>9. Contents' \in [1..size - 1 + 1 -> Values \union {NoValue}]
      BY <2>5, <3>1, <3>2, <3>4 DEF Store, Ring
    <3>10. Contents'[size - 1 + 1] = item[t] /\ \A k \in 1..size - 1 : Contents'[k] = Contents[k]
      BY <3>1, <3>2, <3>6, <3>7 DEF Ring
    <3>11. Contents' = Append(Contents, item[t])
      BY <3>2, <3>8, <3>9, <3>10, Appended
    <3>12. Taken' = Taken
      BY <2>5 DEF Store, Taken
    <3> QED
      BY <3>2, <3>11, <3>12
  <2>6. CASE Take(t)
    <3>1. /\ Contents = Ring(holder, start, capacity, 0, size + 1)
          /\ Contents' = Ring(holder', start, capacity, 1, size)
      BY <1>0, <2>1, <2>2, <2>6 DEF Take, First, Count
    <3>2. size < capacity /\ capacity # 0
      BY <2>6 DEF Take, Staged
    <3>3. \A k \in 0..size : Slot(start, capacity, k) \in 0..capacity - 1
      BY <3>2 DEF Slot
    <3>4. Slot(start, capacity, 0) = start /\ \A k \in 1..size : Slot(start, capacity, k) # start
      BY <3>2 DEF Slot
    <3>5. \A k \in 1..size : holder'[Slot(start, capacity, k)] = holder[Slot(start, capacity, k)]
      BY <2>6, <3>3, <3>4 DEF Take
    <3>6. Contents \in [1..size + 1 -> Values \union {NoValue}] /\ Contents[1] = holder[start]
      BY <3>1, <3>3, <3>4 DEF Ring
    <3>7. Contents' \in [1..size -> Values \union {NoValue}]
      BY <2>6, <3>1, <3>3, <3>5 DEF Take, Ring
    <3>8. \A k \in 1..size : Contents'[k] = Contents[k + 1]
      BY <3>1, <3>5 DEF Ring
    <3>9. Contents # <<>> /\ Head(Contents) = holder[start] /\ Contents' = Tail(Contents)
      BY <3>6, <3>7, <3>8, Tailed
    <3>10. Taken[t] = NoValue /\ Taken' = [Taken EXCEPT ![t] = holder[start]]
      BY <2>6 DEF Take, Taken
    <3> QED
      BY <3>9, <3>10
  <2>7. CASE Advance(t)
    <3>1. /\ Contents = Ring(holder, start, capacity, 1, size)
          /\ Contents' = Ring(holder, start', capacity, 0, size)
      BY <1>0, <2>1, <2>2, <2>7 DEF Advance, First, Count
    <3>2. size < capacity /\ capacity # 0 /\ 1 \in 0..capacity
      BY <2>7 DEF Advance, Staged
    <3>3. start' = PtrIndex(1)
      BY <2>7 DEF Advance, PtrIndex
    <3>4. start' = Slot(start, capacity, 1)
      BY <3>2, <3>3, Place DEF Slot
    <3>5. \A k \in 1..size : Slot(start', capacity, 0 + k - 1) = Slot(start, capacity, 1 + k - 1)
      BY <3>2, <3>4 DEF Slot
    <3>6. Taken' = Taken
      BY <2>7 DEF Advance, Taken
    <3> QED
      BY <3>1, <3>5, <3>6 DEF Ring
  <2> QED
    BY <1>2, <2>3, <2>4, <2>5, <2>6, <2>7
<1> QED
  BY <1>1, <1>2 DEF Step

\* An AtomicQueue is the abstract queue: every element pushed is popped once, in the order
\* of the pushes, for any number of threads and any growth and wrap of the buffer.
THEOREM Refinement == Spec => ImplementsFifo
<1>1. Init => AbstractQueue!FifoInit
  BY DEF Init, AbstractQueue!FifoInit, Contents, At, Elements
<1>2. IInv /\ IInv' /\ [Next]_vars => [AbstractQueue!FifoNext]_<<Contents, Taken>>
  <2> SUFFICES ASSUME IInv, IInv', [Next]_vars
               PROVE  [AbstractQueue!FifoNext]_<<Contents, Taken>>
    OBVIOUS
  <2>1. CASE UNCHANGED vars
    BY <2>1 DEF vars, Contents, Taken, Elements, PtrIndex, At
  <2>2. ASSUME NEW t \in Threads, Step(t)
        PROVE  [AbstractQueue!FifoNext]_<<Contents, Taken>>
    BY <2>2, StepRefines
       DEF Taken, AbstractQueue!FifoNext, AbstractQueue!Push, AbstractQueue!Pop, AbstractQueue!Return
  <2> QED
    BY <2>1, <2>2 DEF Next, Step
<1> QED
  BY Invariance, <1>1, <1>2, PTL
  DEF Spec, ImplementsFifo, AbstractQueue!FifoSpec, AbstractQueue!fifoVars, Taken
=============================================================================
