-------------------------- MODULE WriteMutexProofs --------------------------
(***************************************************************************)
(* Proofs about WriteMutex, for any finite set of readers, any set of      *)
(* writers and any distribution of both over threads.                      *)
(***************************************************************************)
EXTENDS WriteMutex, FiniteSetTheorems, TLAPS

\* A section that writes is the only open one of its thread.
Alone ==
  \A s \in Writes, r \in Sections :
    pc[s] # "idle" /\ pc[r] # "idle" /\ ThreadOf[r] = ThreadOf[s] => r = s

Holds(s) == pc[s] \in {"drain", "writing"}

\* The mutex is held by the thread of the one section that has taken it.
HolderKnown ==
  /\ \A s \in Writes : Holds(s) => held = ThreadOf[s]
  /\ held # NoThread => \E s \in Writes : Holds(s) /\ held = ThreadOf[s]

\* A section that writes has every reader out.
NoReaderInside ==
  \A s \in Writes, r \in Reads : pc[s] = "writing" => pc[r] # "reading"

Typed ==
  /\ held \in Threads \union {NoThread}
  /\ readers \in Nat
  /\ pc \in [Sections -> ReadLocations \union WriteLocations]
  /\ \A s \in Reads : pc[s] \in ReadLocations
  /\ \A s \in Writes : pc[s] \in WriteLocations

IInv == Typed /\ ReadersCounted /\ Alone /\ HolderKnown /\ NoReaderInside

-----------------------------------------------------------------------------
\* A section that comes to be counted raises the count by one.
LEMMA CountUp ==
  ASSUME NEW S, IsFiniteSet(S), NEW x, x \notin S
  PROVE  Cardinality(S \union {x}) = Cardinality(S) + 1
BY FS_AddElement

\* A section that leaves the count lowers it by one.
LEMMA CountDown ==
  ASSUME NEW S, IsFiniteSet(S), NEW x \in S
  PROVE  Cardinality(S \ {x}) = Cardinality(S) - 1
BY FS_RemoveElement

\* The counted sections are finitely many.
LEMMA CountedFinite == IsFiniteSet(Counted) /\ IsFiniteSet(Counted')
<1>1. Counted \subseteq Reads /\ Counted' \subseteq Reads
  BY DEF Counted
<1> QED
  BY <1>1, FS_Subset, WriteMutexAssumption

\* Types are preserved by every step, given that the count is exact.
LEMMA NextTyped == Typed /\ ReadersCounted /\ [Next]_vars => Typed'
<1> SUFFICES ASSUME Typed, ReadersCounted, [Next]_vars
             PROVE  Typed'
  OBVIOUS
<1> USE WriteMutexAssumption DEF Typed, Sections, ReadLocations, WriteLocations, Goto
<1>1. ASSUME NEW s \in Reads, CallAcquireRead(s) \/ EnterRead(s) \/ SeeWriter(s) \/ Retry(s)
      PROVE  Typed'
  BY <1>1 DEF CallAcquireRead, EnterRead, SeeWriter, Retry
<1>2. ASSUME NEW s \in Reads, IncrementReaders(s)
      PROVE  Typed'
  BY <1>2 DEF IncrementReaders
<1>3. ASSUME NEW s \in Reads, Retreat(s) \/ ReleaseRead(s)
      PROVE  Typed'
  <2>1. s \in Counted
    BY <1>3 DEF Retreat, ReleaseRead, Counted
  <2>2. readers # 0
    BY <2>1, CountedFinite, FS_EmptySet DEF ReadersCounted
  <2> QED
    BY <1>3, <2>2 DEF Retreat, ReleaseRead
<1>4. ASSUME NEW s \in Writes, CallAcquireWrite(s) \/ DrainReaders(s) \/ TakeWrite(s) \/ ReleaseWrite(s)
      PROVE  Typed'
  BY <1>4 DEF CallAcquireWrite, DrainReaders, TakeWrite, ReleaseWrite
<1>5. CASE UNCHANGED vars
  BY <1>5 DEF vars
<1> QED
  BY <1>1, <1>2, <1>3, <1>4, <1>5 DEF Next, ReadStep, WriteStep

-----------------------------------------------------------------------------
\* The count stays exact: a section enters Counted with the increment and leaves
\* it with the decrement, and no other step moves it in or out.
LEMMA NextCounted == Typed /\ ReadersCounted /\ [Next]_vars => ReadersCounted'
<1> SUFFICES ASSUME Typed, ReadersCounted, [Next]_vars
             PROVE  ReadersCounted'
  OBVIOUS
<1>0. /\ readers \in Nat
      /\ pc \in [Sections -> ReadLocations \union WriteLocations]
      /\ readers = Cardinality(Counted)
      /\ Reads \subseteq Sections
      /\ \A s \in Writes : s \notin Reads
  BY WriteMutexAssumption DEF Typed, ReadersCounted, Sections
<1>1. ASSUME NEW s \in Reads, IncrementReaders(s)
      PROVE  ReadersCounted'
  <2>1. s \notin Counted /\ Counted' = Counted \union {s}
    BY <1>0, <1>1 DEF IncrementReaders, Goto, Counted
  <2>2. Cardinality(Counted') = Cardinality(Counted) + 1
    BY <2>1, CountedFinite, CountUp
  <2> QED
    BY <1>0, <1>1, <2>2 DEF IncrementReaders, ReadersCounted
<1>2. ASSUME NEW s \in Reads, Retreat(s) \/ ReleaseRead(s)
      PROVE  ReadersCounted'
  <2>1. s \in Counted /\ Counted' = Counted \ {s}
    BY <1>0, <1>2 DEF Retreat, ReleaseRead, Goto, Counted
  <2>2. Cardinality(Counted') = Cardinality(Counted) - 1
    BY <2>1, CountedFinite, CountDown
  <2> QED
    BY <1>0, <1>2, <2>2 DEF Retreat, ReleaseRead, ReadersCounted
<1>3. ASSUME readers' = readers, Counted' = Counted
      PROVE  ReadersCounted'
  BY <1>3 DEF ReadersCounted
<1>4. ASSUME NEW s \in Reads, CallAcquireRead(s) \/ EnterRead(s) \/ SeeWriter(s) \/ Retry(s)
      PROVE  ReadersCounted'
  <2>1. readers' = readers /\ Counted' = Counted
    BY <1>0, <1>4 DEF CallAcquireRead, EnterRead, SeeWriter, Retry, Goto, Counted
  <2> QED
    BY <2>1, <1>3
<1>5. ASSUME NEW s \in Writes,
             CallAcquireWrite(s) \/ TakeWrite(s) \/ DrainReaders(s) \/ ReleaseWrite(s)
      PROVE  ReadersCounted'
  <2>1. readers' = readers /\ Counted' = Counted
    BY <1>0, <1>5 DEF CallAcquireWrite, TakeWrite, DrainReaders, ReleaseWrite, Goto, Counted
  <2> QED
    BY <2>1, <1>3
<1>6. CASE UNCHANGED vars
  BY <1>6, <1>3 DEF vars, Counted
<1> QED
  BY <1>1, <1>2, <1>4, <1>5, <1>6 DEF Next, ReadStep, WriteStep

\* A section that writes stays the only open one of its thread: a section opens
\* beside others of its thread only if all of them read.
LEMMA NextAlone == Typed /\ Alone /\ [Next]_vars => Alone'
<1> SUFFICES ASSUME Typed, Alone, [Next]_vars
             PROVE  Alone'
  OBVIOUS
<1> USE WriteMutexAssumption DEF Typed, Sections, Goto, Alone
<1>1. ASSUME NEW s \in Reads, CallAcquireRead(s)
      PROVE  Alone'
  <2>1. \A w \in Writes : pc[w] # "idle" => ThreadOf[w] # ThreadOf[s]
    BY <1>1 DEF CallAcquireRead, OpenElsewhere, Open
  <2> QED
    BY <1>1, <2>1 DEF CallAcquireRead
<1>2. ASSUME NEW s \in Writes, CallAcquireWrite(s)
      PROVE  Alone'
  <2>1. \A r \in Sections : pc[r] # "idle" => ThreadOf[r] # ThreadOf[s]
    BY <1>2 DEF CallAcquireWrite, OpenElsewhere, Open
  <2> QED
    BY <1>2, <2>1 DEF CallAcquireWrite
<1>3. ASSUME NEW s \in Reads, ReadStep(s) \/ ReleaseRead(s)
      PROVE  Alone'
  BY <1>3 DEF ReadStep, IncrementReaders, EnterRead, SeeWriter, Retreat, Retry, ReleaseRead
<1>4. ASSUME NEW s \in Writes, WriteStep(s) \/ ReleaseWrite(s)
      PROVE  Alone'
  BY <1>4 DEF WriteStep, TakeWrite, DrainReaders, ReleaseWrite
<1>5. CASE UNCHANGED vars
  BY <1>5 DEF vars
<1> QED
  BY <1>1, <1>2, <1>3, <1>4, <1>5 DEF Next

\* The mutex stays with the thread of the one section that took it: a section
\* that finds its own thread in the mutex would not be alone.
LEMMA NextHolder == Typed /\ Alone /\ HolderKnown /\ [Next]_vars => HolderKnown'
<1> SUFFICES ASSUME Typed, Alone, HolderKnown, [Next]_vars
             PROVE  HolderKnown'
  OBVIOUS
<1> USE WriteMutexAssumption DEF Typed, Sections, Goto, Holds, HolderKnown
<1>1. ASSUME NEW s \in Reads, CallAcquireRead(s) \/ ReadStep(s) \/ ReleaseRead(s)
      PROVE  HolderKnown'
  <2>1. held' = held /\ \A w \in Writes : pc'[w] = pc[w]
    BY <1>1 DEF CallAcquireRead, ReadStep, IncrementReaders, EnterRead, SeeWriter,
                Retreat, Retry, ReleaseRead
  <2> QED
    BY <2>1
<1>2. ASSUME NEW s \in Writes, CallAcquireWrite(s)
      PROVE  HolderKnown'
  BY <1>2 DEF CallAcquireWrite
<1>3. ASSUME NEW s \in Writes, TakeWrite(s)
      PROVE  HolderKnown'
  <2>1. held = NoThread
    BY <1>3 DEF TakeWrite, Alone
  <2>2. \A w \in Writes : ~Holds(w)
    BY <2>1
  <2> QED
    BY <1>3, <2>2 DEF TakeWrite
<1>4. ASSUME NEW s \in Writes, DrainReaders(s)
      PROVE  HolderKnown'
  BY <1>4 DEF DrainReaders
<1>5. ASSUME NEW s \in Writes, ReleaseWrite(s)
      PROVE  HolderKnown'
  <2>1. \A w \in Writes : w # s => ~Holds(w)
    BY <1>5 DEF ReleaseWrite, Alone
  <2> QED
    BY <1>5, <2>1 DEF ReleaseWrite
<1>6. CASE UNCHANGED vars
  BY <1>6 DEF vars
<1> QED
  BY <1>1, <1>2, <1>3, <1>4, <1>5, <1>6 DEF Next, WriteStep

\* A section that finds the mutex free to read finds nobody writing, and one
\* that finds the count at 0 finds nobody reading.
LEMMA NextExcluded ==
  Typed /\ ReadersCounted /\ HolderKnown /\ NoReaderInside /\ [Next]_vars => NoReaderInside'
<1> SUFFICES ASSUME Typed, ReadersCounted, HolderKnown, NoReaderInside, [Next]_vars
             PROVE  NoReaderInside'
  OBVIOUS
<1> USE WriteMutexAssumption DEF Typed, Sections, Goto, NoReaderInside
<1>1. ASSUME NEW s \in Reads, EnterRead(s)
      PROVE  NoReaderInside'
  <2>1. \A w \in Writes : pc[w] # "writing"
    BY <1>1 DEF EnterRead, IsFree, HolderKnown, Holds
  <2> QED
    BY <1>1, <2>1 DEF EnterRead
<1>2. ASSUME NEW s \in Writes, DrainReaders(s)
      PROVE  NoReaderInside'
  <2>1. Counted = {}
    BY <1>2, CountedFinite, FS_EmptySet DEF DrainReaders, ReadersCounted
  <2>2. \A r \in Reads : pc[r] # "reading"
    BY <2>1 DEF Counted
  <2> QED
    BY <1>2, <2>2 DEF DrainReaders
<1>3. ASSUME NEW s \in Reads,
             \/ CallAcquireRead(s) \/ IncrementReaders(s) \/ SeeWriter(s)
             \/ Retreat(s) \/ Retry(s) \/ ReleaseRead(s)
      PROVE  NoReaderInside'
  BY <1>3 DEF CallAcquireRead, IncrementReaders, SeeWriter, Retreat, Retry, ReleaseRead
<1>4. ASSUME NEW s \in Writes, CallAcquireWrite(s) \/ TakeWrite(s) \/ ReleaseWrite(s)
      PROVE  NoReaderInside'
  BY <1>4 DEF CallAcquireWrite, TakeWrite, ReleaseWrite
<1>5. CASE UNCHANGED vars
  BY <1>5 DEF vars
<1> QED
  BY <1>1, <1>2, <1>3, <1>4, <1>5 DEF Next, ReadStep, WriteStep

\* IInv holds initially.
LEMMA InitInv == Init => IInv
<1> SUFFICES ASSUME Init PROVE IInv
  OBVIOUS
<1>1. Counted = {}
  BY DEF Init, Counted, Sections
<1>2. ReadersCounted
  BY <1>1, FS_EmptySet DEF Init, ReadersCounted
<1> QED
  BY <1>2, WriteMutexAssumption
  DEF Init, IInv, Typed, Alone, HolderKnown, Holds, NoReaderInside, Sections,
      ReadLocations, WriteLocations

\* IInv is preserved by every step.
LEMMA NextInv == IInv /\ [Next]_vars => IInv'
BY NextTyped, NextCounted, NextAlone, NextHolder, NextExcluded DEF IInv

\* The variables of WriteMutex have their types; the count never leaves the
\* range from 0 to the number of sections that read, so no decrement wraps.
THEOREM TypeCorrect == Spec => []TypeOK
<1>1. IInv => TypeOK
  <2> SUFFICES ASSUME IInv PROVE TypeOK
    OBVIOUS
  <2>1. Counted \subseteq Reads
    BY DEF Counted
  <2>2. /\ Cardinality(Counted) <= Cardinality(Reads)
        /\ Cardinality(Reads) \in Nat
    BY <2>1, FS_Subset, FS_CardinalityType, WriteMutexAssumption
  <2> QED
    BY <2>2 DEF IInv, Typed, ReadersCounted, TypeOK
<1> QED
  BY InitInv, NextInv, <1>1, PTL DEF Spec

\* The count of the readers is exact in every state of every execution.
THEOREM CountExact == Spec => []ReadersCounted
<1>1. IInv => ReadersCounted
  BY DEF IInv
<1> QED
  BY InitInv, NextInv, <1>1, PTL DEF Spec

-----------------------------------------------------------------------------
Reading == {s \in Reads : pc[s] = "reading"}
Writing == {s \in Writes : pc[s] = "writing"}

\* At most one section writes, since the mutex is held by its thread alone.
LEMMA OneWriter ==
  ASSUME IInv, NEW s \in Writes, NEW w \in Writes, Holds(s), Holds(w)
  PROVE  s = w
BY DEF IInv, HolderKnown, Alone, Holds, Sections

\* Each step of a WriteMutex opens or closes one section of the abstract lock,
\* when that lock allows it, or leaves it alone.
LEMMA StepRefines ==
  ASSUME IInv, [Next]_vars
  PROVE  [RWLock!RWNext]_<<Reading, Writing>>
<1> USE DEF RWLock!rwVars
<1>0. /\ pc \in [Sections -> ReadLocations \union WriteLocations]
      /\ Reads \subseteq Sections
      /\ Writes \subseteq Sections
      /\ Reads \intersect Writes = {}
  BY WriteMutexAssumption DEF IInv, Typed, Sections
<1>1. ASSUME NEW s \in Reads,
             \/ CallAcquireRead(s) \/ IncrementReaders(s) \/ SeeWriter(s)
             \/ Retreat(s) \/ Retry(s)
      PROVE  Reading' = Reading /\ Writing' = Writing
  BY <1>0, <1>1 DEF CallAcquireRead, IncrementReaders, SeeWriter, Retreat, Retry, Goto,
                    Reading, Writing
<1>2. ASSUME NEW s \in Reads, EnterRead(s)
      PROVE  RWLock!BeginRead(s)
  <2>1. \A w \in Writes : pc[w] # "writing"
    BY <1>2, WriteMutexAssumption DEF EnterRead, IsFree, IInv, Typed, HolderKnown, Holds, Sections, Goto
  <2>2. s \notin Reading /\ Writing = {}
    BY <1>2, <2>1 DEF EnterRead, Goto, Reading, Writing
  <2>3. Reading' = Reading \union {s} /\ Writing' = Writing
    BY <1>0, <1>2 DEF EnterRead, Goto, Reading, Writing
  <2> QED
    BY <2>2, <2>3 DEF RWLock!BeginRead, Reading, Writing
<1>3. ASSUME NEW s \in Reads, ReleaseRead(s)
      PROVE  RWLock!EndRead(s)
  <2>1. s \in Reading /\ Reading' = Reading \ {s} /\ Writing' = Writing
    BY <1>0, <1>3 DEF ReleaseRead, Goto, Reading, Writing
  <2> QED
    BY <2>1 DEF RWLock!EndRead, Reading, Writing
<1>4. ASSUME NEW s \in Writes, CallAcquireWrite(s) \/ TakeWrite(s)
      PROVE  Reading' = Reading /\ Writing' = Writing
  BY <1>0, <1>4 DEF CallAcquireWrite, TakeWrite, Goto, Reading, Writing
<1>5. ASSUME NEW s \in Writes, DrainReaders(s)
      PROVE  RWLock!BeginWrite(s)
  <2>1. Counted = {}
    BY <1>5, CountedFinite, FS_EmptySet DEF DrainReaders, IInv, ReadersCounted
  <2>2. Reading = {}
    BY <2>1 DEF Reading, Counted
  <2>3. \A w \in Writes : Holds(w) => w = s
    BY <1>5, OneWriter DEF DrainReaders, Goto, Holds
  <2>4. Writing = {}
    BY <1>5, <2>3 DEF Writing, Holds, DrainReaders, Goto
  <2>5. Writing' = {s} /\ Reading' = Reading
    BY <1>0, <1>5, <2>4 DEF DrainReaders, Goto, Reading, Writing
  <2> QED
    BY <2>2, <2>4, <2>5 DEF RWLock!BeginWrite, Reading, Writing
<1>6. ASSUME NEW s \in Writes, ReleaseWrite(s)
      PROVE  RWLock!EndWrite(s)
  <2>1. \A w \in Writes : Holds(w) => w = s
    BY <1>6, OneWriter DEF ReleaseWrite, Goto, Holds
  <2>2. Writing = {s}
    BY <1>6, <2>1 DEF ReleaseWrite, Goto, Writing, Holds
  <2>3. Writing' = {} /\ Reading' = Reading
    BY <1>0, <1>6, <2>2 DEF ReleaseWrite, Goto, Reading, Writing
  <2> QED
    BY <2>2, <2>3 DEF RWLock!EndWrite, Reading, Writing
<1>7. CASE UNCHANGED vars
  BY <1>7 DEF vars, Reading, Writing
<1>8. CASE Next
  <2>1. CASE \E s \in Reads : CallAcquireRead(s) \/ ReadStep(s) \/ ReleaseRead(s)
    BY <2>1, <1>1, <1>2, <1>3 DEF ReadStep, RWLock!RWNext
  <2>2. CASE \E s \in Writes : CallAcquireWrite(s) \/ WriteStep(s) \/ ReleaseWrite(s)
    BY <2>2, <1>4, <1>5, <1>6 DEF WriteStep, RWLock!RWNext
  <2> QED
    BY <1>8, <2>1, <2>2 DEF Next
<1> QED
  BY <1>7, <1>8

\* A WriteMutex implements the lock that many may read and one may write.
THEOREM Refinement == Spec => ImplementsRWLock
<1>1. Init => RWLock!RWInit
  BY DEF Init, RWLock!RWInit, Sections
<1>2. IInv /\ [Next]_vars => [RWLock!RWNext]_<<Reading, Writing>>
  BY StepRefines
<1> QED
  BY InitInv, NextInv, <1>1, <1>2, PTL
  DEF Spec, ImplementsRWLock, RWLock!RWSpec, RWLock!rwVars, Reading, Writing
=============================================================================
