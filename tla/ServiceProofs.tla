--------------------------- MODULE ServiceProofs ----------------------------
(***************************************************************************)
(* Proofs about the services.  The memory pools, for blocks of any size    *)
(* and any number of them: what a pool gives out does not overlap, and     *)
(* what it holds is destructed once.  The threads that print and panic,    *)
(* for any finite set of threads.  The counter of allocations, for any     *)
(* heap; paths of any names; files of any length and buffers of any size;  *)
(* items of any base and order; sets of bits of any length.                *)
(***************************************************************************)
EXTENDS MCServices, DataLemmas

-----------------------------------------------------------------------------
(* Threads and panics *)

Begun(t) == thPc[t] \notin {"none", "created"}

\* The main thread runs from the start, and main does not return.
MainRuns == thPc[Main] \in Running \union Panics /\ thId[Main] = 1

\* The records of a thread are there from its creation, and one of them to its end.
Records ==
  /\ ~thMisuse
  /\ \A t \in Started :
       /\ thPc[t] = "none" <=> thInfo[t] = "none"
       /\ thPc[t] = "none" <=> thHandle[t] = "none"
       /\ thPc[t] = "ended" <=> thInfo[t] = "freed"
       /\ thHandle[t] = "freed" => thPc[t] = "ended"

\* The ids of the threads that have begun are those the counter has given out.
IdsGiven ==
  /\ thCounter >= 1
  /\ \A t \in Started : IF Begun(t) THEN thId[t] \in 2..thCounter ELSE thId[t] = 1
  /\ \A t, u \in Threads : t # u /\ Begun(t) /\ Begun(u) => thId[t] # thId[u]

\* Who writes to the streams, without a panic or in its first one, has their lock.
WritesUnderLock == \A t \in Threads : thPc[t] \in {"print", "report"} => ioHeld = thId[t]

\* A thread about to end the process has written its message.
Reported ==
  /\ \A t \in Threads : thPc[t] = "terminate" => t \in panicReported
  /\ panicEnded => panicReported # {}

\* The flag is set before the callback is called, and stays; whoever finds it set does
\* without the callback, and who is about to call it has not called it.
FlagFirst ==
  /\ panicCalled # {} => panicking
  /\ \A t \in Threads : thPc[t] = "again" => panicking
  /\ CallbackOnce

PanicInv == PanicTypeOK /\ MainRuns /\ Records /\ IdsGiven /\ WritesUnderLock /\ Reported /\ FlagFirst

\* The steps within one thread, which create and free nothing.
Within(t) ==
  \/ LockStreams(t) \/ UnlockStreams(t) \/ CallPanic(t) \/ PanicInReport(t)
  \/ TestPanicking(t) \/ SetPanicking(t) \/ LockForReport(t) \/ Report(t)
  \/ ReportAgain(t) \/ Terminate(t)

\* The main thread alone runs at first, with id 1.
LEMMA PanicInitially == PanicInit => PanicInv
<1> SUFFICES ASSUME PanicInit PROVE PanicInv
  OBVIOUS
<1> USE PanicAssumption DEF PanicInit, Threads, Running, Panics
<1>1. PanicTypeOK
  <2>1. /\ thPc \in [Threads -> {"none", "created", "ended"} \union Running \union Panics]
        /\ thId \in [Threads -> Nat \ {0}] /\ thCounter \in Nat
    OBVIOUS
  <2>2. {thInfo, thHandle} \subseteq [Started -> {"none", "live", "freed"}]
    OBVIOUS
  <2>3. ioHeld = 0 /\ ioPrints \in 0..MaxPrints /\ panicCalled = {} /\ panicReported = {}
    OBVIOUS
  <2>4. {thMisuse, panicking, panicEnded} \subseteq BOOLEAN
    BY Zenon
  <2> QED
    BY <2>1, <2>2, <2>3, <2>4 DEF PanicTypeOK
<1>2. MainRuns /\ Records
  BY DEF MainRuns, Records
<1>3. IdsGiven
  BY DEF IdsGiven, Begun
<1>4. WritesUnderLock /\ Reported /\ FlagFirst
  BY DEF WritesUnderLock, Reported, FlagFirst, CallbackOnce
<1> QED
  BY <1>1, <1>2, <1>3, <1>4 DEF PanicInv

\* A step within a thread that has begun leaves it begun and not ended, and touches neither
\* the records nor the ids.
LEMMA WithinKeeps ==
  ASSUME PanicInv, NEW t \in Threads, Within(t)
  PROVE  /\ thPc[t] \in Running \union Panics
         /\ \E to \in Running \union Panics : thPc' = [thPc EXCEPT ![t] = to]
         /\ UNCHANGED <<thId, thCounter, thInfo, thHandle, thMisuse>>
<1>1. thPc \in [Threads -> {"none", "created", "ended"} \union Running \union Panics]
  BY DEF PanicInv, PanicTypeOK
<1>2. UNCHANGED <<thId, thCounter, thInfo, thHandle, thMisuse>>
  BY DEF Within, LockStreams, UnlockStreams, CallPanic, PanicInReport, TestPanicking, SetPanicking,
         LockForReport, Report, ReportAgain, Terminate, recordVars
<1>3. CASE Terminate(t)
  BY <1>1, <1>2, <1>3 DEF Terminate, Running, Panics
<1>4. CASE ~Terminate(t)
  BY <1>1, <1>2, <1>4
     DEF Within, LockStreams, UnlockStreams, CallPanic, PanicInReport, TestPanicking, SetPanicking,
         LockForReport, Report, ReportAgain, GoTo, Running, Panics
<1> QED
  BY <1>2, <1>3, <1>4

\* The lock goes from nobody, or from the thread itself, to a thread, and back.
LEMMA WithinLocks ==
  ASSUME PanicInv, NEW t \in Threads, Within(t)
  PROVE  /\ ioHeld' \in {0} \union {thId[u] : u \in Threads}
         /\ ioPrints' \in 0..MaxPrints
         /\ WritesUnderLock'
<1> USE PanicAssumption DEF PanicInv, PanicTypeOK
<1>1. \A u \in Threads : u # t /\ thPc[u] \in {"print", "report"} => ioHeld \notin {0, thId[t]}
  BY WithinKeeps DEF WritesUnderLock, IdsGiven, Begun, Running, Panics
<1>2. UNCHANGED thId
  BY WithinKeeps
<1>3. CASE LockStreams(t) \/ LockForReport(t)
  BY <1>1, <1>2, <1>3 DEF LockStreams, LockForReport, Takes, GoTo, WritesUnderLock
<1>4. CASE UnlockStreams(t) \/ Report(t)
  <2>1. ioHeld = thId[t]
    BY <1>4 DEF UnlockStreams, Report, GoTo, WritesUnderLock
  <2> QED
    BY <1>1, <1>2, <1>4, <2>1 DEF UnlockStreams, Report, GoTo, WritesUnderLock
<1>5. CASE \/ CallPanic(t) \/ PanicInReport(t) \/ TestPanicking(t) \/ SetPanicking(t)
           \/ ReportAgain(t) \/ Terminate(t)
  BY <1>2, <1>5
     DEF CallPanic, PanicInReport, TestPanicking, SetPanicking, ReportAgain, Terminate, GoTo,
         WritesUnderLock, Running
<1> QED
  BY <1>3, <1>4, <1>5 DEF Within

\* A thread that ends the process has reported before.
LEMMA WithinReports ==
  ASSUME PanicInv, NEW t \in Threads, Within(t)
  PROVE  Reported' /\ panicReported' \subseteq Threads /\ {panicking', panicEnded'} \subseteq BOOLEAN
<1> USE PanicAssumption DEF PanicInv, PanicTypeOK, Reported
<1>1. CASE Report(t) \/ ReportAgain(t)
  BY <1>1 DEF Report, ReportAgain, GoTo
<1>2. CASE Terminate(t)
  BY <1>2 DEF Terminate
<1>3. CASE \/ LockStreams(t) \/ UnlockStreams(t) \/ CallPanic(t) \/ PanicInReport(t)
           \/ TestPanicking(t) \/ SetPanicking(t) \/ LockForReport(t)
  <2>1. \A u \in Threads : thPc'[u] = "terminate" => thPc[u] = "terminate"
    BY <1>3
       DEF LockStreams, UnlockStreams, CallPanic, PanicInReport, TestPanicking, SetPanicking,
           LockForReport, GoTo, Running
  <2>2. UNCHANGED <<panicReported, panicEnded>> /\ panicking' \in BOOLEAN
    BY <1>3
       DEF LockStreams, UnlockStreams, CallPanic, PanicInReport, TestPanicking, SetPanicking,
           LockForReport
  <2> QED
    BY <2>1, <2>2
<1> QED
  BY <1>1, <1>2, <1>3 DEF Within

\* The callback is called by a thread that found the flag unset, and with the flag set.
LEMMA WithinFlag ==
  ASSUME PanicInv, NEW t \in Threads, Within(t)
  PROVE  FlagFirst' /\ panicCalled' \subseteq Threads
<1> USE PanicAssumption DEF PanicInv, PanicTypeOK, FlagFirst, CallbackOnce
<1>1. CASE TestPanicking(t)
  BY <1>1 DEF TestPanicking, GoTo
<1>2. CASE SetPanicking(t)
  BY <1>2 DEF SetPanicking, GoTo
<1>3. CASE \/ LockStreams(t) \/ UnlockStreams(t) \/ CallPanic(t) \/ PanicInReport(t)
           \/ LockForReport(t) \/ Report(t) \/ ReportAgain(t) \/ Terminate(t)
  <2>1. \A u \in Threads : thPc'[u] \in {"set", "again"} => thPc'[u] = thPc[u]
    BY <1>3
       DEF LockStreams, UnlockStreams, CallPanic, PanicInReport, LockForReport, Report, ReportAgain,
           Terminate, GoTo, Running
  <2>2. UNCHANGED <<panicking, panicCalled>>
    BY <1>3
       DEF LockStreams, UnlockStreams, CallPanic, PanicInReport, LockForReport, Report, ReportAgain, Terminate
  <2> QED
    BY <2>1, <2>2
<1> QED
  BY <1>1, <1>2, <1>3 DEF Within

\* A step within one thread keeps the invariant.
LEMMA WithinInv ==
  ASSUME PanicInv, NEW t \in Threads, Within(t)
  PROVE  PanicInv'
<1>1. PICK to \in Running \union Panics : thPc' = [thPc EXCEPT ![t] = to]
  BY WithinKeeps
<1>2. /\ thPc[t] \in Running \union Panics
      /\ UNCHANGED <<thId, thCounter, thInfo, thHandle, thMisuse>>
  BY WithinKeeps
<1>3. PanicTypeOK'
  BY <1>1, <1>2, WithinLocks, WithinReports, WithinFlag DEF PanicInv, PanicTypeOK, Running, Panics, Threads
<1>4. MainRuns' /\ Records' /\ IdsGiven'
  BY PanicAssumption, <1>1, <1>2
     DEF PanicInv, PanicTypeOK, MainRuns, Records, IdsGiven, Begun, Running, Panics, Threads
<1> QED
  BY <1>3, <1>4, WithinLocks, WithinReports, WithinFlag DEF PanicInv

\* The creation, the start, the end and the wait for the end of a thread keep it.
LEMMA ThreadInv ==
  ASSUME PanicInv, NEW by \in Threads, NEW t \in Started,
         StartThread(by, t) \/ WaitForThreadEnd(by, t) \/ BeginThread(t) \/ EndThread(t)
  PROVE  PanicInv'
<1> USE PanicAssumption
        DEF PanicInv, PanicTypeOK, MainRuns, Records, WritesUnderLock, Reported, FlagFirst, CallbackOnce,
            GoTo, Threads, Running, Panics
<1>1. CASE StartThread(by, t)
  BY <1>1 DEF StartThread, IdsGiven, Begun
<1>2. CASE WaitForThreadEnd(by, t)
  BY <1>2 DEF WaitForThreadEnd, IdsGiven, Begun
<1>3. CASE BeginThread(t)
  <2>1. /\ thPc[t] = "created" /\ thPc' = [thPc EXCEPT ![t] = "run"]
        /\ thCounter' = thCounter + 1 /\ thId' = [thId EXCEPT ![t] = thCounter + 1]
        /\ UNCHANGED <<thInfo, thHandle, thMisuse, ioHeld, ioPrints, panicking, panicCalled, panicReported, panicEnded>>
    BY <1>3 DEF BeginThread
  <2>2. \A u \in Threads : u # t /\ Begun(u) => thId[u] \in 1..thCounter
    BY DEF IdsGiven, Begun
  <2>3. IdsGiven'
    BY <2>1, <2>2 DEF IdsGiven, Begun
  <2>4. WritesUnderLock'
    BY <2>1
  <2>5. ioHeld \in {0} \union {thId'[u] : u \in Threads}
    <3>1. thId[t] = 1 /\ thId'[Main] = 1 /\ Main \in Threads
      BY <2>1 DEF IdsGiven, Begun
    <3> QED
      BY <2>1, <3>1
  <2> QED
    BY <2>1, <2>3, <2>4, <2>5
<1>4. CASE EndThread(t)
  BY <1>4 DEF EndThread, IdsGiven, Begun
<1> QED
  BY <1>1, <1>2, <1>3, <1>4

\* Every step of a thread keeps it.
LEMMA PanicInductive == PanicInv /\ [PanicNext]_panicVars => PanicInv'
<1> SUFFICES ASSUME PanicInv, [PanicNext]_panicVars PROVE PanicInv'
  OBVIOUS
<1>1. CASE UNCHANGED panicVars
  BY <1>1 DEF panicVars, PanicInv, PanicTypeOK, MainRuns, Records, IdsGiven, Begun, WritesUnderLock, Reported,
              FlagFirst, CallbackOnce
<1>2. CASE \E by \in Threads, t \in Started : StartThread(by, t) \/ WaitForThreadEnd(by, t)
  BY <1>2, ThreadInv
<1>3. CASE \E t \in Started : BeginThread(t) \/ EndThread(t)
  BY <1>3, ThreadInv DEF Threads
<1>4. CASE \E t \in Threads : Within(t)
  BY <1>4, WithinInv
<1> QED
  BY <1>1, <1>2, <1>3, <1>4 DEF PanicNext, PanicStep, Within

\* No two ids are the same, so at most one thread writes under the lock.
LEMMA PanicInvSound == PanicInv => ThreadsSound
<1> SUFFICES ASSUME PanicInv PROVE ThreadsSound
  OBVIOUS
<1>1. ASSUME NEW t \in Threads, NEW u \in Threads, t # u, {thPc[t], thPc[u]} \subseteq Writing
      PROVE  panicking /\ "again" \in {thPc[t], thPc[u]}
  <2>1. CASE "again" \in {thPc[t], thPc[u]}
    BY <2>1 DEF PanicInv, FlagFirst
  <2>2. CASE "again" \notin {thPc[t], thPc[u]}
    <3>1. ioHeld = thId[t] /\ ioHeld = thId[u]
      BY <1>1, <2>2 DEF PanicInv, WritesUnderLock, Writing
    <3>2. thId[t] # thId[u]
      BY <1>1, <2>2 DEF PanicInv, IdsGiven, Begun, Writing
    <3> QED BY <3>1, <3>2
  <2> QED BY <2>1, <2>2
<1>2. /\ ~thMisuse
      /\ \A t \in Started : thHandle[t] = "freed" => thInfo[t] = "freed"
      /\ \A t, u \in Threads : t # u /\ {thPc[t], thPc[u]} \cap {"none", "created"} = {} => thId[t] # thId[u]
  BY DEF PanicInv, Records, IdsGiven, Begun
<1>3. CallbackOnce
  BY DEF PanicInv, FlagFirst
<1> QED
  BY <1>1, <1>2, <1>3 DEF ThreadsSound

-----------------------------------------------------------------------------
(* MemoryPool and GrowingMemoryPool: what is given out *)

BumpInv ==
  /\ bumpTop \in Nat
  /\ bumpGiven \subseteq [at : Nat, size : Nat \ {0}, align : 1..2]
  /\ BumpPlaced

Piece == [block : Nat \ {0}, at : Nat, size : Nat \ {0}, align : 1..2]
Memory == [blocks : Nat, top : Nat, used : SUBSET Piece, dl : Seq(Nat), dln : Seq(Nat)]

\* The pieces of a pool, of which those in the last block lie below its top.
Placed(p) ==
  /\ p \in Memory
  /\ \A x \in p.used :
       /\ x.block <= p.blocks /\ x.at + x.size <= GrowBlock
       /\ x.block = p.blocks => x.at + x.size <= p.top
       /\ (BlockBase + x.at) % x.align = 0
  /\ p.top <= GrowBlock
  /\ \A x, y \in p.used :
       x # y /\ x.block = y.block => x.at + x.size <= y.at \/ y.at + y.size <= x.at

IsSequence(s) == \E S : s \in Seq(S)

GrowInv ==
  /\ growPools \in [Pools -> Memory]
  /\ \A p \in Pools : Placed(growPools[p])
  /\ IsSequence(growObjects)

\* Rounding up to words or to pairs of words goes up, and to a multiple.
LEMMA Rounding ==
  ASSUME NEW n \in Nat, NEW align \in 1..2
  PROVE  RoundedUp(n, align) \in Nat /\ RoundedUp(n, align) >= n /\ RoundedUp(n, align) % align = 0
<1>1. CASE align = 1
  BY <1>1 DEF RoundedUp
<1>2. CASE align = 2
  BY <1>2 DEF RoundedUp
<1> QED
  BY <1>1, <1>2

\* The place of a piece goes up to the next multiple of its alignment.
LEMMA Alignment ==
  ASSUME NEW n \in Nat, NEW align \in 1..2
  PROVE  /\ Aligned(n, align) \in Nat /\ Aligned(n, align) >= n
         /\ (BlockBase + Aligned(n, align)) % align = 0
<1>1. CASE align = 1
  BY <1>1 DEF Aligned, BlockBase
<1>2. CASE align = 2
  BY <1>2 DEF Aligned, BlockBase
<1> QED
  BY <1>1, <1>2

\* MemoryPool::push_alloc_bytes keeps its pieces apart.
LEMMA BumpInductive == BumpInv /\ [BumpNext]_bumpVars => BumpInv'
<1> SUFFICES ASSUME BumpInv, [BumpNext]_bumpVars PROVE BumpInv'
  OBVIOUS
<1>1. CASE UNCHANGED bumpVars
  BY <1>1 DEF bumpVars, BumpInv, BumpPlaced
<1>2. ASSUME NEW size \in 1..3, NEW align \in 1..2, BumpPush(size, align)
      PROVE  BumpInv'
  <2> DEFINE new == [at |-> RoundedUp(bumpTop, align), size |-> size, align |-> align]
  <2>1. new.at \in Nat /\ new.at >= bumpTop /\ new.at % align = 0
    BY Rounding DEF BumpInv
  <2>2. bumpTop' = new.at + size /\ bumpGiven' = bumpGiven \union {new}
    BY <1>2 DEF BumpPush
  <2>3. new \in [at : Nat, size : Nat \ {0}, align : 1..2] /\ new.size = size /\ new.align = align
    BY <2>1
  <2> HIDE DEF new
  <2>4. \A p \in bumpGiven : ~Overlap(p, new) /\ ~Overlap(new, p)
    BY <2>1, <2>3 DEF BumpInv, BumpPlaced, Overlap
  <2>5. \A p \in bumpGiven' : p.at % p.align = 0 /\ p.at + p.size <= bumpTop'
    BY <2>1, <2>2, <2>3 DEF BumpInv, BumpPlaced
  <2> QED
    BY <2>1, <2>2, <2>3, <2>4, <2>5 DEF BumpInv, BumpPlaced
<1> QED
  BY <1>1, <1>2 DEF BumpNext

\* Nothing is given out at first.
LEMMA BumpInitially == BumpInit => BumpInv
BY DEF BumpInit, BumpInv, BumpPlaced

\* The invariant says what BumpPlaced does.
LEMMA BumpInvPlaced == BumpInv => BumpPlaced
BY DEF BumpInv

\* The assertion of push_alloc_bytes keeps the top in the range.
BumpRoom == bumpTop < BumpTotal

\* It does.
LEMMA BumpRoomKept == BumpRoom /\ [BumpNext]_bumpVars => BumpRoom'
BY DEF BumpRoom, BumpNext, BumpPush, bumpVars

\* There is room at first.
LEMMA BumpRoomInitially == BumpInit => BumpRoom
BY BumpAssumption DEF BumpInit, BumpRoom

\* What is given out lies below the top.
LEMMA BumpInvTyped == BumpInv /\ BumpRoom => BumpTypeOK
<1> SUFFICES ASSUME BumpInv, BumpRoom PROVE BumpTypeOK
  OBVIOUS
<1>1. bumpTop \in Nat /\ BumpTotal \in Nat /\ bumpTop < BumpTotal
  BY BumpAssumption DEF BumpInv, BumpRoom
<1>2. ASSUME NEW p \in bumpGiven PROVE p \in [at : 0..BumpTotal, size : 1..BumpTotal, align : 1..2]
  <2>1. p \in [at : Nat, size : Nat \ {0}, align : 1..2] /\ p.at + p.size <= bumpTop
    BY <1>2 DEF BumpInv, BumpPlaced
  <2>2. p.at \in 0..BumpTotal /\ p.size \in 1..BumpTotal
    BY <1>1, <2>1
  <2> QED BY <2>1, <2>2
<1> QED BY <1>1, <1>2 DEF BumpTypeOK

\* alloc_small_internal: behind the pieces of the last block, or in front of a new one.
LEMMA SmallAllocPlaced ==
  ASSUME NEW p, Placed(p), NEW size \in Nat \ {0}, NEW align \in 1..2, Fits(0, size, align)
  PROVE  Placed(SmallAlloc(p, size, align))
<1> USE GrowAssumption DEF BlockBase
<1> DEFINE stay == p.blocks > 0 /\ Fits(p.top, size, align)
           from == IF stay THEN p.top ELSE 0
           b == IF stay THEN p.blocks ELSE p.blocks + 1
           new == [block |-> b, at |-> Aligned(from, align), size |-> size, align |-> align]
           q == SmallAlloc(p, size, align)
<1>1. /\ p \in Memory /\ p.blocks \in Nat /\ p.top \in Nat /\ p.used \subseteq Piece
      /\ p.dl \in Seq(Nat) /\ p.dln \in Seq(Nat)
  BY DEF Placed, Memory
<1>2. /\ new.at \in Nat /\ new.at >= from /\ (BlockBase + new.at) % align = 0
      /\ from \in Nat /\ b \in Nat \ {0}
  <2>1. from \in Nat /\ b \in Nat \ {0}
    BY <1>1
  <2>2. new.at = Aligned(from, align)
    OBVIOUS
  <2> HIDE DEF from, new, b
  <2> QED
    BY <2>1, <2>2, Alignment
<1>3. new.at + size <= GrowBlock
  BY DEF Fits
<1>4. new \in Piece /\ new.block = b /\ new.size = size /\ new.align = align
  BY <1>2 DEF Piece
<1>5. q = [p EXCEPT !.blocks = b, !.top = new.at + size, !.used = p.used \union {new}]
  BY DEF SmallAlloc
<1>6. /\ q.blocks = b /\ q.top = new.at + size /\ q.used = p.used \union {new}
      /\ q.dl = p.dl /\ q.dln = p.dln
      /\ q \in Memory
  <2> HIDE DEF new, q, b
  <2>1. p.used \union {new} \in SUBSET Piece /\ new.at + size \in Nat /\ b \in Nat
    BY <1>1, <1>2, <1>4
  <2> QED
    BY <1>1, <1>5, <2>1 DEF Memory
<1>7. \A x \in p.used : x.block <= b /\ (x.block = b => x.at + x.size <= from /\ stay)
  BY <1>1 DEF Placed, Piece
<1>8. \A x \in p.used : x.block = b => x.at + x.size <= new.at
  BY <1>1, <1>2, <1>7 DEF Piece
<1> HIDE DEF new, q, b, from
<1>9. \A x \in q.used :
        /\ x.block <= q.blocks /\ x.at + x.size <= GrowBlock
        /\ x.block = q.blocks => x.at + x.size <= q.top
        /\ (BlockBase + x.at) % x.align = 0
  <2>1. ASSUME NEW x \in p.used
        PROVE  /\ x.block <= q.blocks /\ x.at + x.size <= GrowBlock
               /\ x.block = q.blocks => x.at + x.size <= q.top
               /\ (BlockBase + x.at) % x.align = 0
    <3>1. x.block \in Nat /\ x.at \in Nat /\ x.size \in Nat
      BY <1>1, <2>1 DEF Piece
    <3> QED
      BY <1>2, <1>6, <1>7, <1>8, <2>1, <3>1 DEF Placed
  <2>2. /\ new.block <= q.blocks /\ new.at + new.size <= GrowBlock
        /\ new.at + new.size <= q.top /\ (BlockBase + new.at) % new.align = 0
    BY <1>2, <1>3, <1>4, <1>6
  <2> QED
    BY <1>6, <2>1, <2>2
<1>10. \A x, y \in q.used :
         x # y /\ x.block = y.block => x.at + x.size <= y.at \/ y.at + y.size <= x.at
  BY <1>4, <1>6, <1>8 DEF Placed
<1> QED
  BY <1>3, <1>6, <1>9, <1>10 DEF Placed, q

\* The list elements are pieces of the pool, and a list is not one of the fields above.
LEMMA EnlistPlaced ==
  ASSUME NEW p, Placed(p), NEW list \in Lists, NEW object \in Nat
  PROVE  Placed(Enlist(p, list, object))
<1> DEFINE q == SmallAlloc(p, IF list = "dl" THEN 3 ELSE 4, 1)
           entry == <<object>>
<1>1. Placed(q)
  BY GrowAssumption, SmallAllocPlaced DEF Fits, Aligned, BlockBase
<1>2. q \in Memory /\ q.dl \in Seq(Nat) /\ q.dln \in Seq(Nat)
  BY <1>1 DEF Placed, Memory
<1>3. entry \in Seq(Nat)
  OBVIOUS
<1>4. Enlist(p, list, object) = [q EXCEPT ![list] = entry \o q[list]]
  BY DEF Enlist
<1> HIDE DEF q, entry
<1>5. entry \o q.dl \in Seq(Nat) /\ entry \o q.dln \in Seq(Nat)
  BY <1>2, <1>3, ConcatProperties
<1>6. CASE list = "dl"
  <2>1. Enlist(p, list, object) = [q EXCEPT !.dl = entry \o q.dl]
    BY <1>2, <1>4, <1>6 DEF Memory
  <2> QED
    BY <1>1, <1>2, <1>5, <2>1 DEF Placed, Memory
<1>7. CASE list = "dln"
  <2>1. Enlist(p, list, object) = [q EXCEPT !.dln = entry \o q.dln]
    BY <1>2, <1>4, <1>7 DEF Memory
  <2> QED
    BY <1>1, <1>2, <1>5, <2>1 DEF Placed, Memory
<1> QED
  BY <1>6, <1>7 DEF Lists

\* The list of objects stays a list.
LEMMA Appended ==
  ASSUME NEW s, IsSequence(s), NEW e
  PROVE  IsSequence(Append(s, e)) /\ Len(s) + 1 \in Nat
<1>1. PICK S : s \in Seq(S)
  BY DEF IsSequence
<1>2. s \in Seq(S \union {e})
  BY <1>1, SeqMonotonic
<1>3. Append(s, e) \in Seq(S \union {e}) /\ Len(s) \in Nat
  BY <1>2, AppendProperties, LenProperties
<1> QED
  BY <1>3 DEF IsSequence

\* An update of every item of a list leaves a list.
LEMMA Rewritten ==
  ASSUME NEW s, IsSequence(s), NEW t, t = [o \in DOMAIN s |-> t[o]]
  PROVE  IsSequence(t)
<1>1. PICK S : s \in Seq(S)
  BY DEF IsSequence
<1>2. Len(s) \in Nat /\ DOMAIN s = 1..Len(s)
  BY <1>1, LenProperties
<1> DEFINE n == Len(s)
           T == {t[o] : o \in 1..n}
<1>3. t \in [1..n -> T]
  BY <1>2
<1>4. t \in Seq(T)
  BY <1>2, <1>3, SeqDef
<1> QED
  BY <1>4 DEF IsSequence

\* allocate: an entry of a list first, then the memory of the object.
LEMMA AllocateInv ==
  ASSUME GrowInv, NEW pool \in Pools, NEW list \in Lists, NEW size \in Nat \ {0},
         NEW align \in 1..2, NEW trivial \in BOOLEAN,
         GrowAllocate(pool, list, size, align, trivial)
  PROVE  GrowInv'
<1> DEFINE big == size > GrowBlock
           listed == big \/ ~trivial
           object == Len(growObjects) + 1
           enlisted == IF listed THEN Enlist(growPools[pool], list, object) ELSE growPools[pool]
           p == IF big THEN enlisted ELSE SmallAlloc(enlisted, size, align)
           entry == [pool |-> pool, listed |-> listed, destroyed |-> 0]
<1>1. /\ growPools' = [growPools EXCEPT ![pool] = p] /\ growObjects' = Append(growObjects, entry)
      /\ big \/ Fits(0, size, align)
  BY DEF GrowAllocate
<1>2. object \in Nat /\ Placed(growPools[pool])
  BY Appended DEF GrowInv
<1>3. Placed(enlisted)
  BY <1>2, EnlistPlaced
<1>4. Placed(p)
  BY <1>1, <1>3, SmallAllocPlaced
<1> HIDE DEF p, entry
<1>5. growPools' \in [Pools -> Memory] /\ \A r \in Pools : Placed(growPools'[r])
  BY <1>1, <1>4 DEF GrowInv, Placed
<1>6. IsSequence(growObjects')
  BY <1>1, Appended DEF GrowInv
<1> QED
  BY <1>5, <1>6 DEF GrowInv

\* An empty pool has no pieces.
LEMMA NothingPlaced == Placed(NoMemory)
<1>1. <<>> \in Seq(Nat)
  BY EmptySeq
<1> QED
  BY <1>1, GrowAssumption DEF Placed, NoMemory, Memory

\* allocate, free and the move assignment keep the pieces of a pool apart.
LEMMA GrowInductive == GrowInv /\ [GrowNext]_growVars => GrowInv'
<1> SUFFICES ASSUME GrowInv, [GrowNext]_growVars PROVE GrowInv'
  OBVIOUS
<1>1. CASE UNCHANGED growVars
  BY <1>1 DEF growVars, GrowInv
<1>2. ASSUME NEW pool \in Pools, NEW list \in Lists, NEW size \in {1, 2, GrowBlock + 1},
             NEW align \in 1..2, NEW trivial \in BOOLEAN,
             GrowAllocate(pool, list, size, align, trivial)
      PROVE  GrowInv'
  <2>1. size \in Nat \ {0}
    BY GrowAssumption
  <2> QED
    BY <1>2, <2>1, AllocateInv
<1>3. ASSUME NEW pool \in Pools, GrowFree(pool)
      PROVE  GrowInv'
  <2>1. growPools' \in [Pools -> Memory] /\ \A p \in Pools : Placed(growPools'[p])
    BY <1>3, NothingPlaced DEF GrowFree, GrowInv, Placed
  <2>2. IsSequence(growObjects')
    BY <1>3, Rewritten DEF GrowFree, Freed, GrowInv
  <2> QED
    BY <2>1, <2>2 DEF GrowInv
<1>4. ASSUME NEW to \in Pools, NEW from \in Pools, GrowMove(to, from)
      PROVE  GrowInv'
  <2>1. growPools' \in [Pools -> Memory] /\ \A p \in Pools : Placed(growPools'[p])
    BY <1>4, NothingPlaced DEF GrowMove, GrowInv, Placed
  <2>2. IsSequence(growObjects')
    BY <1>4, Rewritten DEF GrowMove, GrowInv
  <2> QED
    BY <2>1, <2>2 DEF GrowInv
<1> QED
  BY <1>1, <1>2, <1>3, <1>4 DEF GrowNext

\* Pools are empty at first.
LEMMA GrowInitially == GrowInit => GrowInv
<1>1. IsSequence(<<>>)
  BY EmptySeq DEF IsSequence
<1> QED
  BY <1>1, NothingPlaced DEF GrowInit, GrowInv, Placed

\* The invariant says what GrowPlaced does.
LEMMA GrowInvPlaced == GrowInv => GrowPlaced
BY DEF GrowInv, Placed, GrowPlaced

-----------------------------------------------------------------------------
(* GrowingMemoryPool: what is destructed *)

ObjectRecord == [pool : 0..2, listed : BOOLEAN, destroyed : Nat]

\* The objects on a list of a pool, and those that should be on one.
OnLists(p) == {p.dl[i] : i \in 1..Len(p.dl)} \union {p.dln[i] : i \in 1..Len(p.dln)}
ListedIn(objects, pool) == {o \in 1..Len(objects) : objects[o].pool = pool /\ objects[o].listed}

\* No object is on the lists of a pool twice.
ListedOnce(p) ==
  /\ \A i, j \in 1..Len(p.dl) : p.dl[i] = p.dl[j] => i = j
  /\ \A i, j \in 1..Len(p.dln) : p.dln[i] = p.dln[j] => i = j
  /\ \A i \in 1..Len(p.dl), j \in 1..Len(p.dln) : p.dl[i] # p.dln[j]

Destroyed(objects) ==
  \A o \in 1..Len(objects) :
    objects[o].destroyed = IF objects[o].pool = 0 /\ objects[o].listed THEN 1 ELSE 0

\* Each object is on one list of its pool, or its pool was freed and it was destructed once.
GrowListed ==
  /\ growObjects \in Seq(ObjectRecord)
  /\ \A p \in Pools : ListedOnce(growPools[p]) /\ OnLists(growPools[p]) = ListedIn(growObjects, p)
  /\ Destroyed(growObjects)

\* How often free comes to an object.
LEMMA ComesOnce ==
  ASSUME NEW p \in Memory, ListedOnce(p), NEW o
  PROVE  LET entries == p.dl \o p.dln
         IN Cardinality({i \in DOMAIN entries : entries[i] = o}) = IF o \in OnLists(p) THEN 1 ELSE 0
<1> DEFINE entries == p.dl \o p.dln
           m == Len(p.dl)
           n == Len(p.dln)
           S == {i \in DOMAIN entries : entries[i] = o}
<1>1. /\ m \in Nat /\ n \in Nat /\ DOMAIN entries = 1..m + n
      /\ \A i \in 1..m + n : entries[i] = IF i <= m THEN p.dl[i] ELSE p.dln[i - m]
  <2>1. p.dl \in Seq(Nat) /\ p.dln \in Seq(Nat)
    BY DEF Memory
  <2>2. entries \in Seq(Nat) /\ Len(entries) = m + n
    BY <2>1, ConcatProperties
  <2>3. DOMAIN entries = 1..Len(entries)
    BY <2>2, LenProperties
  <2> QED BY <2>1, <2>2, <2>3, ConcatProperties, LenProperties
<1> HIDE DEF entries
<1>2. \A i, j \in 1..m + n : entries[i] = entries[j] => i = j
  <2> SUFFICES ASSUME NEW i \in 1..m + n, NEW j \in 1..m + n, entries[i] = entries[j] PROVE i = j
    OBVIOUS
  <2> HIDE DEF m, n
  <2>1. CASE i <= m /\ j <= m
    BY <1>1, <2>1 DEF ListedOnce, m
  <2>2. CASE ~(i <= m) /\ ~(j <= m)
    <3>1. i - m \in 1..n /\ j - m \in 1..n /\ p.dln[i - m] = p.dln[j - m]
      BY <1>1, <2>2
    <3>2. i - m = j - m
      BY <3>1 DEF ListedOnce, n
    <3> QED BY <1>1, <3>2
  <2>3. CASE i <= m /\ ~(j <= m)
    <3>1. i \in 1..m /\ j - m \in 1..n /\ p.dl[i] = p.dln[j - m]
      BY <1>1, <2>3
    <3> QED BY <3>1 DEF ListedOnce, m, n
  <2>4. CASE ~(i <= m) /\ j <= m
    <3>1. j \in 1..m /\ i - m \in 1..n /\ p.dl[j] = p.dln[i - m]
      BY <1>1, <2>4
    <3> QED BY <3>1 DEF ListedOnce, m, n
  <2> QED BY <2>1, <2>2, <2>3, <2>4
<1>3. o \in OnLists(p) <=> \E i \in 1..m + n : entries[i] = o
  <2>1. ASSUME NEW i \in 1..m PROVE i \in 1..m + n /\ entries[i] = p.dl[i]
    <3> HIDE DEF m, n
    <3> QED BY <1>1
  <2>2. ASSUME NEW i \in 1..n PROVE m + i \in 1..m + n /\ entries[m + i] = p.dln[i]
    <3> HIDE DEF m, n
    <3>1. m + i \in 1..m + n /\ ~(m + i <= m) /\ (m + i) - m = i
      BY <1>1
    <3> QED BY <1>1, <3>1
  <2>3. ASSUME NEW i \in 1..m + n, entries[i] = o PROVE o \in OnLists(p)
    <3>1. CASE i <= m
      <4>1. i \in 1..m /\ p.dl[i] = o
        <5> HIDE DEF m, n
        <5> QED BY <1>1, <2>3, <3>1
      <4> QED BY <4>1 DEF OnLists
    <3>2. CASE ~(i <= m)
      <4>1. i - m \in 1..n /\ p.dln[i - m] = o
        <5> HIDE DEF m, n
        <5> QED BY <1>1, <2>3, <3>2
      <4> QED BY <4>1 DEF OnLists
    <3> QED BY <3>1, <3>2
  <2> QED BY <2>1, <2>2, <2>3 DEF OnLists
<1>4. CASE o \in OnLists(p)
  <2>1. PICK i \in 1..m + n : entries[i] = o
    BY <1>3, <1>4
  <2>2. S = {i}
    BY <1>1, <1>2, <2>1
  <2> QED BY <1>4, <2>2, FS_Singleton DEF entries
<1>5. CASE o \notin OnLists(p)
  <2>1. S = {}
    BY <1>1, <1>3, <1>5
  <2> QED BY <1>5, <2>1, FS_EmptySet DEF entries
<1> QED BY <1>4, <1>5

\* The lists of a pool in which a piece was placed.
LEMMA SmallAllocLists ==
  ASSUME NEW p \in Memory, NEW size, NEW align
  PROVE  SmallAlloc(p, size, align).dl = p.dl /\ SmallAlloc(p, size, align).dln = p.dln
  BY DEF SmallAlloc, Memory

\* An object put in front of a list.
LEMMA EnlistLists ==
  ASSUME NEW p, Placed(p), NEW list \in Lists, NEW object \in Nat, object \notin OnLists(p), ListedOnce(p)
  PROVE  /\ ListedOnce(Enlist(p, list, object))
         /\ OnLists(Enlist(p, list, object)) = OnLists(p) \union {object}
<1> DEFINE q == SmallAlloc(p, IF list = "dl" THEN 3 ELSE 4, 1)
           entry == <<object>>
           r == Enlist(p, list, object)
<1>1. Placed(q)
  BY GrowAssumption, SmallAllocPlaced DEF Fits, Aligned, BlockBase
<1>2. /\ q \in Memory /\ p.dl \in Seq(Nat) /\ p.dln \in Seq(Nat)
      /\ q.dl = p.dl /\ q.dln = p.dln
  BY <1>1, SmallAllocLists DEF Placed, Memory
<1>3. r = [q EXCEPT ![list] = entry \o q[list]]
  BY DEF Enlist
<1>4. ASSUME NEW s \in Seq(Nat), object \notin {s[i] : i \in 1..Len(s)}
      PROVE  /\ Len(entry \o s) = Len(s) + 1 /\ (entry \o s)[1] = object
             /\ \A i \in 2..Len(s) + 1 : (entry \o s)[i] = s[i - 1]
             /\ {(entry \o s)[i] : i \in 1..Len(s) + 1} = {s[i] : i \in 1..Len(s)} \union {object}
  <2>1. entry \in Seq(Nat) /\ Len(entry) = 1 /\ entry[1] = object
    OBVIOUS
  <2> HIDE DEF entry
  <2>2. /\ Len(entry \o s) = 1 + Len(s)
        /\ \A i \in 1..1 + Len(s) : (entry \o s)[i] = IF i <= 1 THEN entry[i] ELSE s[i - 1]
    <3>1. /\ Len(entry \o s) = Len(entry) + Len(s)
          /\ \A i \in 1..Len(entry) + Len(s) : (entry \o s)[i] = IF i <= Len(entry) THEN entry[i] ELSE s[i - Len(entry)]
      BY <2>1, ConcatProperties
    <3> QED BY <2>1, <3>1
  <2>3. Len(s) \in Nat
    BY LenProperties
  <2>4. /\ Len(entry \o s) = Len(s) + 1 /\ (entry \o s)[1] = object
        /\ \A i \in 2..Len(s) + 1 : (entry \o s)[i] = s[i - 1]
    BY <2>1, <2>2, <2>3
  <2>5. \A i \in 1..Len(s) : i + 1 \in 2..Len(s) + 1 /\ (i + 1) - 1 = i /\ i + 1 \in 1..Len(s) + 1
    BY <2>3
  <2>6. \A i \in 2..Len(s) + 1 : i - 1 \in 1..Len(s)
    BY <2>3
  <2>7. \A i \in 1..Len(s) + 1 : i = 1 \/ i \in 2..Len(s) + 1
    BY <2>3
  <2>8. 1 \in 1..Len(s) + 1
    BY <2>3
  <2>9. \A i \in 1..Len(s) : (entry \o s)[i + 1] = s[i]
    BY <2>4, <2>5
  <2>10. {(entry \o s)[i] : i \in 1..Len(s) + 1} = {s[i] : i \in 1..Len(s)} \union {object}
    <3>1. ASSUME NEW i \in 1..Len(s) + 1 PROVE (entry \o s)[i] \in {s[j] : j \in 1..Len(s)} \union {object}
      BY <2>4, <2>6, <2>7
    <3>2. ASSUME NEW i \in 1..Len(s) PROVE s[i] \in {(entry \o s)[j] : j \in 1..Len(s) + 1}
      BY <2>5, <2>9
    <3>3. object \in {(entry \o s)[j] : j \in 1..Len(s) + 1}
      BY <2>4, <2>8
    <3> QED BY <3>1, <3>2, <3>3
  <2> QED BY <2>4, <2>10
<1>5. /\ Len(p.dl) \in Nat /\ Len(p.dln) \in Nat
      /\ object \notin {p.dl[i] : i \in 1..Len(p.dl)} /\ object \notin {p.dln[i] : i \in 1..Len(p.dln)}
  BY <1>2, LenProperties DEF OnLists
<1>6. CASE list = "dl"
  <2> DEFINE s == p.dl
             t == entry \o s
  <2>1. r.dl = t /\ r.dln = p.dln
    BY <1>2, <1>3, <1>6 DEF Memory
  <2>2. /\ Len(t) = Len(s) + 1 /\ t[1] = object /\ \A i \in 2..Len(s) + 1 : t[i] = s[i - 1]
        /\ {t[i] : i \in 1..Len(s) + 1} = {s[i] : i \in 1..Len(s)} \union {object}
    BY <1>2, <1>4, <1>5
  <2> HIDE DEF t, r
  <2>3. OnLists(r) = OnLists(p) \union {object}
    <3>1. Len(t) = Len(s) + 1
      BY <2>2
    <3>2. OnLists(r) = {t[i] : i \in 1..Len(t)} \union {p.dln[i] : i \in 1..Len(p.dln)}
      BY <2>1 DEF OnLists
    <3>3. OnLists(p) = {s[i] : i \in 1..Len(s)} \union {p.dln[i] : i \in 1..Len(p.dln)}
      BY DEF OnLists
    <3> HIDE DEF s
    <3> QED BY <2>2, <3>1, <3>2, <3>3
  <2>4. \A i, j \in 1..Len(t) : t[i] = t[j] => i = j
    <3>1. \A i \in 2..Len(s) + 1 : i - 1 \in 1..Len(s) /\ t[i] # object
      BY <1>5, <2>2
    <3>2. \A i, j \in 2..Len(s) + 1 : t[i] = t[j] => i = j
      <4> SUFFICES ASSUME NEW i \in 2..Len(s) + 1, NEW j \in 2..Len(s) + 1, t[i] = t[j] PROVE i = j
        OBVIOUS
      <4>1. i - 1 = j - 1
        <5>1. i - 1 \in 1..Len(s) /\ j - 1 \in 1..Len(s) /\ s[i - 1] = s[j - 1]
          BY <2>2, <3>1
        <5>2. \A k, l \in 1..Len(s) : s[k] = s[l] => k = l
          BY DEF ListedOnce
        <5> HIDE DEF s
        <5> QED BY <5>1, <5>2
      <4> QED BY <4>1
    <3>3. \A i \in 1..Len(t) : i = 1 \/ i \in 2..Len(s) + 1
      BY <1>5, <2>2
    <3> QED BY <2>2, <3>1, <3>2, <3>3
  <2>5. \A i \in 1..Len(t), j \in 1..Len(p.dln) : t[i] # p.dln[j]
    <3>1. \A i \in 1..Len(t) : t[i] \in {s[k] : k \in 1..Len(s)} \union {object}
      BY <2>2
    <3> QED BY <1>5, <3>1 DEF ListedOnce
  <2> QED BY <2>1, <2>3, <2>4, <2>5 DEF ListedOnce, r
<1>7. CASE list = "dln"
  <2> DEFINE s == p.dln
             t == entry \o s
  <2>1. r.dln = t /\ r.dl = p.dl
    BY <1>2, <1>3, <1>7 DEF Memory
  <2>2. /\ Len(t) = Len(s) + 1 /\ t[1] = object /\ \A i \in 2..Len(s) + 1 : t[i] = s[i - 1]
        /\ {t[i] : i \in 1..Len(s) + 1} = {s[i] : i \in 1..Len(s)} \union {object}
    BY <1>2, <1>4, <1>5
  <2> HIDE DEF t, r
  <2>3. OnLists(r) = OnLists(p) \union {object}
    <3>1. Len(t) = Len(s) + 1
      BY <2>2
    <3>2. OnLists(r) = {t[i] : i \in 1..Len(t)} \union {p.dl[i] : i \in 1..Len(p.dl)}
      BY <2>1 DEF OnLists
    <3>3. OnLists(p) = {s[i] : i \in 1..Len(s)} \union {p.dl[i] : i \in 1..Len(p.dl)}
      BY DEF OnLists
    <3> HIDE DEF s
    <3> QED BY <2>2, <3>1, <3>2, <3>3
  <2>4. \A i, j \in 1..Len(t) : t[i] = t[j] => i = j
    <3>1. \A i \in 2..Len(s) + 1 : i - 1 \in 1..Len(s) /\ t[i] # object
      BY <1>5, <2>2
    <3>2. \A i, j \in 2..Len(s) + 1 : t[i] = t[j] => i = j
      <4> SUFFICES ASSUME NEW i \in 2..Len(s) + 1, NEW j \in 2..Len(s) + 1, t[i] = t[j] PROVE i = j
        OBVIOUS
      <4>1. i - 1 = j - 1
        <5>1. i - 1 \in 1..Len(s) /\ j - 1 \in 1..Len(s) /\ s[i - 1] = s[j - 1]
          BY <2>2, <3>1
        <5>2. \A k, l \in 1..Len(s) : s[k] = s[l] => k = l
          BY DEF ListedOnce
        <5> HIDE DEF s
        <5> QED BY <5>1, <5>2
      <4> QED BY <4>1
    <3>3. \A i \in 1..Len(t) : i = 1 \/ i \in 2..Len(s) + 1
      BY <1>5, <2>2
    <3> QED BY <2>2, <3>1, <3>2, <3>3
  <2>5. \A i \in 1..Len(p.dl), j \in 1..Len(t) : p.dl[i] # t[j]
    <3>1. \A i \in 1..Len(t) : t[i] \in {s[k] : k \in 1..Len(s)} \union {object}
      BY <2>2
    <3> QED BY <1>5, <3>1 DEF ListedOnce
  <2> QED BY <2>1, <2>3, <2>4, <2>5 DEF ListedOnce, r
<1> QED BY <1>6, <1>7 DEF Lists

\* What free makes of the objects.
FreedFrom(objects, pool) ==
  [o \in 1..Len(objects) |->
     [pool |-> IF objects[o].pool = pool THEN 0 ELSE objects[o].pool,
      listed |-> objects[o].listed,
      destroyed |-> IF objects[o].pool \in {0, pool} /\ objects[o].listed THEN 1 ELSE 0]]

\* The record of an object whose count and pool are replaced.
LEMMA RecordFreed ==
  ASSUME NEW r \in ObjectRecord, NEW d, NEW q
  PROVE  [r EXCEPT !.destroyed = d, !.pool = q] = [pool |-> q, listed |-> r.listed, destroyed |-> d]
<1> DEFINE t == [r EXCEPT !.destroyed = d]
           u == [pool |-> r.pool, listed |-> r.listed, destroyed |-> d]
<1>1. [r EXCEPT !.destroyed = d, !.pool = q] = [t EXCEPT !.pool = q]
  OBVIOUS
<1>2. t = u
  BY DEF ObjectRecord
<1>3. [u EXCEPT !.pool = q] = [pool |-> q, listed |-> r.listed, destroyed |-> d]
  OBVIOUS
<1> HIDE DEF t, u
<1> QED BY <1>1, <1>2, <1>3

\* What free makes of each object of the pool.
LEMMA FreedIs ==
  ASSUME GrowInv, GrowListed, NEW pool \in Pools
  PROVE  Freed(pool) = FreedFrom(growObjects, pool)
<1> DEFINE entries == growPools[pool].dl \o growPools[pool].dln
           listed(o) == Cardinality({i \in DOMAIN entries : entries[i] = o})
<1>1. growObjects \in Seq(ObjectRecord) /\ DOMAIN growObjects = 1..Len(growObjects)
  BY LenProperties DEF GrowListed
<1>2. ASSUME NEW o \in 1..Len(growObjects)
      PROVE  [growObjects[o] EXCEPT !.destroyed = @ + listed(o), !.pool = IF @ = pool THEN 0 ELSE @]
               = FreedFrom(growObjects, pool)[o]
  <2>1. growObjects[o] \in ObjectRecord
    BY <1>1
  <2>2. listed(o) = IF growObjects[o].pool = pool /\ growObjects[o].listed THEN 1 ELSE 0
    <3>1. growPools[pool] \in Memory /\ ListedOnce(growPools[pool])
      BY DEF GrowInv, GrowListed
    <3>2. listed(o) = IF o \in OnLists(growPools[pool]) THEN 1 ELSE 0
      BY <3>1, ComesOnce
    <3>3. OnLists(growPools[pool]) = ListedIn(growObjects, pool)
      BY DEF GrowListed
    <3> QED BY <3>2, <3>3 DEF ListedIn
  <2>3. growObjects[o].destroyed = IF growObjects[o].pool = 0 /\ growObjects[o].listed THEN 1 ELSE 0
    BY DEF GrowListed, Destroyed
  <2>4. pool # 0
    BY DEF Pools
  <2> HIDE DEF listed
  <2>5. growObjects[o].destroyed + listed(o) = IF growObjects[o].pool \in {0, pool} /\ growObjects[o].listed THEN 1 ELSE 0
    BY <2>2, <2>3, <2>4
  <2> DEFINE r == growObjects[o]
             d == r.destroyed + listed(o)
             q == IF r.pool = pool THEN 0 ELSE r.pool
  <2>6. [r EXCEPT !.destroyed = d, !.pool = q] = [pool |-> q, listed |-> r.listed, destroyed |-> d]
    BY <2>1, RecordFreed
  <2>7. FreedFrom(growObjects, pool)[o] = [pool |-> q, listed |-> r.listed, destroyed |-> d]
    BY <2>5 DEF FreedFrom
  <2> QED BY <2>6, <2>7
<1>3. Freed(pool) = [o \in 1..Len(growObjects) |->
        [growObjects[o] EXCEPT !.destroyed = @ + listed(o), !.pool = IF @ = pool THEN 0 ELSE @]]
  BY <1>1 DEF Freed
<1> HIDE DEF listed
<1> QED BY <1>2, <1>3 DEF FreedFrom

\* After free, objects of the pool count as destructed and are of no pool.
LEMMA FreedListed ==
  ASSUME GrowInv, GrowListed, NEW pool \in Pools
  PROVE  /\ Freed(pool) \in Seq(ObjectRecord) /\ Len(Freed(pool)) = Len(growObjects)
         /\ Destroyed(Freed(pool)) /\ ListedIn(Freed(pool), pool) = {}
         /\ \A p \in Pools : p # pool => ListedIn(Freed(pool), p) = ListedIn(growObjects, p)
<1> DEFINE new == FreedFrom(growObjects, pool)
           n == Len(growObjects)
<1>1. growObjects \in Seq(ObjectRecord) /\ growObjects \in [1..n -> ObjectRecord] /\ n \in Nat
  BY LenProperties DEF GrowListed
<1>2. \A o \in 1..n : /\ new[o].pool = IF growObjects[o].pool = pool THEN 0 ELSE growObjects[o].pool
                      /\ new[o].listed = growObjects[o].listed
                      /\ new[o].destroyed = IF growObjects[o].pool \in {0, pool} /\ growObjects[o].listed THEN 1 ELSE 0
                      /\ new[o] \in ObjectRecord
  BY <1>1 DEF FreedFrom, ObjectRecord
<1>3. new \in [1..n -> ObjectRecord]
  <2>1. new = [o \in 1..n |-> new[o]]
    BY DEF FreedFrom
  <2> HIDE DEF new
  <2> QED BY <1>2, <2>1
<1> HIDE DEF new
<1>4. new \in Seq(ObjectRecord) /\ Len(new) = n
  <2>1. new \in Seq(ObjectRecord) /\ DOMAIN new = 1..n
    BY <1>1, <1>3, SeqDef
  <2>2. DOMAIN new = 1..Len(new) /\ Len(new) \in Nat
    BY <2>1, LenProperties
  <2> HIDE DEF n
  <2> QED BY <1>1, <2>1, <2>2
<1>5. Destroyed(new)
  BY <1>2, <1>4 DEF Destroyed, Pools
<1>6. ListedIn(new, pool) = {}
  BY <1>2, <1>4 DEF ListedIn, Pools
<1>7. ASSUME NEW p \in Pools, p # pool PROVE ListedIn(new, p) = ListedIn(growObjects, p)
  BY <1>2, <1>4, <1>7 DEF ListedIn, Pools
<1>8. Freed(pool) = new
  BY FreedIs DEF new
<1> QED BY <1>4, <1>5, <1>6, <1>7, <1>8

\* The lists of an empty pool are empty.
LEMMA NothingListed == ListedOnce(NoMemory) /\ OnLists(NoMemory) = {}
<1>1. NoMemory.dl = <<>> /\ NoMemory.dln = <<>> /\ Len(<<>>) = 0
  BY DEF NoMemory
<1> QED BY <1>1 DEF ListedOnce, OnLists

\* free leaves empty lists, and no object that should be on one.
LEMMA FreeListed ==
  ASSUME GrowInv, GrowListed, NEW pool \in Pools, GrowFree(pool)
  PROVE  GrowListed'
<1>1. growPools \in [Pools -> Memory]
  BY DEF GrowInv
<1>2. growObjects' = Freed(pool)
  BY DEF GrowFree
<1>3. \A p \in Pools : growPools'[p] = IF p = pool THEN NoMemory ELSE growPools[p]
  BY <1>1 DEF GrowFree
<1>4. ASSUME NEW p \in Pools
      PROVE  ListedOnce(growPools'[p]) /\ OnLists(growPools'[p]) = ListedIn(growObjects', p)
  <2>1. CASE p = pool
    BY <1>2, <1>3, <2>1, NothingListed, FreedListed
  <2>2. CASE p # pool
    BY <1>2, <1>3, <2>2, FreedListed DEF GrowListed
  <2> QED BY <2>1, <2>2
<1>5. growObjects' \in Seq(ObjectRecord) /\ Destroyed(growObjects')
  BY <1>2, FreedListed
<1> QED BY <1>4, <1>5 DEF GrowListed

\* The move assignment frees one pool and gives it the lists of the other.
LEMMA MoveListed ==
  ASSUME GrowInv, GrowListed, NEW to \in Pools, NEW from \in Pools, to # from, GrowMove(to, from)
  PROVE  GrowListed'
<1> DEFINE freed == Freed(to)
           new == [o \in DOMAIN growObjects |-> [freed[o] EXCEPT !.pool = IF @ = from THEN to ELSE @]]
           n == Len(growObjects)
<1>1. growPools \in [Pools -> Memory] /\ DOMAIN growObjects = 1..n /\ n \in Nat
  BY LenProperties DEF GrowInv, GrowListed
<1>2. /\ freed \in Seq(ObjectRecord) /\ Len(freed) = n
      /\ Destroyed(freed) /\ ListedIn(freed, to) = {} /\ ListedIn(freed, from) = ListedIn(growObjects, from)
  BY FreedListed
<1>3. growObjects' = new
  BY DEF GrowMove
<1>4. freed \in [1..n -> ObjectRecord]
  BY <1>2, LenProperties
<1> HIDE DEF freed
<1>5. \A o \in 1..n : /\ new[o].pool = IF freed[o].pool = from THEN to ELSE freed[o].pool
                      /\ new[o].listed = freed[o].listed /\ new[o].destroyed = freed[o].destroyed
                      /\ new[o] \in ObjectRecord
  BY <1>1, <1>4 DEF ObjectRecord, Pools
<1>6. new \in [1..n -> ObjectRecord]
  <2>1. new = [o \in 1..n |-> new[o]]
    BY <1>1
  <2> HIDE DEF new
  <2> QED BY <1>5, <2>1
<1> HIDE DEF new
<1>7. new \in Seq(ObjectRecord) /\ Len(new) = n
  <2>1. new \in Seq(ObjectRecord) /\ DOMAIN new = 1..n
    BY <1>1, <1>6, SeqDef
  <2>2. DOMAIN new = 1..Len(new) /\ Len(new) \in Nat
    BY <2>1, LenProperties
  <2> HIDE DEF n
  <2> QED BY <1>1, <2>1, <2>2
<1>8. Destroyed(new)
  BY <1>2, <1>5, <1>7 DEF Destroyed, Pools
<1>9. ListedIn(new, from) = {}
  BY <1>5, <1>7 DEF ListedIn
<1>10. ListedIn(new, to) = ListedIn(growObjects, from)
  <2>1. ListedIn(new, to) = ListedIn(freed, to) \union ListedIn(freed, from)
    BY <1>2, <1>5, <1>7 DEF ListedIn
  <2> QED BY <1>2, <2>1
<1>11. growPools'[to] = growPools[from] /\ growPools'[from] = NoMemory
  BY <1>1 DEF GrowMove
<1>12. ASSUME NEW p \in Pools
       PROVE  ListedOnce(growPools'[p]) /\ OnLists(growPools'[p]) = ListedIn(growObjects', p)
  <2>1. CASE p = from
    BY <1>3, <1>9, <1>11, <2>1, NothingListed
  <2>2. CASE p = to
    BY <1>3, <1>10, <1>11, <2>2 DEF GrowListed
  <2> QED BY <2>1, <2>2 DEF Pools
<1> QED BY <1>3, <1>7, <1>8, <1>12 DEF GrowListed

\* allocate puts the object on a list if something must be done when it is freed.
LEMMA AllocateListed ==
  ASSUME GrowInv, GrowListed, NEW pool \in Pools, NEW list \in Lists, NEW size \in Nat \ {0},
         NEW align \in 1..2, NEW trivial \in BOOLEAN,
         GrowAllocate(pool, list, size, align, trivial)
  PROVE  GrowListed'
<1> DEFINE big == size > GrowBlock
           listed == big \/ ~trivial
           object == Len(growObjects) + 1
           enlisted == IF listed THEN Enlist(growPools[pool], list, object) ELSE growPools[pool]
           p == IF big THEN enlisted ELSE SmallAlloc(enlisted, size, align)
           entry == [pool |-> pool, listed |-> listed, destroyed |-> 0]
           n == Len(growObjects)
           new == Append(growObjects, entry)
<1>1. growPools' = [growPools EXCEPT ![pool] = p] /\ growObjects' = new
  BY DEF GrowAllocate
<1>2. n \in Nat /\ growObjects \in Seq(ObjectRecord) /\ entry \in ObjectRecord
  BY LenProperties DEF GrowListed, ObjectRecord, Pools
<1>3. /\ new \in Seq(ObjectRecord) /\ Len(new) = n + 1
      /\ \A o \in 1..n : new[o] = growObjects[o]
      /\ new[n + 1] = entry
  BY <1>2, AppendProperties
<1>4. \A q \in Pools : ListedIn(new, q) = ListedIn(growObjects, q) \union (IF q = pool /\ listed THEN {object} ELSE {})
  <2>1. \A o \in 1..n + 1 : o \in 1..n \/ o = n + 1
    BY <1>2
  <2>2. \A o \in 1..n : o \in 1..n + 1
    BY <1>2
  <2>3. entry.pool = pool /\ entry.listed = listed /\ n + 1 \in 1..n + 1
    BY <1>2
  <2> HIDE DEF new, entry, listed
  <2> QED BY <1>3, <2>1, <2>2, <2>3 DEF ListedIn
<1>5. Destroyed(new)
  <2>1. \A o \in 1..n + 1 : o \in 1..n \/ o = n + 1
    BY <1>2
  <2>2. entry.destroyed = 0 /\ entry.pool # 0
    BY DEF Pools
  <2> HIDE DEF new, entry
  <2> QED BY <1>3, <2>1, <2>2 DEF GrowListed, Destroyed
<1>6. Placed(growPools[pool]) /\ ListedOnce(growPools[pool]) /\ OnLists(growPools[pool]) = ListedIn(growObjects, pool)
  BY DEF GrowInv, GrowListed
<1>7. object \in Nat /\ object \notin OnLists(growPools[pool])
  BY <1>2, <1>6 DEF ListedIn
<1>8. Placed(enlisted)
  BY <1>6, <1>7, EnlistPlaced
<1>9. ListedOnce(enlisted) /\ OnLists(enlisted) = OnLists(growPools[pool]) \union (IF listed THEN {object} ELSE {})
  BY <1>6, <1>7, EnlistLists
<1>10. p.dl = enlisted.dl /\ p.dln = enlisted.dln
  <2>1. enlisted \in Memory
    BY <1>8 DEF Placed
  <2> HIDE DEF enlisted
  <2> QED BY <2>1, SmallAllocLists
<1> HIDE DEF p, enlisted, new, listed, object
<1>11. ListedOnce(p) /\ OnLists(p) = OnLists(enlisted)
  BY <1>9, <1>10 DEF ListedOnce, OnLists
<1>12. growPools \in [Pools -> Memory]
  BY DEF GrowInv
<1>13. ASSUME NEW q \in Pools
       PROVE  ListedOnce(growPools'[q]) /\ OnLists(growPools'[q]) = ListedIn(growObjects', q)
  <2>1. CASE q = pool
    <3>1. growPools'[q] = p
      BY <1>1, <1>12, <2>1
    <3> QED BY <1>1, <1>4, <1>6, <1>9, <1>11, <2>1, <3>1
  <2>2. CASE q # pool
    <3>1. growPools'[q] = growPools[q]
      BY <1>1, <1>12, <2>2
    <3> QED BY <1>1, <1>4, <2>2, <3>1 DEF GrowListed
  <2> QED BY <2>1, <2>2
<1> QED BY <1>1, <1>3, <1>5, <1>13 DEF GrowListed

\* Every operation keeps the lists and the objects in step.
LEMMA GrowListedInductive == GrowInv /\ GrowListed /\ [GrowNext]_growVars => GrowListed'
<1> SUFFICES ASSUME GrowInv, GrowListed, [GrowNext]_growVars PROVE GrowListed'
  OBVIOUS
<1>1. CASE UNCHANGED growVars
  BY <1>1 DEF growVars, GrowListed
<1>2. ASSUME NEW pool \in Pools, NEW list \in Lists, NEW size \in {1, 2, GrowBlock + 1},
             NEW align \in 1..2, NEW trivial \in BOOLEAN,
             GrowAllocate(pool, list, size, align, trivial)
      PROVE  GrowListed'
  <2>1. size \in Nat \ {0}
    BY GrowAssumption
  <2> QED BY <1>2, <2>1, AllocateListed
<1> QED BY <1>1, <1>2, FreeListed, MoveListed DEF GrowNext

\* An object on one list is destructed once, by whoever frees that list.
LEMMA GrowListedOnce == GrowInv /\ GrowListed => GrowDestroyedOnce
<1> SUFFICES ASSUME GrowInv, GrowListed, NEW o \in DOMAIN growObjects
             PROVE  LET object == growObjects[o]
                        listings == {l \in Pools \X Lists : \E i \in DOMAIN growPools[l[1]][l[2]] : growPools[l[1]][l[2]][i] = o}
                    IN IF object.pool = 0
                         THEN listings = {} /\ object.destroyed = (IF object.listed THEN 1 ELSE 0)
                         ELSE /\ object.destroyed = 0
                              /\ Cardinality(listings) = (IF object.listed THEN 1 ELSE 0)
                              /\ \A l \in listings : l[1] = object.pool
  BY DEF GrowDestroyedOnce
<1> DEFINE object == growObjects[o]
           on(p, l) == \E i \in DOMAIN growPools[p][l] : growPools[p][l][i] = o
           listings == {l \in Pools \X Lists : on(l[1], l[2])}
<1>1. o \in 1..Len(growObjects) /\ object \in ObjectRecord
  BY LenProperties DEF GrowListed
<1>2. object.destroyed = IF object.pool = 0 /\ object.listed THEN 1 ELSE 0
  BY <1>1 DEF GrowListed, Destroyed
<1>3. ASSUME NEW p \in Pools
      PROVE  /\ (on(p, "dl") \/ on(p, "dln")) <=> (object.pool = p /\ object.listed)
             /\ ~(on(p, "dl") /\ on(p, "dln"))
  <2>1. growPools[p].dl \in Seq(Nat) /\ growPools[p].dln \in Seq(Nat)
    BY DEF GrowInv, Memory
  <2>2. DOMAIN growPools[p].dl = 1..Len(growPools[p].dl) /\ DOMAIN growPools[p].dln = 1..Len(growPools[p].dln)
    BY <2>1, LenProperties
  <2>3. on(p, "dl") \/ on(p, "dln") <=> o \in OnLists(growPools[p])
    BY <2>2 DEF OnLists
  <2>4. OnLists(growPools[p]) = ListedIn(growObjects, p) /\ ListedOnce(growPools[p])
    BY DEF GrowListed
  <2> QED BY <1>1, <2>2, <2>3, <2>4 DEF ListedIn, ListedOnce
<1> HIDE DEF on
<1>4. \A l \in listings : l[1] = object.pool /\ object.listed
  BY <1>3 DEF Lists
<1>5. CASE object.pool = 0
  <2>1. listings = {}
    BY <1>4, <1>5 DEF Pools
  <2> QED BY <1>2, <1>5, <2>1 DEF on
<1>6. CASE object.pool # 0 /\ ~object.listed
  <2>1. listings = {}
    BY <1>4, <1>6
  <2> QED BY <1>2, <1>6, <2>1, FS_EmptySet DEF on
<1>7. CASE object.pool # 0 /\ object.listed
  <2>1. object.pool \in Pools
    BY <1>1, <1>7 DEF ObjectRecord, Pools
  <2>2. PICK l \in Lists : on(object.pool, l)
    BY <1>3, <1>7, <2>1 DEF Lists
  <2>3. \A m \in Lists : on(object.pool, m) => m = l
    BY <1>3, <2>1, <2>2 DEF Lists
  <2>4. listings = {<<object.pool, l>>}
    BY <1>4, <2>1, <2>2, <2>3
  <2>5. Cardinality(listings) = 1
    BY <2>4, FS_Singleton
  <2> QED BY <1>2, <1>4, <1>7, <2>5 DEF on
<1> QED BY <1>5, <1>6, <1>7, <1>1 DEF ObjectRecord

\* There are no objects and no lists at first.
LEMMA GrowListedInitially == GrowInit => GrowListed
<1> SUFFICES ASSUME GrowInit PROVE GrowListed
  OBVIOUS
<1>1. growObjects = <<>> /\ growPools = [p \in Pools |-> NoMemory]
  BY DEF GrowInit
<1>2. growObjects \in Seq(ObjectRecord) /\ Len(growObjects) = 0
  BY <1>1, EmptySeq
<1>3. ASSUME NEW p \in Pools PROVE ListedOnce(growPools[p]) /\ OnLists(growPools[p]) = ListedIn(growObjects, p)
  <2>1. growPools[p] = NoMemory
    BY <1>1
  <2>2. NoMemory.dl = <<>> /\ NoMemory.dln = <<>>
    BY DEF NoMemory
  <2>3. Len(growPools[p].dl) = 0 /\ Len(growPools[p].dln) = 0
    BY <2>1, <2>2
  <2> QED BY <1>2, <2>3 DEF ListedOnce, OnLists, ListedIn
<1> QED BY <1>2, <1>3 DEF GrowListed, Destroyed

\* There are no more objects than the bound allows.
GrowBounded == DOMAIN growObjects \subseteq 1..GrowMaxObjects

\* Only allocate adds an object.
LEMMA GrowBoundedKept == GrowListed /\ GrowBounded /\ [GrowNext]_growVars => GrowBounded'
<1> SUFFICES ASSUME GrowListed, GrowBounded, [GrowNext]_growVars PROVE GrowBounded'
  OBVIOUS
<1>1. growObjects \in Seq(ObjectRecord) /\ GrowMaxObjects \in Nat
  BY GrowAssumption DEF GrowListed
<1>2. CASE UNCHANGED growVars
  BY <1>2 DEF growVars, GrowBounded
<1>3. ASSUME Len(growObjects) < GrowMaxObjects, NEW e, growObjects' = Append(growObjects, e)
      PROVE  GrowBounded'
  <2>1. DOMAIN growObjects' = 1..Len(growObjects) + 1 /\ Len(growObjects) \in Nat
    BY <1>1, <1>3
  <2> QED BY <1>1, <1>3, <2>1 DEF GrowBounded
<1>4. ASSUME NEW pool, GrowFree(pool) PROVE GrowBounded'
  BY <1>4 DEF GrowFree, Freed, GrowBounded
<1>5. ASSUME NEW to, NEW from, GrowMove(to, from) PROVE GrowBounded'
  BY <1>5 DEF GrowMove, GrowBounded
<1> QED BY <1>2, <1>3, <1>4, <1>5 DEF GrowNext, GrowAllocate

\* There is none at first.
LEMMA GrowBoundedInitially == GrowInit => GrowBounded
BY DEF GrowInit, GrowBounded

\* What the invariants say of the types.
LEMMA GrowInvTyped == GrowInv /\ GrowListed /\ GrowBounded => GrowTypeOK
<1> SUFFICES ASSUME GrowInv, GrowListed, GrowBounded PROVE GrowTypeOK
  OBVIOUS
<1>1. ASSUME NEW p \in Pools
      PROVE  growPools[p].blocks \in Nat /\ growPools[p].top \in 0..GrowBlock
  BY GrowAssumption DEF GrowInv, Placed, Memory
<1>2. ASSUME NEW s \in Seq(Nat), \A i \in 1..Len(s) : s[i] \in DOMAIN growObjects
      PROVE  s \in Seq(1..GrowMaxObjects)
  <2>1. Len(s) \in Nat /\ s \in [1..Len(s) -> 1..GrowMaxObjects]
    BY <1>2 DEF GrowBounded
  <2> QED BY <2>1, SequenceIs
<1>3. ASSUME NEW p \in Pools, NEW l \in Lists PROVE growPools[p][l] \in Seq(1..GrowMaxObjects)
  <2>1. growPools[p].dl \in Seq(Nat) /\ growPools[p].dln \in Seq(Nat)
    BY DEF GrowInv, Memory
  <2>2. OnLists(growPools[p]) \subseteq DOMAIN growObjects
    BY DEF GrowListed, ListedIn
  <2>3. growPools[p].dl \in Seq(1..GrowMaxObjects)
    BY <1>2, <2>1, <2>2 DEF OnLists
  <2>4. growPools[p].dln \in Seq(1..GrowMaxObjects)
    BY <1>2, <2>1, <2>2 DEF OnLists
  <2> QED BY <2>3, <2>4 DEF Lists
<1>4. growObjects \in Seq([pool : 0..2, listed : BOOLEAN, destroyed : Nat])
  BY DEF GrowListed, ObjectRecord
<1> QED BY <1>1, <1>3, <1>4 DEF GrowTypeOK

-----------------------------------------------------------------------------
(* FreelistBlockAllocator *)

\* The m elements of s are the free list, each linked to the one behind it.
Linked(n, m, s) ==
  /\ m \in 0..n /\ s \in [1..m -> 1..n]
  /\ \A i, j \in 1..m : s[i] = s[j] => i = j
  /\ freeHead = IF m = 0 THEN 0 ELSE s[1]
  /\ \A i \in 1..m : freeNext[s[i]] = IF i = m THEN 0 ELSE s[i + 1]

Members(m, s) == {s[i] : i \in 1..m}

\* The elements of whole blocks hold an object with a next of nullptr, or are linked.
FreeShape(n) ==
  /\ \E k \in 0..FreeMaxBlocks : n = FreeBlock * k
  /\ freeNext \in [1..n -> 0..n] /\ freeHolds \in [1..n -> {"object", "zeros"}]
  /\ \A e \in 1..n : freeHolds[e] = "object" => freeNext[e] = 0

FreeInv ==
  /\ FreeDestructs
  /\ \E n \in Nat : /\ FreeShape(n)
                    /\ \E m, s : Linked(n, m, s) /\ Members(m, s) = {e \in 1..n : freeHolds[e] # "object"}

\* The elements are numbered from one.
LEMMA ElementsAre ==
  ASSUME NEW n \in Nat, FreeShape(n)
  PROVE  Elements = 1..n /\ Cardinality(Elements) = n
<1>1. Elements = 1..n
  BY DEF FreeShape, Elements
<1>2. Cardinality(1..n) = n
  BY FS_Interval
<1> QED BY <1>1, <1>2

\* Following the list from alloc_list comes to its elements and no other.
LEMMA OnListIs ==
  ASSUME NEW n \in Nat, FreeShape(n), NEW m, NEW s, Linked(n, m, s)
  PROVE  OnList = Members(m, s)
<1> DEFINE step(x) == IF x = 0 THEN 0 ELSE freeNext[x]
           F(f) == [i \in 0..n |-> IF i = 0 THEN freeHead ELSE IF f[i - 1] = 0 THEN 0 ELSE freeNext[f[i - 1]]]
           g == [i \in 0..n |-> IF i < m THEN s[i + 1] ELSE 0]
           M == CHOOSE f : f = F(f)
<1>0. m \in 0..n /\ m \in Nat /\ s \in [1..m -> 1..n]
  BY DEF Linked
<1>1. ASSUME NEW i \in 0..n PROVE g[i] = F(g)[i]
  <2>1. CASE i = 0
    BY <1>0, <2>1 DEF Linked
  <2>2. CASE i # 0
    <3>1. i - 1 \in 0..n /\ (i - 1) + 1 = i
      BY <2>2
    <3>2. CASE i - 1 < m
      <4>1. i \in 1..m /\ g[i - 1] = s[i]
        BY <1>0, <2>2, <3>1, <3>2
      <4>2. s[i] # 0 /\ freeNext[s[i]] = IF i = m THEN 0 ELSE s[i + 1]
        BY <1>0, <4>1 DEF Linked
      <4>3. g[i] = IF i = m THEN 0 ELSE s[i + 1]
        BY <1>0, <4>1
      <4> QED BY <2>2, <4>1, <4>2, <4>3
    <3>3. CASE ~(i - 1 < m)
      <4>1. g[i - 1] = 0 /\ g[i] = 0
        BY <1>0, <3>1, <3>3
      <4> QED BY <2>2, <4>1
    <3> QED BY <3>2, <3>3
  <2> QED BY <2>1, <2>2
<1>2. M = F(M)
  <2>1. g = F(g)
    BY <1>1
  <2> HIDE DEF F, g
  <2> QED BY <2>1
<1>3. OnList = {M[i] : i \in 0..n} \ {0}
  <2>1. Cardinality(Elements) = n
    BY ElementsAre
  <2> QED BY <2>1 DEF OnList
<1> DEFINE T == {i \in Nat : i <= n => M[i] = g[i]}
<1> HIDE DEF M
<1>4. 0 \in T
  <2>1. \A f : F(f)[0] = freeHead
    OBVIOUS
  <2>2. 0 \in 0..n
    OBVIOUS
  <2> HIDE DEF F, g
  <2>3. M[0] = F(M)[0]
    BY <1>2
  <2>4. g[0] = F(g)[0]
    BY <1>1, <2>2
  <2> QED BY <2>1, <2>3, <2>4
<1>5. ASSUME NEW i \in Nat, i \in T PROVE i + 1 \in T
  <2> SUFFICES ASSUME i + 1 <= n PROVE M[i + 1] = g[i + 1]
    OBVIOUS
  <2>1. M[i] = g[i] /\ i + 1 \in 0..n /\ i + 1 # 0 /\ (i + 1) - 1 = i
    BY <1>5
  <2>2. \A f : F(f)[i + 1] = step(f[i])
    BY <2>1
  <2>3. g[i + 1] = F(g)[i + 1]
    BY <1>1, <2>1
  <2>4. M[i + 1] = F(M)[i + 1]
    BY <1>2
  <2> HIDE DEF g, F, step
  <2> QED BY <2>1, <2>2, <2>3, <2>4
<1>6. \A i \in 0..n : M[i] = g[i]
  <2>1. Nat \subseteq T
    <3> HIDE DEF T
    <3> QED BY <1>4, <1>5, SetInduction
  <2>2. \A i \in 0..n : i \in Nat /\ i <= n
    OBVIOUS
  <2> HIDE DEF g
  <2> QED BY <2>1, <2>2
<1>7. {g[i] : i \in 0..n} \ {0} = Members(m, s)
  <2>1. ASSUME NEW i \in 0..n, g[i] # 0 PROVE g[i] \in Members(m, s)
    <3>1. i < m /\ i + 1 \in 1..m /\ g[i] = s[i + 1]
      BY <1>0, <2>1
    <3> QED BY <3>1 DEF Members
  <2>2. ASSUME NEW i \in 1..m PROVE s[i] \in {g[j] : j \in 0..n} /\ s[i] # 0
    <3>1. i - 1 \in 0..n /\ i - 1 < m /\ (i - 1) + 1 = i
      BY <1>0
    <3>2. g[i - 1] = s[i]
      BY <3>1
    <3> HIDE DEF g
    <3> QED BY <1>0, <3>1, <3>2
  <2> QED BY <2>1, <2>2 DEF Members
<1>8. {M[i] : i \in 0..n} = {g[i] : i \in 0..n}
  BY <1>6
<1> QED BY <1>3, <1>7, <1>8

\* The invariant says that an element is free or has an object, and that nothing was missed.
LEMMA FreeInvPlaced == FreeInv => FreePlaced /\ FreeDestructs
<1> SUFFICES ASSUME FreeInv PROVE FreePlaced /\ FreeDestructs
  OBVIOUS
<1>1. PICK n \in Nat : /\ FreeShape(n)
                       /\ \E m, s : Linked(n, m, s) /\ Members(m, s) = {e \in 1..n : freeHolds[e] # "object"}
  BY DEF FreeInv
<1>2. PICK m, s : Linked(n, m, s) /\ Members(m, s) = {e \in 1..n : freeHolds[e] # "object"}
  BY <1>1
<1>3. OnList = Members(m, s) /\ Elements = 1..n
  BY <1>1, <1>2, OnListIs, ElementsAre
<1> QED BY <1>2, <1>3 DEF FreeInv, FreePlaced, Objects

\* The invariant from a list that is there.
LEMMA FreeInvFrom ==
  ASSUME NEW n \in Nat, FreeShape(n)', NEW m, NEW s, Linked(n, m, s)',
         Members(m, s) = {e \in 1..n : freeHolds'[e] # "object"}, FreeDestructs'
  PROVE  FreeInv'
  BY DEF FreeInv, Members

\* The list is empty before the first block.
LEMMA FreeInitInv == FreeInit => FreeInv
<1> SUFFICES ASSUME FreeInit PROVE FreeInv
  OBVIOUS
<1>1. <<>> \in [1..0 -> 1..0] /\ <<>> \in [1..0 -> 0..0] /\ <<>> \in [1..0 -> {"object", "zeros"}]
  OBVIOUS
<1>2. FreeShape(0)
  <2>1. 0 \in 0..FreeMaxBlocks /\ 0 = FreeBlock * 0
    BY FreelistAssumption
  <2> QED BY <1>1, <2>1 DEF FreeShape, FreeInit
<1>3. Linked(0, 0, <<>>) /\ Members(0, <<>>) = {e \in 1..0 : freeHolds[e] # "object"}
  BY <1>1 DEF Linked, Members, FreeInit
<1>4. FreeDestructs
  <2>1. DOMAIN freeStray = {} /\ freeUntouched = {}
    BY DEF FreeInit
  <2> QED BY <2>1, FS_EmptySet DEF FreeDestructs
<1> QED BY <1>2, <1>3, <1>4, 0 \in Nat DEF FreeInv

\* allocate: from the list, or from a new block if the list is empty.
LEMMA FreeAllocateInv ==
  ASSUME FreeInv, FreeAllocate
  PROVE  FreeInv'
<1>1. PICK n \in Nat : /\ FreeShape(n)
                       /\ \E m, s : Linked(n, m, s) /\ Members(m, s) = {e \in 1..n : freeHolds[e] # "object"}
  BY DEF FreeInv
<1>2. PICK m, s : Linked(n, m, s) /\ Members(m, s) = {e \in 1..n : freeHolds[e] # "object"}
  BY <1>1
<1>3. Elements = 1..n /\ Cardinality(Elements) = n
  BY <1>1, ElementsAre
<1>4. m \in 0..n /\ m \in Nat /\ s \in [1..m -> 1..n] /\ freeNext \in [1..n -> 0..n] /\ DOMAIN freeNext = 1..n
  BY <1>1, <1>2 DEF Linked, FreeShape
<1>5. FreeDestructs'
  BY DEF FreeInv, FreeAllocate, FreeDestructs
<1>6. CASE m # 0
  <2> DEFINE e == s[1]
             t == [i \in 1..m - 1 |-> s[i + 1]]
  <2>1. freeHead # 0 /\ freeHead = e /\ e \in 1..n
    BY <1>2, <1>4, <1>6 DEF Linked
  <2>2. /\ freeHead' = freeNext[e] /\ freeNext' = [freeNext EXCEPT ![e] = 0]
        /\ freeHolds' = [x \in 1..n |-> IF x = e THEN "object" ELSE freeHolds[x]]
    BY <1>3, <1>4, <2>1 DEF FreeAllocate
  <2> HIDE DEF e
  <2>3. FreeShape(n)'
    BY <1>1, <1>4, <2>1, <2>2 DEF FreeShape
  <2>4. \A i \in 1..m - 1 : i + 1 \in 1..m /\ s[i + 1] # e /\ i + 1 # 1
    BY <1>2, <1>4, <1>6 DEF Linked, e
  <2>5. Linked(n, m - 1, t)'
    <3>1. m - 1 \in 0..n /\ t \in [1..m - 1 -> 1..n]
      BY <1>4, <1>6, <2>4
    <3>2. \A i, j \in 1..m - 1 : t[i] = t[j] => i = j
      <4> SUFFICES ASSUME NEW i \in 1..m - 1, NEW j \in 1..m - 1, t[i] = t[j] PROVE i = j
        OBVIOUS
      <4>1. i + 1 = j + 1
        BY <1>2, <2>4 DEF Linked
      <4> QED BY <4>1
    <3>3. freeHead' = IF m - 1 = 0 THEN 0 ELSE t[1]
      <4>1. freeNext[e] = IF 1 = m THEN 0 ELSE s[2]
        BY <1>2, <1>4, <1>6 DEF Linked, e
      <4>2. m - 1 # 0 => t[1] = s[2]
        BY <1>4, <1>6
      <4> QED BY <1>4, <2>2, <4>1, <4>2
    <3>4. ASSUME NEW i \in 1..m - 1 PROVE freeNext'[t[i]] = IF i = m - 1 THEN 0 ELSE t[i + 1]
      <4>1. freeNext'[t[i]] = freeNext[s[i + 1]]
        BY <1>4, <2>2, <2>4
      <4>2. freeNext[s[i + 1]] = IF i + 1 = m THEN 0 ELSE s[i + 1 + 1]
        BY <1>2, <2>4 DEF Linked
      <4>3. i # m - 1 => i + 1 \in 1..m - 1
        BY <1>4
      <4> QED BY <1>4, <4>1, <4>2, <4>3
    <3> QED BY <3>1, <3>2, <3>3, <3>4 DEF Linked
  <2>6. Members(m - 1, t) = {x \in 1..n : freeHolds'[x] # "object"}
    <3>1. \A x \in 1..n : freeHolds'[x] # "object" <=> x # e /\ freeHolds[x] # "object"
      BY <2>2
    <3>2. \A i \in 1..m : i = 1 \/ (i - 1 \in 1..m - 1 /\ (i - 1) + 1 = i)
      BY <1>4
    <3>3. Members(m - 1, t) = Members(m, s) \ {e}
      <4>1. ASSUME NEW i \in 1..m, s[i] # e PROVE s[i] \in Members(m - 1, t)
        <5>1. i - 1 \in 1..m - 1 /\ t[i - 1] = s[i]
          BY <3>2, <4>1 DEF e
        <5> QED BY <5>1 DEF Members
      <4>2. ASSUME NEW i \in 1..m - 1 PROVE t[i] \in Members(m, s) \ {e}
        BY <2>4 DEF Members
      <4> QED BY <4>1, <4>2 DEF Members
    <3> QED BY <1>2, <3>1, <3>3
  <2> HIDE DEF t
  <2> QED BY <1>5, <2>3, <2>5, <2>6, FreeInvFrom
<1>7. CASE m = 0
  <2> DEFINE b == FreeBlock
             e == n + 1
             k == n + b
             next == [x \in 1..k |-> IF x <= n THEN freeNext[x] ELSE IF x < k THEN x + 1 ELSE 0]
             t == [i \in 1..b - 1 |-> n + 1 + i]
  <2>0. b \in Nat /\ b >= 1 /\ k \in Nat /\ e \in 1..k
    BY FreelistAssumption
  <2>1. freeHead = 0 /\ \A x \in 1..n : freeHolds[x] = "object"
    BY <1>2, <1>7 DEF Linked, Members
  <2>2. /\ n < FreeBlock * FreeMaxBlocks
        /\ freeHead' = next[e] /\ freeNext' = [next EXCEPT ![e] = 0]
        /\ freeHolds' = [x \in DOMAIN next |-> IF x = e THEN "object" ELSE IF x \in 1..n THEN freeHolds[x] ELSE "zeros"]
    BY <1>3, <2>1 DEF FreeAllocate, NewBlockNext
  <2>3. \A x \in 1..k : freeNext'[x] = IF x = e THEN 0 ELSE IF x <= n THEN freeNext[x] ELSE IF x < k THEN x + 1 ELSE 0
    BY <2>0, <2>2
  <2>4. DOMAIN freeNext' = 1..k
    BY <2>2
  <2>5. \A x \in 1..k : freeHolds'[x] = IF x <= e THEN "object" ELSE "zeros"
    BY <2>0, <2>1, <2>2
  <2> HIDE DEF next
  <2>6. FreeShape(k)'
    <3>1. \E j \in 0..FreeMaxBlocks : k = FreeBlock * j
      <4>1. PICK j \in 0..FreeMaxBlocks : n = FreeBlock * j
        BY <1>1 DEF FreeShape
      <4>2. j # FreeMaxBlocks
        BY <2>2, <4>1, FreelistAssumption
      <4>3. j + 1 \in 0..FreeMaxBlocks
        BY <4>2, FreelistAssumption
      <4>4. k = FreeBlock * (j + 1)
        BY <2>0, <4>1
      <4> QED BY <4>3, <4>4
    <3>2. freeNext' \in [1..k -> 0..k]
      <4>1. ASSUME NEW x \in 1..k PROVE freeNext'[x] \in 0..k
        <5>1. x <= n => freeNext[x] \in 0..k
          <6>1. x <= n => x \in 1..n
            OBVIOUS
          <6>2. \A y \in 0..n : y \in 0..k
            BY <2>0
          <6> QED BY <1>4, <6>1, <6>2
        <5>2. x < k => x + 1 \in 0..k
          BY <2>0
        <5>3. 0 \in 0..k
          BY <2>0
        <5> HIDE DEF k, e
        <5> QED BY <2>3, <5>1, <5>2, <5>3
      <4>2. freeNext' = [x \in 1..k |-> freeNext'[x]]
        BY <2>2, <2>4
      <4> QED BY <4>1, <4>2
    <3>3. freeHolds' \in [1..k -> {"object", "zeros"}]
      <4>1. freeHolds' = [x \in 1..k |-> freeHolds'[x]]
        BY <2>2 DEF next
      <4> QED BY <2>5, <4>1
    <3>4. \A x \in 1..k : freeHolds'[x] = "object" => freeNext'[x] = 0
      <4> SUFFICES ASSUME NEW x \in 1..k, freeHolds'[x] = "object" PROVE freeNext'[x] = 0
        OBVIOUS
      <4>1. x = e \/ x \in 1..n
        BY <2>5
      <4> QED BY <1>1, <2>1, <2>3, <4>1 DEF FreeShape
    <3> QED BY <3>1, <3>2, <3>3, <3>4 DEF FreeShape
  <2>7. Linked(k, b - 1, t)'
    <3>1. b - 1 \in 0..k /\ t \in [1..b - 1 -> 1..k]
      BY <2>0
    <3>2. freeHead' = IF b - 1 = 0 THEN 0 ELSE t[1]
      <4>1. freeHead' = IF e < k THEN e + 1 ELSE 0
        BY <2>0, <2>2 DEF next
      <4>2. b - 1 # 0 => t[1] = n + 1 + 1
        BY <2>0
      <4> QED BY <2>0, <4>1, <4>2
    <3>3. ASSUME NEW i \in 1..b - 1 PROVE freeNext'[t[i]] = IF i = b - 1 THEN 0 ELSE t[i + 1]
      <4>1. t[i] \in 1..k /\ t[i] = n + 1 + i /\ t[i] # e /\ ~(t[i] <= n)
        BY <2>0
      <4>2. freeNext'[t[i]] = IF n + 1 + i < k THEN n + 1 + i + 1 ELSE 0
        BY <2>3, <4>1
      <4>3. i # b - 1 => t[i + 1] = n + 1 + i + 1
        BY <2>0
      <4> QED BY <2>0, <4>2, <4>3
    <3>4. \A i, j \in 1..b - 1 : t[i] = t[j] => i = j
      BY <2>0
    <3> HIDE DEF t, k, b
    <3> QED BY <3>1, <3>2, <3>3, <3>4 DEF Linked
  <2>8. Members(b - 1, t) = {x \in 1..k : freeHolds'[x] # "object"}
    <3>1. \A x \in 1..k : freeHolds'[x] # "object" <=> e < x
      BY <2>0, <2>5
    <3>2. ASSUME NEW i \in 1..b - 1 PROVE t[i] \in 1..k /\ e < t[i]
      BY <2>0
    <3>3. ASSUME NEW x \in 1..k, e < x PROVE x \in Members(b - 1, t)
      <4>1. x - e \in 1..b - 1 /\ t[x - e] = x
        BY <2>0, <3>3
      <4> HIDE DEF t, b, e
      <4> QED BY <4>1 DEF Members
    <3> QED BY <3>1, <3>2, <3>3 DEF Members
  <2> HIDE DEF t, k
  <2> QED BY <1>5, <2>0, <2>6, <2>7, <2>8, FreeInvFrom
<1> QED BY <1>6, <1>7

\* free: an object becomes the first of the list.
LEMMA FreeElementInv ==
  ASSUME FreeInv, NEW e \in Objects, FreeElement(e)
  PROVE  FreeInv'
<1>1. PICK n \in Nat : /\ FreeShape(n)
                       /\ \E m, s : Linked(n, m, s) /\ Members(m, s) = {x \in 1..n : freeHolds[x] # "object"}
  BY DEF FreeInv
<1>2. PICK m, s : Linked(n, m, s) /\ Members(m, s) = {x \in 1..n : freeHolds[x] # "object"}
  BY <1>1
<1>3. Elements = 1..n /\ e \in 1..n /\ freeHolds[e] = "object"
  BY <1>1, ElementsAre DEF Objects
<1>4. /\ m \in 0..n /\ m \in Nat /\ s \in [1..m -> 1..n] /\ freeNext \in [1..n -> 0..n]
      /\ freeHolds \in [1..n -> {"object", "zeros"}]
  BY <1>1, <1>2 DEF Linked, FreeShape
<1>5. FreeDestructs'
  BY DEF FreeInv, FreeElement, FreeDestructs
<1>6. /\ freeNext' = [freeNext EXCEPT ![e] = freeHead] /\ freeHead' = e
      /\ \A x \in 1..n : freeHolds'[x] = IF x = e THEN "zeros" ELSE freeHolds[x]
      /\ freeHolds' \in [1..n -> {"object", "zeros"}]
  BY <1>3, <1>4 DEF FreeElement, Zeroed, Destructed
<1>7. e \notin Members(m, s)
  BY <1>2, <1>3
<1>8. m + 1 \in 0..n
  <2>1. s \in Injection(1..m, (1..n) \ {e})
    <3>1. \A i \in 1..m : s[i] \in (1..n) \ {e}
      BY <1>4, <1>7 DEF Members
    <3>2. s \in [1..m -> (1..n) \ {e}]
      BY <1>4, <3>1
    <3>3. \A i, j \in 1..m : s[i] = s[j] => i = j
      BY <1>2 DEF Linked
    <3> QED BY <3>2, <3>3 DEF Injection, IsInjective
  <2>2. IsFiniteSet(1..n) /\ Cardinality(1..n) = n /\ Cardinality(1..m) = m
    BY <1>4, FS_Interval
  <2>3. IsFiniteSet((1..n) \ {e}) /\ Cardinality((1..n) \ {e}) = n - 1
    BY <1>3, <2>2, FS_RemoveElement
  <2>4. m <= n - 1
    BY <2>1, <2>2, <2>3, FS_Injection
  <2> QED BY <1>4, <2>4
<1> DEFINE t == [i \in 1..m + 1 |-> IF i = 1 THEN e ELSE s[i - 1]]
<1>9. \A i \in 1..m + 1 : i = 1 \/ (i - 1 \in 1..m /\ i # 1 /\ t[i] = s[i - 1] /\ s[i - 1] # e)
  BY <1>4, <1>7 DEF Members
<1>10. t[1] = e
  BY <1>4
<1>11. FreeShape(n)'
  <2>1. freeHead \in 0..n
    BY <1>2, <1>4 DEF Linked
  <2>2. freeNext' \in [1..n -> 0..n]
    BY <1>3, <1>4, <1>6, <2>1
  <2>3. \A x \in 1..n : freeHolds'[x] = "object" => freeNext'[x] = 0
    BY <1>1, <1>3, <1>4, <1>6 DEF FreeShape
  <2> QED BY <1>1, <1>6, <2>2, <2>3 DEF FreeShape
<1>12. Linked(n, m + 1, t)'
  <2>1. t \in [1..m + 1 -> 1..n]
    BY <1>3, <1>4
  <2>2. \A i, j \in 1..m + 1 : t[i] = t[j] => i = j
    <3> SUFFICES ASSUME NEW i \in 1..m + 1, NEW j \in 1..m + 1, t[i] = t[j] PROVE i = j
      OBVIOUS
    <3> HIDE DEF t
    <3>1. CASE i = 1 \/ j = 1
      BY <1>9, <1>10, <3>1
    <3>2. CASE i # 1 /\ j # 1
      <4>1. i - 1 = j - 1
        BY <1>2, <1>9, <3>2 DEF Linked
      <4> QED BY <4>1
    <3> QED BY <3>1, <3>2
  <2>3. ASSUME NEW i \in 1..m + 1 PROVE freeNext'[t[i]] = IF i = m + 1 THEN 0 ELSE t[i + 1]
    <3>1. CASE i = 1
      <4>1. freeNext'[t[i]] = freeHead
        BY <1>3, <1>4, <1>6, <1>10, <3>1
      <4>2. m # 0 => t[2] = s[1]
        BY <1>4
      <4> QED BY <1>2, <1>4, <3>1, <4>1, <4>2 DEF Linked
    <3>2. CASE i # 1
      <4>1. i - 1 \in 1..m /\ t[i] = s[i - 1] /\ s[i - 1] # e
        BY <1>9, <3>2
      <4>2. freeNext'[t[i]] = freeNext[s[i - 1]]
        BY <1>4, <1>6, <4>1
      <4>3. freeNext[s[i - 1]] = IF i - 1 = m THEN 0 ELSE s[i - 1 + 1]
        BY <1>2, <4>1 DEF Linked
      <4>4. i # m + 1 => t[i + 1] = s[i - 1 + 1]
        BY <1>4, <3>2
      <4> QED BY <1>4, <4>2, <4>3, <4>4
    <3> QED BY <3>1, <3>2
  <2>4. freeHead' = IF m + 1 = 0 THEN 0 ELSE t[1]
    BY <1>4, <1>6, <1>10
  <2> HIDE DEF t
  <2> QED BY <1>8, <2>1, <2>2, <2>3, <2>4 DEF Linked
<1>13. Members(m + 1, t) = {x \in 1..n : freeHolds'[x] # "object"}
  <2>1. Members(m + 1, t) = Members(m, s) \union {e}
    <3>1. ASSUME NEW i \in 1..m PROVE s[i] \in Members(m + 1, t)
      <4>1. i + 1 \in 1..m + 1 /\ t[i + 1] = s[i]
        BY <1>4
      <4> HIDE DEF t
      <4> QED BY <4>1 DEF Members
    <3>2. e \in Members(m + 1, t)
      <4>1. 1 \in 1..m + 1
        BY <1>4
      <4> QED BY <1>10, <4>1 DEF Members
    <3>3. ASSUME NEW i \in 1..m + 1 PROVE t[i] \in Members(m, s) \union {e}
      BY <1>9, <1>10 DEF Members
    <3> HIDE DEF t
    <3> QED BY <3>1, <3>2, <3>3 DEF Members
  <2> QED BY <1>2, <1>3, <1>6, <2>1
<1> HIDE DEF t
<1> QED BY <1>5, <1>11, <1>12, <1>13, FreeInvFrom

\* free_all: whoever has a next of nullptr has an object, but for the last of the list.
LEMMA FreeAllInv ==
  ASSUME FreeInv, FreeAll
  PROVE  FreeInv'
<1> DEFINE stray == {e \in Elements : freeNext[e] = 0} \ Objects
<1>1. PICK n \in Nat : /\ FreeShape(n)
                       /\ \E m, s : Linked(n, m, s) /\ Members(m, s) = {e \in 1..n : freeHolds[e] # "object"}
  BY DEF FreeInv
<1>2. Elements = 1..n
  BY <1>1, ElementsAre
<1>3. freeUntouched' = {}
  BY <1>1, <1>2 DEF FreeAll, FreeShape, Objects
<1>4. FreeDestructs'
  <2>1. PICK m, s : Linked(n, m, s) /\ Members(m, s) = {e \in 1..n : freeHolds[e] # "object"}
    BY <1>1
  <2>2. m \in 0..n /\ m \in Nat /\ s \in [1..m -> 1..n]
    BY <2>1 DEF Linked
  <2>3. ASSUME NEW e \in stray PROVE e = s[m] /\ freeHolds[e] = "zeros"
    <3>1. e \in 1..n /\ freeNext[e] = 0 /\ freeHolds[e] # "object"
      BY <1>2 DEF Objects
    <3>2. PICK i \in 1..m : e = s[i]
      BY <2>1, <3>1 DEF Members
    <3>3. i = m
      <4>1. CASE i # m
        <5>1. i + 1 \in 1..m /\ freeNext[e] = s[i + 1]
          BY <2>1, <2>2, <3>2, <4>1 DEF Linked
        <5> QED BY <2>2, <3>1, <5>1
      <4> QED BY <4>1
    <3>4. freeHolds[e] = "zeros"
      BY <1>1, <3>1 DEF FreeShape
    <3> QED BY <3>2, <3>3, <3>4
  <2>4. Cardinality(stray) <= 1
    <3>1. stray = {} \/ stray = {s[m]}
      BY <2>3
    <3>2. Cardinality({}) = 0 /\ Cardinality({s[m]}) = 1
      BY FS_EmptySet, FS_Singleton
    <3> HIDE DEF stray
    <3> QED BY <3>1, <3>2
  <2>5. freeStray' = [e \in stray |-> freeHolds[e]]
    BY DEF FreeAll
  <2> HIDE DEF stray
  <2> QED BY <1>3, <2>3, <2>4, <2>5 DEF FreeDestructs
<1>5. <<>> \in [1..0 -> 1..0] /\ <<>> \in [1..0 -> 0..0] /\ <<>> \in [1..0 -> {"object", "zeros"}]
  OBVIOUS
<1>6. FreeShape(0)'
  <2>1. 0 \in 0..FreeMaxBlocks /\ 0 = FreeBlock * 0
    BY FreelistAssumption
  <2> QED BY <1>5, <2>1 DEF FreeShape, FreeAll
<1>7. Linked(0, 0, <<>>)' /\ Members(0, <<>>) = {e \in 1..0 : freeHolds'[e] # "object"}
  BY <1>5 DEF Linked, Members, FreeAll
<1> QED BY <1>4, <1>6, <1>7, 0 \in Nat, FreeInvFrom

\* allocate, free and free_all keep the list.
LEMMA FreeInductive == FreeInv /\ [FreeNext]_freeVars => FreeInv'
<1> SUFFICES ASSUME FreeInv, [FreeNext]_freeVars PROVE FreeInv'
  OBVIOUS
<1>1. CASE UNCHANGED freeVars
  <2>1. PICK n \in Nat : /\ FreeShape(n)
                         /\ \E m, s : Linked(n, m, s) /\ Members(m, s) = {e \in 1..n : freeHolds[e] # "object"}
    BY DEF FreeInv
  <2>2. PICK m, s : Linked(n, m, s) /\ Members(m, s) = {e \in 1..n : freeHolds[e] # "object"}
    BY <2>1
  <2>3. FreeShape(n)'
    BY <1>1, <2>1 DEF freeVars, FreeShape
  <2>4. Linked(n, m, s)'
    BY <1>1, <2>2 DEF freeVars, Linked
  <2>5. Members(m, s) = {e \in 1..n : freeHolds'[e] # "object"} /\ FreeDestructs'
    BY <1>1, <2>2 DEF freeVars, FreeInv, FreeDestructs
  <2> QED BY <2>3, <2>4, <2>5, FreeInvFrom
<1> QED BY <1>1, FreeAllocateInv, FreeElementInv, FreeAllInv DEF FreeNext

\* What the invariant says of the types.
LEMMA FreeInvTyped == FreeInv => FreeTypeOK
<1> SUFFICES ASSUME FreeInv PROVE FreeTypeOK
  OBVIOUS
<1>1. PICK n \in Nat : FreeShape(n) /\ \E m, s : Linked(n, m, s)
  BY DEF FreeInv
<1>2. PICK m, s : Linked(n, m, s)
  BY <1>1
<1>3. Elements = 1..n /\ Cardinality(Elements) = n
  BY <1>1, ElementsAre
<1>4. n <= FreeBlock * FreeMaxBlocks
  <2>1. PICK k \in 0..FreeMaxBlocks : n = FreeBlock * k
    BY <1>1 DEF FreeShape
  <2>2. PICK d \in Nat : FreeMaxBlocks = k + d
    <3>1. FreeMaxBlocks - k \in Nat /\ FreeMaxBlocks = k + (FreeMaxBlocks - k)
      BY FreelistAssumption
    <3> QED BY <3>1
  <2>3. FreeBlock * FreeMaxBlocks = FreeBlock * k + FreeBlock * d /\ FreeBlock * d \in Nat /\ FreeBlock * k \in Nat
    BY <2>2, FreelistAssumption
  <2> QED BY <2>1, <2>3
<1>5. freeHead \in 0..n
  BY <1>2 DEF Linked
<1>6. (\A e \in 1..n : freeNext[e] \in 0..n) /\ freeHolds \in [1..n -> {"object", "zeros", "remains"}]
  BY <1>1 DEF FreeShape
<1>7. 0..n = 1..n \union {0}
  OBVIOUS
<1> QED BY <1>3, <1>4, <1>5, <1>6, <1>7 DEF FreeTypeOK

-----------------------------------------------------------------------------
(* DenseBlockAllocator *)

Block == [data : Nat, size : Nat, capacity : Nat]

\* n blocks, each with memory of its own, by what remains in them.
BlocksOf(blocks, n) ==
  /\ blocks \in [1..n -> Block]
  /\ \A i \in 1..n : blocks[i].data \in 1..n /\ blocks[i].size <= blocks[i].capacity
  /\ \A i, j \in 1..n : blocks[i].data = blocks[j].data => i = j

Ordered(blocks, n) == \A i, j \in 1..n : i < j => Remaining(blocks[i]) <= Remaining(blocks[j])

FullFirst(blocks, n, full) == full \in 0..n /\ \A i \in 1..n : i <= full <=> Remaining(blocks[i]) <= 0

\* The ranges given out lie in what their block has given out.
RangesIn(blocks, n, given) ==
  /\ given \subseteq [data : Nat, at : Nat, size : Nat]
  /\ \A p \in given : \E i \in 1..n : blocks[i].data = p.data /\ p.at + p.size <= blocks[i].size
  /\ \A p, q \in given : p # q /\ p.data = q.data => p.at + p.size <= q.at \/ q.at + q.size <= p.at

DenseHolds(n) ==
  /\ BlocksOf(denseBlocks, n) /\ Ordered(denseBlocks, n) /\ FullFirst(denseBlocks, n, denseFull)
  /\ RangesIn(denseBlocks, n, denseGiven)
  /\ denseNext \in Nat /\ n <= DenseMaxBlocks

DenseInv == \E n \in Nat : DenseHolds(n)

\* What remains in a block is a number.
LEMMA RemainingIs ==
  ASSUME NEW n \in Nat, NEW blocks, BlocksOf(blocks, n), NEW i \in 1..n
  PROVE  /\ Remaining(blocks[i]) \in Nat
         /\ blocks[i].data \in Nat /\ blocks[i].size \in Nat /\ blocks[i].capacity \in Nat
         /\ Remaining(blocks[i]) = blocks[i].capacity - blocks[i].size
<1>1. blocks[i] \in Block /\ blocks[i].size <= blocks[i].capacity
  BY DEF BlocksOf
<1> QED BY <1>1 DEF Block, Remaining

\* The invariant says what DensePlaced does.
LEMMA DenseInvPlaced == DenseInv => DensePlaced
<1> SUFFICES ASSUME DenseInv PROVE DensePlaced
  OBVIOUS
<1>1. PICK n \in Nat : DenseHolds(n)
  BY DEF DenseInv
<1>2. DOMAIN denseBlocks = 1..n /\ BlocksOf(denseBlocks, n)
  BY <1>1 DEF DenseHolds, BlocksOf
<1>3. \A p, q \in denseGiven : p # q /\ p.data = q.data => p.at + p.size <= q.at \/ q.at + q.size <= p.at
  BY <1>1 DEF DenseHolds, RangesIn
<1>4. ASSUME NEW p \in denseGiven
      PROVE  \E i \in DOMAIN denseBlocks : denseBlocks[i].data = p.data /\ p.at + p.size <= denseBlocks[i].capacity
  <2>1. PICK i \in 1..n : denseBlocks[i].data = p.data /\ p.at + p.size <= denseBlocks[i].size
    BY <1>1 DEF DenseHolds, RangesIn
  <2>2. denseBlocks[i].size <= denseBlocks[i].capacity /\ p.at \in Nat /\ p.size \in Nat
    BY <1>1, <1>2 DEF DenseHolds, RangesIn, BlocksOf
  <2>3. denseBlocks[i].size \in Nat /\ denseBlocks[i].capacity \in Nat
    BY <1>2, RemainingIs
  <2>4. p.at + p.size <= denseBlocks[i].capacity
    BY <2>1, <2>2, <2>3
  <2> QED BY <1>2, <2>1, <2>4
<1>5. \A i \in DOMAIN denseBlocks : i <= denseFull <=> Remaining(denseBlocks[i]) <= 0
  BY <1>1, <1>2 DEF DenseHolds, FullFirst
<1>6. \A i, j \in DOMAIN denseBlocks : i < j => Remaining(denseBlocks[i]) <= Remaining(denseBlocks[j])
  BY <1>1, <1>2 DEF DenseHolds, Ordered
<1> QED BY <1>3, <1>4, <1>5, <1>6 DEF DensePlaced

\* There are no blocks at first.
LEMMA DenseInitInv == DenseInit => DenseInv
<1> SUFFICES ASSUME DenseInit PROVE DenseInv
  OBVIOUS
<1>1. <<>> \in [1..0 -> Block]
  OBVIOUS
<1>2. 0 <= DenseMaxBlocks
  BY DenseAssumption
<1>3. DenseHolds(0)
  BY <1>1, <1>2 DEF DenseHolds, BlocksOf, Ordered, FullFirst, RangesIn, DenseInit
<1> QED BY <1>3, 0 \in Nat DEF DenseInv

\* A step of the search stays within the blocks, and the last of the part has room.
LEMMA HalvedIs ==
  ASSUME NEW n \in Nat, NEW c \in Nat, NEW part \in [l : 1..c, h : 1..c]
  PROVE  /\ Halved(part, n) \in [l : 1..c, h : 1..c]
         /\ part.l < part.h => /\ Halved(part, n).l <= Halved(part, n).h
                               /\ Halved(part, n).h - Halved(part, n).l < part.h - part.l
                               /\ Halved(part, n).l >= part.l
                               /\ Halved(part, n).h = part.h \/ n <= Remaining(denseBlocks[Halved(part, n).h])
         /\ part.l >= part.h => Halved(part, n) = part
<1> DEFINE l == part.l
           h == part.h
           mid == (l + h - 1) \div 2
<1>1. l \in 1..c /\ h \in 1..c /\ part = [l |-> l, h |-> h]
  OBVIOUS
<1>2. Halved(part, n) = IF l >= h THEN part
                        ELSE IF n <= Remaining(denseBlocks[mid]) THEN [l |-> l, h |-> mid] ELSE [l |-> mid + 1, h |-> h]
  BY DEF Halved
<1>3. l < h => mid \in l..h - 1
  BY <1>1
<1> HIDE DEF l, h, mid
<1>4. CASE l >= h
  BY <1>1, <1>2, <1>4 DEF l, h
<1>5. CASE l < h
  <2>1. mid \in 1..c /\ mid + 1 \in 1..c /\ l <= mid /\ mid + 1 <= h /\ mid - l < h - l /\ h - (mid + 1) < h - l
    BY <1>1, <1>3, <1>5
  <2>2. CASE n <= Remaining(denseBlocks[mid])
    <3>1. Halved(part, n) = [l |-> l, h |-> mid]
      BY <1>1, <1>2, <1>5, <2>2
    <3> QED BY <1>1, <1>5, <2>1, <2>2, <3>1 DEF l, h
  <2>3. CASE ~(n <= Remaining(denseBlocks[mid]))
    <3>1. Halved(part, n) = [l |-> mid + 1, h |-> h]
      BY <1>1, <1>2, <1>5, <2>3
    <3> QED BY <1>1, <1>5, <2>1, <2>3, <3>1 DEF l, h
  <2> QED BY <2>2, <2>3
<1> QED BY <1>1, <1>4, <1>5

\* The search ends at a block after the full ones with room.
LEMMA SearchRoomIs ==
  ASSUME NEW n \in Nat, NEW c \in Nat, BlocksOf(denseBlocks, c),
         denseFull \in Nat, denseFull < c, n <= Remaining(denseBlocks[c])
  PROVE  SearchRoom(n) \in denseFull + 1..c /\ n <= Remaining(denseBlocks[SearchRoom(n)])
<1> DEFINE S == [l : 1..c, h : 1..c]
           first == [l |-> denseFull + 1, h |-> c]
           G == [k \in Nat |-> [x \in S |-> Halved(x, n)]]
           F(f) == [k \in 0..c |-> IF k = 0 THEN first ELSE Halved(f[k - 1], n)]
           M == CHOOSE f : f = F(f)
<1>1. Len(denseBlocks) = c
  BY SequenceIs DEF BlocksOf
<1>2. SearchRoom(n) = M[c].l
  BY <1>1 DEF SearchRoom
<1>3. first \in S
  OBVIOUS
<1> HIDE DEF first
<1>4. G \in [Nat -> [S -> S]]
  <2>1. \A x \in S : Halved(x, n) \in S
    BY HalvedIs
  <2> HIDE DEF S
  <2> QED BY <2>1
<1>5. PICK f : f \in [Nat -> S] /\ f[0] = first /\ \A k \in Nat : f[k + 1] = Halved(f[k], n)
  <2>1. PICK f : IsIteration(f, first, G, S)
    <3> HIDE DEF G, S
    <3> QED BY <1>3, <1>4, Iterates
  <2>2. \A k \in Nat : f[k + 1] = G[k][f[k]] /\ f[k] \in S
    <3> HIDE DEF G, S
    <3> QED BY <2>1 DEF IsIteration
  <2>3. \A k \in Nat, x \in S : G[k][x] = Halved(x, n)
    <3> HIDE DEF S
    <3> QED OBVIOUS
  <2>4. \A k \in Nat : f[k + 1] = Halved(f[k], n)
    <3> HIDE DEF G, S
    <3> QED BY <2>2, <2>3
  <2> HIDE DEF G, S
  <2> QED BY <2>1, <2>4 DEF IsIteration
<1> DEFINE g == [k \in 0..c |-> f[k]]
<1>6. M = F(M)
  <2>1. ASSUME NEW k \in 0..c PROVE g[k] = F(g)[k]
    <3>1. CASE k = 0
      BY <1>5, <3>1
    <3>2. CASE k # 0
      <4>1. k - 1 \in 0..c /\ k - 1 \in Nat /\ (k - 1) + 1 = k
        BY <3>2
      <4>2. F(g)[k] = Halved(g[k - 1], n) /\ g[k - 1] = f[k - 1] /\ g[k] = f[k]
        BY <3>2, <4>1
      <4>3. f[(k - 1) + 1] = Halved(f[k - 1], n)
        BY <1>5, <4>1
      <4> QED BY <4>1, <4>2, <4>3
    <3> QED BY <3>1, <3>2
  <2>2. g = F(g)
    BY <2>1
  <2> HIDE DEF F, g
  <2> QED BY <2>2
<1> HIDE DEF M
<1>7. M[0] = first /\ \A k \in Nat : k + 1 <= c => M[k + 1] = Halved(M[k], n)
  <2>1. M[0] = first
    <3>1. F(M)[0] = first
      OBVIOUS
    <3> QED BY <1>6, <3>1
  <2>2. ASSUME NEW k \in Nat, k + 1 <= c PROVE M[k + 1] = Halved(M[k], n)
    <3>1. k + 1 \in 0..c /\ k + 1 # 0 /\ (k + 1) - 1 = k
      BY <2>2
    <3>2. F(M)[k + 1] = Halved(M[k], n)
      BY <3>1
    <3> QED BY <1>6, <3>2
  <2> QED BY <2>1, <2>2
<1> DEFINE Good(k, p) == /\ p \in S /\ denseFull + 1 <= p.l /\ p.l <= p.h
                         /\ p.h - p.l <= 0 \/ p.h - p.l <= c - k
                         /\ n <= Remaining(denseBlocks[p.h])
           T == {k \in Nat : k <= c => Good(k, M[k])}
<1>8. 0 \in T
  <2>1. Good(0, first)
    BY DEF first
  <2> QED BY <1>7, <2>1
<1>9. ASSUME NEW k \in Nat, k \in T PROVE k + 1 \in T
  <2> SUFFICES ASSUME k + 1 <= c PROVE Good(k + 1, M[k + 1])
    OBVIOUS
  <2>1. Good(k, M[k]) /\ M[k + 1] = Halved(M[k], n)
    BY <1>7, <1>9
  <2> DEFINE p == M[k]
             q == Halved(p, n)
  <2>2. /\ q \in S
        /\ p.l < p.h => q.l <= q.h /\ q.h - q.l < p.h - p.l /\ q.l >= p.l
        /\ p.l < p.h => (q.h = p.h \/ n <= Remaining(denseBlocks[q.h]))
        /\ p.l >= p.h => q = p
    <3> HIDE DEF p
    <3> QED BY <2>1, HalvedIs DEF p
  <2>3. p.l \in 1..c /\ p.h \in 1..c /\ q.l \in 1..c /\ q.h \in 1..c /\ p \in S
    BY <2>1, <2>2
  <2> HIDE DEF p, q, S
  <2>4. Good(k, p)
    BY <2>1 DEF p
  <2>5. Good(k + 1, q)
    <3>1. CASE p.l < p.h
      BY <2>2, <2>3, <2>4, <3>1
    <3>2. CASE p.l >= p.h
      BY <2>2, <2>3, <2>4, <3>2
    <3> QED BY <2>3, <3>1, <3>2
  <2> QED BY <2>1, <2>5 DEF p, q
<1>10. Good(c, M[c])
  <2>1. Nat \subseteq T
    <3> HIDE DEF T
    <3> QED BY <1>8, <1>9, SetInduction
  <2> HIDE DEF Good
  <2> QED BY <2>1
<1> QED BY <1>2, <1>10

\* Where the blocks of the array come from when the one at i moves to a place before it.
Rotated(to, i, m) == [k \in 1..m |-> IF k = to THEN i ELSE IF to < k /\ k <= i THEN k - 1 ELSE k]
RotatedBack(to, i, m) == [j \in 1..m |-> IF j = i THEN to ELSE IF to <= j /\ j < i THEN j + 1 ELSE j]

\* Such a move changes the place of each block to one other.
LEMMA RotatedIs ==
  ASSUME NEW m \in Nat, NEW i \in 1..m, NEW to \in 1..i
  PROVE  /\ Rotated(to, i, m) \in [1..m -> 1..m] /\ RotatedBack(to, i, m) \in [1..m -> 1..m]
         /\ \A j \in 1..m : Rotated(to, i, m)[RotatedBack(to, i, m)[j]] = j
         /\ \A k \in 1..m : RotatedBack(to, i, m)[Rotated(to, i, m)[k]] = k
<1> DEFINE f == Rotated(to, i, m)
           b == RotatedBack(to, i, m)
<1>1. \A k \in 1..m : f[k] = IF k = to THEN i ELSE IF to < k /\ k <= i THEN k - 1 ELSE k
  BY DEF Rotated
<1>2. \A j \in 1..m : b[j] = IF j = i THEN to ELSE IF to <= j /\ j < i THEN j + 1 ELSE j
  BY DEF RotatedBack
<1>3. f = [k \in 1..m |-> f[k]] /\ b = [k \in 1..m |-> b[k]]
  BY DEF Rotated, RotatedBack
<1> HIDE DEF f, b
<1>4. \A k \in 1..m : f[k] \in 1..m /\ b[k] \in 1..m
  BY <1>1, <1>2
<1>5. f \in [1..m -> 1..m] /\ b \in [1..m -> 1..m]
  BY <1>3, <1>4
<1>6. ASSUME NEW j \in 1..m PROVE f[b[j]] = j
  <2>1. CASE j = i
    BY <1>1, <1>2, <2>1
  <2>2. CASE j # i /\ to <= j /\ j < i
    <3>1. b[j] = j + 1 /\ j + 1 \in 1..m /\ j + 1 # to /\ to < j + 1 /\ j + 1 <= i
      BY <1>2, <2>2
    <3> QED BY <1>1, <3>1
  <2>3. CASE j # i /\ ~(to <= j /\ j < i)
    <3>1. b[j] = j /\ j # to /\ ~(to < j /\ j <= i)
      BY <1>2, <2>3
    <3> QED BY <1>1, <3>1
  <2> QED BY <2>1, <2>2, <2>3
<1>7. ASSUME NEW k \in 1..m PROVE b[f[k]] = k
  <2>1. CASE k = to
    BY <1>1, <1>2, <2>1
  <2>2. CASE k # to /\ to < k /\ k <= i
    <3>1. f[k] = k - 1 /\ k - 1 \in 1..m /\ k - 1 # i /\ to <= k - 1 /\ k - 1 < i
      BY <1>1, <2>2
    <3> QED BY <1>2, <3>1
  <2>3. CASE k # to /\ ~(to < k /\ k <= i)
    <3>1. f[k] = k /\ k # i /\ ~(to <= k /\ k < i)
      BY <1>1, <2>3
    <3> QED BY <1>2, <3>1
  <2> QED BY <2>1, <2>2, <2>3
<1> QED BY <1>5, <1>6, <1>7 DEF f, b

\* swap_backwards: behind those with no more room.
LEMMA SwapIs ==
  ASSUME NEW m \in Nat, NEW blocks \in [1..m -> Block], denseFull \in Nat, NEW i \in denseFull + 1..m
  PROVE  \E to \in denseFull + 1..i :
           /\ SwapBackwards(blocks, i) = [k \in 1..m |-> blocks[Rotated(to, i, m)[k]]]
           /\ \A j \in to..i - 1 : ~(Remaining(blocks[j]) <= Remaining(blocks[i]))
           /\ to # denseFull + 1 => Remaining(blocks[to - 1]) <= Remaining(blocks[i])
<1> DEFINE smaller == {j \in denseFull + 1..i - 1 : Remaining(blocks[j]) <= Remaining(blocks[i])}
           to == IF smaller = {} THEN denseFull + 1 ELSE Max(smaller) + 1
<1>1. /\ to \in denseFull + 1..i
      /\ \A j \in to..i - 1 : ~(Remaining(blocks[j]) <= Remaining(blocks[i]))
      /\ to # denseFull + 1 => Remaining(blocks[to - 1]) <= Remaining(blocks[i])
  <2>1. CASE smaller = {}
    BY <2>1
  <2>2. CASE smaller # {}
    <3> DEFINE last == Max(smaller)
    <3>1. last \in smaller /\ \A j \in smaller : j <= last
      <4>1. smaller \subseteq 0..i
        OBVIOUS
      <4> HIDE DEF smaller
      <4> QED BY <2>2, <4>1, GreatestIsMax, i \in Nat
    <3>2. to = last + 1
      BY <2>2
    <3> HIDE DEF last, to
    <3>3. last \in denseFull + 1..i - 1 /\ Remaining(blocks[last]) <= Remaining(blocks[i])
      BY <3>1
    <3>4. ASSUME NEW j \in to..i - 1 PROVE ~(Remaining(blocks[j]) <= Remaining(blocks[i]))
      <4>1. j \in denseFull + 1..i - 1 /\ ~(j <= last)
        BY <3>2, <3>3
      <4> QED BY <3>1, <4>1
    <3>5. to \in denseFull + 1..i /\ to - 1 = last
      BY <3>2, <3>3
    <3> QED BY <3>3, <3>4, <3>5
  <2> QED BY <2>1, <2>2
<1>2. SwapBackwards(blocks, i) = InsertAt(RemoveAt(blocks, i), to, blocks[i])
  BY DEF SwapBackwards
<1> HIDE DEF to, smaller
<1> DEFINE r == RemoveAt(blocks, i)
<1>3. i \in 1..m /\ m - 1 \in Nat /\ to \in 1..(m - 1) + 1 /\ (m - 1) + 1 = m /\ blocks[i] \in Block
  BY <1>1
<1> HIDE DEF r
<1>4. r = [k \in 1..m - 1 |-> IF k < i THEN blocks[k] ELSE blocks[k + 1]]
  <2>1. HasItems(blocks, m)
    BY DEF HasItems
  <2> QED BY <1>3, <2>1, RemoveAtIs DEF r
<1>5. r \in [1..m - 1 -> Block]
  <2>1. \A k \in 1..m - 1 : k \in 1..m /\ k + 1 \in 1..m
    OBVIOUS
  <2> QED BY <1>4, <2>1
<1>6. InsertAt(r, to, blocks[i]) = [k \in 1..m |-> IF k < to THEN r[k] ELSE IF k = to THEN blocks[i] ELSE r[k - 1]]
  <2>1. PICK n \in Nat : n = m - 1
    BY <1>3
  <2>2. r \in [1..n -> Block] /\ to \in 1..n + 1 /\ n + 1 = m
    BY <1>3, <1>5, <2>1
  <2>3. InsertAt(r, to, blocks[i]) = [k \in 1..n + 1 |-> IF k < to THEN r[k] ELSE IF k = to THEN blocks[i] ELSE r[k - 1]]
    <3>1. HasItems(r, n)
      BY <2>2 DEF HasItems
    <3> QED BY <1>3, <2>2, <3>1, InsertAtIs
  <2> QED BY <2>2, <2>3
<1>7. ASSUME NEW k \in 1..m
      PROVE  (IF k < to THEN r[k] ELSE IF k = to THEN blocks[i] ELSE r[k - 1]) = blocks[Rotated(to, i, m)[k]]
  <2>0. Rotated(to, i, m)[k] = IF k = to THEN i ELSE IF to < k /\ k <= i THEN k - 1 ELSE k
    BY DEF Rotated
  <2>1. CASE k < to
    <3>1. k \in 1..m - 1 /\ k < i
      BY <1>1, <2>1
    <3>2. r[k] = blocks[k]
      BY <1>4, <3>1
    <3>3. Rotated(to, i, m)[k] = k
      BY <1>1, <2>0, <2>1
    <3> QED BY <2>1, <3>2, <3>3
  <2>2. CASE k = to
    BY <2>0, <2>2
  <2>3. CASE to < k /\ k <= i
    <3>1. k - 1 \in 1..m - 1 /\ k - 1 < i /\ ~(k < to) /\ k # to
      BY <1>1, <2>3
    <3> QED BY <1>4, <2>0, <2>3, <3>1
  <2>4. CASE to < k /\ i < k
    <3>1. k - 1 \in 1..m - 1 /\ ~(k - 1 < i) /\ ~(k < to) /\ k # to /\ (k - 1) + 1 = k /\ ~(k <= i)
      BY <1>1, <2>4
    <3> QED BY <1>4, <2>0, <2>4, <3>1
  <2> QED BY <1>1, <2>1, <2>2, <2>3, <2>4
<1>8. SwapBackwards(blocks, i) = [k \in 1..m |-> blocks[Rotated(to, i, m)[k]]]
  BY <1>2, <1>6, <1>7 DEF r
<1> QED BY <1>1, <1>8

\* Moving a block that got fuller restores the order.
LEMMA SwapKeeps ==
  ASSUME NEW m \in Nat, NEW blocks, BlocksOf(blocks, m), denseFull \in Nat, NEW i \in denseFull + 1..m,
         \A j, k \in 1..m : j < k /\ j # i /\ k # i => Remaining(blocks[j]) <= Remaining(blocks[k]),
         \A j \in i + 1..m : Remaining(blocks[i]) <= Remaining(blocks[j]),
         \A j \in 1..m : j # i => (j <= denseFull <=> Remaining(blocks[j]) <= 0)
  PROVE  /\ BlocksOf(SwapBackwards(blocks, i), m) /\ Ordered(SwapBackwards(blocks, i), m)
         /\ FullFirst(SwapBackwards(blocks, i), m, denseFull + (IF Remaining(blocks[i]) = 0 THEN 1 ELSE 0))
         /\ \A given : RangesIn(blocks, m, given) => RangesIn(SwapBackwards(blocks, i), m, given)
<1> DEFINE R(k) == Remaining(blocks[k])
           new == SwapBackwards(blocks, i)
<1>0. blocks \in [1..m -> Block] /\ i \in 1..m /\ i \in Nat
  BY DEF BlocksOf
<1>1. PICK to \in denseFull + 1..i :
        /\ new = [k \in 1..m |-> blocks[Rotated(to, i, m)[k]]]
        /\ \A j \in to..i - 1 : ~(R(j) <= R(i))
        /\ to # denseFull + 1 => R(to - 1) <= R(i)
  BY <1>0, SwapIs
<1> DEFINE f == Rotated(to, i, m)
           b == RotatedBack(to, i, m)
<1>2. /\ f \in [1..m -> 1..m] /\ b \in [1..m -> 1..m]
      /\ \A j \in 1..m : f[b[j]] = j
      /\ \A k \in 1..m : b[f[k]] = k
  <2>1. to \in 1..i
    OBVIOUS
  <2> HIDE DEF f, b
  <2>2. f \in [1..m -> 1..m] /\ b \in [1..m -> 1..m]
    BY <1>0, <2>1, RotatedIs DEF f, b
  <2>3. \A j \in 1..m : f[b[j]] = j
    BY <1>0, <2>1, RotatedIs DEF f, b
  <2>4. \A k \in 1..m : b[f[k]] = k
    BY <1>0, <2>1, RotatedIs DEF f, b
  <2> QED BY <2>2, <2>3, <2>4
<1>3. \A k \in 1..m : f[k] = IF k = to THEN i ELSE IF to < k /\ k <= i THEN k - 1 ELSE k
  BY DEF Rotated
<1>4. new \in [1..m -> Block] /\ \A k \in 1..m : new[k] = blocks[f[k]]
  <2> HIDE DEF new, f, b
  <2>1. new = [k \in 1..m |-> blocks[f[k]]]
    BY <1>1 DEF f
  <2>2. \A k \in 1..m : blocks[f[k]] \in Block
    BY <1>0, <1>2
  <2> QED BY <2>1, <2>2
<1>5. \A k \in 1..m : R(k) \in Nat
  BY RemainingIs
<1>6. to \in Nat /\ to <= i /\ denseFull < to
  OBVIOUS
<1> HIDE DEF new, f, b
<1>7. BlocksOf(new, m)
  <2>1. \A k \in 1..m : new[k].data \in 1..m /\ new[k].size <= new[k].capacity
    BY <1>2, <1>4 DEF BlocksOf
  <2>2. ASSUME NEW j \in 1..m, NEW k \in 1..m, new[j].data = new[k].data PROVE j = k
    <3>0. f[j] \in 1..m /\ f[k] \in 1..m /\ blocks[f[j]].data = blocks[f[k]].data
      BY <1>2, <1>4, <2>2
    <3>1. f[j] = f[k]
      BY <3>0 DEF BlocksOf
    <3> QED BY <1>2, <3>1
  <2> QED BY <1>4, <2>1, <2>2 DEF BlocksOf
<1>8. Ordered(new, m)
  <2> SUFFICES ASSUME NEW j \in 1..m, NEW k \in 1..m, j < k PROVE R(f[j]) <= R(f[k])
    BY <1>4 DEF Ordered
  <2>1. CASE j # to /\ k # to
    <3>1. f[j] \in 1..m /\ f[k] \in 1..m /\ f[j] < f[k] /\ f[j] # i /\ f[k] # i
      BY <1>0, <1>3, <1>6, <2>1
    <3> QED BY <3>1
  <2>2. CASE j = to /\ k <= i
    <3>1. f[j] = i /\ f[k] = k - 1 /\ k - 1 \in to..i - 1 /\ k - 1 \in 1..m
      BY <1>0, <1>3, <1>6, <2>2
    <3>2. ~(R(k - 1) <= R(i)) /\ R(k - 1) \in Nat /\ R(i) \in Nat
      BY <1>0, <1>1, <1>5, <3>1
    <3> HIDE DEF R
    <3>3. R(i) <= R(k - 1)
      BY <3>2
    <3> QED BY <3>1, <3>3
  <2>3. CASE j = to /\ i < k
    <3>1. f[j] = i /\ f[k] = k /\ k \in i + 1..m
      BY <1>0, <1>3, <1>6, <2>3
    <3> QED BY <3>1
  <2>4. CASE k = to
    <3>1. f[j] = j /\ f[k] = i /\ j # i /\ j < to
      BY <1>0, <1>3, <1>6, <2>4
    <3>2. R(j) \in Nat /\ R(i) \in Nat
      BY <1>0, <1>5
    <3>3. CASE to = denseFull + 1
      <4>1. R(j) <= 0
        BY <3>1, <3>3
      <4> HIDE DEF R
      <4> QED BY <3>1, <3>2, <4>1
    <3>4. CASE to # denseFull + 1
      <4>1. to - 1 \in 1..m /\ to - 1 # i
        BY <1>0, <1>6, <3>4
      <4>2. R(to - 1) <= R(i) /\ R(to - 1) \in Nat
        BY <1>1, <1>5, <3>4, <4>1
      <4>3. j < to - 1 => R(j) <= R(to - 1)
        BY <3>1, <4>1
      <4>4. j < to - 1 \/ j = to - 1
        BY <3>1, <1>6
      <4> HIDE DEF R
      <4> QED BY <3>1, <3>2, <4>2, <4>3, <4>4
    <3> QED BY <3>3, <3>4
  <2> QED BY <2>1, <2>2, <2>3, <2>4
<1>9. FullFirst(new, m, denseFull + (IF R(i) = 0 THEN 1 ELSE 0))
  <2> DEFINE full == denseFull + (IF R(i) = 0 THEN 1 ELSE 0)
  <2>1. R(i) \in Nat
    BY <1>0, <1>5
  <2>2. full \in 0..m
    BY <1>0
  <2>3. R(i) = 0 => to = denseFull + 1
    <3> SUFFICES ASSUME R(i) = 0, to # denseFull + 1 PROVE FALSE
      OBVIOUS
    <3>1. to - 1 \in 1..m /\ to - 1 # i /\ ~(to - 1 <= denseFull)
      BY <1>0, <1>6
    <3> QED BY <1>1, <3>1
  <2>4. ASSUME NEW k \in 1..m PROVE k <= full <=> R(f[k]) <= 0
    <3>1. CASE k = to
      <4>1. f[k] = i
        BY <1>3, <3>1
      <4> HIDE DEF R
      <4> QED BY <1>6, <2>1, <2>3, <3>1, <4>1
    <3>2. CASE k # to
      <4>1. f[k] \in 1..m /\ f[k] # i /\ (k < to => f[k] = k) /\ (to < k => f[k] >= to)
        BY <1>0, <1>3, <1>6, <3>2
      <4>2. f[k] <= denseFull <=> R(f[k]) <= 0
        BY <4>1
      <4> HIDE DEF R
      <4> QED BY <1>6, <2>3, <3>2, <4>1, <4>2
    <3> QED BY <3>1, <3>2
  <2> HIDE DEF full
  <2>5. FullFirst(new, m, full)
    BY <1>4, <2>2, <2>4 DEF FullFirst
  <2> QED BY <2>5 DEF full
<1>10. ASSUME NEW given, RangesIn(blocks, m, given) PROVE RangesIn(new, m, given)
  <2>1. ASSUME NEW p \in given PROVE \E k \in 1..m : new[k].data = p.data /\ p.at + p.size <= new[k].size
    <3>1. PICK j \in 1..m : blocks[j].data = p.data /\ p.at + p.size <= blocks[j].size
      BY <1>10 DEF RangesIn
    <3>2. b[j] \in 1..m /\ new[b[j]] = blocks[j]
      BY <1>2, <1>4
    <3> QED BY <3>1, <3>2
  <2> QED BY <1>10, <2>1 DEF RangesIn
<1> QED BY <1>7, <1>8, <1>9, <1>10 DEF new

\* grow, when no block has room: the new block comes last.
LEMMA NewBlockIs ==
  ASSUME NEW size \in Nat, size > 0, denseNext \in Nat, NEW m \in Nat, Len(denseBlocks) = m
  PROVE  /\ NewBlock(size) \in Block /\ NewBlock(size).data = m + 1 /\ NewBlock(size).size = 0
         /\ size <= Remaining(NewBlock(size))
<1> DEFINE next == IF denseNext = 0 THEN DenseFirst ELSE denseNext
           capacity == IF size > next THEN CeilToPow2(size) ELSE next
<1>1. next \in Nat
  BY DenseAssumption
<1>2. capacity \in Nat /\ size <= capacity
  <2>1. CeilToPow2(size) \in Nat /\ CeilToPow2(size) >= size
    BY CeilIsEnough
  <2> HIDE DEF next
  <2> QED BY <1>1, <2>1
<1>3. NewBlock(size) = [data |-> m + 1, size |-> 0, capacity |-> capacity]
  BY DEF NewBlock
<1> HIDE DEF capacity
<1> QED BY <1>2, <1>3 DEF Block, Remaining

\* What the allocation takes its elements from: m blocks that are all in order, or all but the last.
Ready(blocks, m, i, size) ==
  /\ BlocksOf(blocks, m) /\ i \in denseFull + 1..m
  /\ size <= Remaining(blocks[i])
  /\ \A j, k \in 1..m : j < k /\ j # i /\ k # i => Remaining(blocks[j]) <= Remaining(blocks[k])
  /\ \A j \in i + 1..m : Remaining(blocks[i]) <= Remaining(blocks[j])
  /\ \A j \in 1..m : j # i => (j <= denseFull <=> Remaining(blocks[j]) <= 0)
  /\ RangesIn(blocks, m, denseGiven)

\* One of the blocks there.
LEMMA RoomReady ==
  ASSUME NEW n \in Nat, DenseHolds(n), NEW i \in denseFull + 1..n, NEW size, size <= Remaining(denseBlocks[i])
  PROVE  Ready(denseBlocks, n, i, size)
<1>1. denseFull \in 0..n
  BY DEF DenseHolds, FullFirst
<1>2. \A j \in i + 1..n : Remaining(denseBlocks[i]) <= Remaining(denseBlocks[j])
  <2>1. \A j \in i + 1..n : j \in 1..n /\ i \in 1..n /\ i < j
    BY <1>1
  <2> QED BY <2>1 DEF DenseHolds, Ordered
<1>3. \A j, k \in 1..n : j < k => Remaining(denseBlocks[j]) <= Remaining(denseBlocks[k])
  BY DEF DenseHolds, Ordered
<1>4. \A j \in 1..n : j <= denseFull <=> Remaining(denseBlocks[j]) <= 0
  BY DEF DenseHolds, FullFirst
<1> QED BY <1>2, <1>3, <1>4 DEF Ready, DenseHolds

\* A new block.
LEMMA GrownReady ==
  ASSUME NEW n \in Nat, DenseHolds(n), NEW size \in Nat, size > 0
  PROVE  Ready(Append(denseBlocks, NewBlock(size)), n + 1, n + 1, size)
<1> DEFINE b == NewBlock(size)
           blocks == Append(denseBlocks, b)
<1>0. /\ denseBlocks \in [1..n -> Block] /\ denseFull \in 0..n /\ denseNext \in Nat
      /\ BlocksOf(denseBlocks, n)
  BY DEF DenseHolds, BlocksOf, FullFirst
<1>1. denseBlocks \in Seq(Block) /\ Len(denseBlocks) = n
  BY <1>0, SequenceIs
<1>2. b \in Block /\ b.data = n + 1 /\ b.size = 0 /\ size <= Remaining(b)
  BY <1>0, <1>1, NewBlockIs
<1> HIDE DEF b
<1>3. blocks \in Seq(Block) /\ Len(blocks) = n + 1 /\ blocks[n + 1] = b /\ \A j \in 1..n : blocks[j] = denseBlocks[j]
  BY <1>1, <1>2, AppendProperties
<1> HIDE DEF blocks
<1>4. blocks \in [1..n + 1 -> Block]
  BY <1>3, LenProperties
<1>5. \A j \in 1..n + 1 : j = n + 1 \/ j \in 1..n
  OBVIOUS
<1>6. BlocksOf(blocks, n + 1)
  <2>1. ASSUME NEW j \in 1..n + 1 PROVE blocks[j].data \in 1..n + 1 /\ blocks[j].size <= blocks[j].capacity
    <3>1. CASE j = n + 1
      BY <1>2, <1>3, <3>1 DEF Block
    <3>2. CASE j \in 1..n
      <4>1. denseBlocks[j].data \in 1..n /\ denseBlocks[j].size <= denseBlocks[j].capacity
        BY <1>0, <3>2 DEF BlocksOf
      <4> QED BY <1>3, <3>2, <4>1
    <3> QED BY <1>5, <3>1, <3>2
  <2>2. ASSUME NEW j \in 1..n + 1, NEW k \in 1..n + 1, blocks[j].data = blocks[k].data PROVE j = k
    <3>1. \A x \in 1..n : blocks[x].data \in 1..n /\ blocks[x].data # n + 1
      BY <1>0, <1>3 DEF BlocksOf
    <3>2. CASE j \in 1..n /\ k \in 1..n
      <4>1. denseBlocks[j].data = denseBlocks[k].data
        BY <1>3, <2>2, <3>2
      <4> QED BY <1>0, <3>2, <4>1 DEF BlocksOf
    <3>3. CASE j = n + 1 \/ k = n + 1
      BY <1>2, <1>3, <1>5, <2>2, <3>1, <3>3
    <3> QED BY <1>5, <3>2, <3>3
  <2> QED BY <1>4, <2>1, <2>2 DEF BlocksOf
<1>7. \A j, k \in 1..n + 1 : j < k /\ j # n + 1 /\ k # n + 1 => Remaining(blocks[j]) <= Remaining(blocks[k])
  BY <1>3, <1>5 DEF DenseHolds, Ordered
<1>8. \A j \in 1..n + 1 : j # n + 1 => (j <= denseFull <=> Remaining(blocks[j]) <= 0)
  BY <1>3, <1>5 DEF DenseHolds, FullFirst
<1>9. RangesIn(blocks, n + 1, denseGiven)
  <2>1. ASSUME NEW p \in denseGiven PROVE \E k \in 1..n + 1 : blocks[k].data = p.data /\ p.at + p.size <= blocks[k].size
    <3>1. PICK k \in 1..n : denseBlocks[k].data = p.data /\ p.at + p.size <= denseBlocks[k].size
      BY DEF DenseHolds, RangesIn
    <3> QED BY <1>3, <3>1
  <2> QED BY <2>1 DEF DenseHolds, RangesIn
<1>10. n + 1 \in denseFull + 1..n + 1 /\ \A j \in n + 1 + 1..n + 1 : FALSE
  BY <1>0
<1> QED BY <1>2, <1>3, <1>6, <1>7, <1>8, <1>9, <1>10 DEF Ready, blocks, b

\* The elements come from the block at i, which then moves to its place.
LEMMA FilledHolds ==
  ASSUME NEW m \in Nat, NEW blocks, NEW i, NEW size \in Nat, size > 0, Ready(blocks, m, i, size),
         denseFull \in Nat, m <= DenseMaxBlocks, denseNext' \in Nat,
         NEW filled, filled = [blocks EXCEPT ![i].size = @ + size],
         denseGiven' = denseGiven \union {[data |-> blocks[i].data, at |-> blocks[i].size, size |-> size]},
         denseBlocks' = SwapBackwards(filled, i),
         denseFull' = denseFull + (IF Remaining(filled[i]) = 0 THEN 1 ELSE 0)
  PROVE  DenseHolds(m)'
<1> DEFINE b == blocks[i]
           new == [data |-> b.data, at |-> b.size, size |-> size]
<1>0. BlocksOf(blocks, m) /\ i \in denseFull + 1..m /\ i \in 1..m /\ blocks \in [1..m -> Block]
  BY DEF Ready, BlocksOf
<1>1. /\ b \in Block /\ b.data \in Nat /\ b.size \in Nat /\ b.capacity \in Nat
      /\ Remaining(b) = b.capacity - b.size /\ size <= Remaining(b)
  <2>1. b \in Block /\ size <= Remaining(b)
    BY <1>0 DEF Ready
  <2> QED BY <1>0, <2>1, RemainingIs
<1>2. filled[i] = [b EXCEPT !.size = b.size + size]
  BY <1>0
<1>3. /\ filled[i] \in Block /\ filled[i].data = b.data /\ filled[i].size = b.size + size /\ filled[i].capacity = b.capacity
  <2> HIDE DEF b
  <2> QED BY <1>1, <1>2 DEF Block
<1>4. \A j \in 1..m : j # i => filled[j] = blocks[j]
  BY <1>0
<1>5. filled \in [1..m -> Block]
  <2>1. filled = [j \in 1..m |-> filled[j]]
    BY <1>0
  <2>2. \A j \in 1..m : filled[j] \in Block
    BY <1>0, <1>3, <1>4
  <2> QED BY <2>1, <2>2
<1>6. Remaining(filled[i]) = Remaining(b) - size /\ Remaining(filled[i]) \in Nat /\ Remaining(filled[i]) <= Remaining(b)
  BY <1>1, <1>3 DEF Remaining
<1> HIDE DEF b, new
<1>7. BlocksOf(filled, m)
  <2>1. ASSUME NEW j \in 1..m PROVE filled[j].data = blocks[j].data /\ filled[j].size <= filled[j].capacity
    <3>1. CASE j = i
      <4>1. filled[i].size <= filled[i].capacity
        BY <1>1, <1>3
      <4> QED BY <1>3, <3>1, <4>1 DEF b
    <3>2. CASE j # i
      BY <1>0, <1>4, <3>2 DEF BlocksOf
    <3> QED BY <3>1, <3>2
  <2> QED BY <1>0, <1>5, <2>1 DEF BlocksOf
<1>8. \A j, k \in 1..m : j < k /\ j # i /\ k # i => Remaining(filled[j]) <= Remaining(filled[k])
  BY <1>4 DEF Ready
<1>9. \A j \in i + 1..m : Remaining(filled[i]) <= Remaining(filled[j])
  <2> SUFFICES ASSUME NEW j \in i + 1..m PROVE Remaining(filled[i]) <= Remaining(filled[j])
    OBVIOUS
  <2>1. j \in 1..m /\ j # i
    BY <1>0
  <2>2. filled[j] = blocks[j] /\ Remaining(b) <= Remaining(blocks[j]) /\ Remaining(blocks[j]) \in Nat
    BY <1>0, <1>4, <2>1, RemainingIs DEF Ready, b
  <2>3. Remaining(b) \in Nat
    BY <1>1, <1>6
  <2> QED BY <1>6, <2>2, <2>3
<1>10. \A j \in 1..m : j # i => (j <= denseFull <=> Remaining(filled[j]) <= 0)
  BY <1>4 DEF Ready
<1>11. new \in [data : Nat, at : Nat, size : Nat] /\ new.data = b.data /\ new.at = b.size /\ new.size = size
  BY <1>1 DEF new
<1>12. denseGiven' = denseGiven \union {new}
  BY DEF new, b
<1>13. ASSUME NEW p \in denseGiven PROVE p.data = b.data => p.at + p.size <= b.size
  <2>1. PICK k \in 1..m : blocks[k].data = p.data /\ p.at + p.size <= blocks[k].size
    BY DEF Ready, RangesIn
  <2>2. blocks[k].data = b.data => k = i
    BY <1>0 DEF BlocksOf, b
  <2> QED BY <2>1, <2>2 DEF b
<1>14. RangesIn(filled, m, denseGiven')
  <2>0. denseGiven \subseteq [data : Nat, at : Nat, size : Nat]
    BY DEF Ready, RangesIn
  <2>1. ASSUME NEW p \in denseGiven' PROVE \E k \in 1..m : filled[k].data = p.data /\ p.at + p.size <= filled[k].size
    <3>1. CASE p = new
      BY <1>0, <1>3, <1>11, <3>1, <1>1
    <3>2. CASE p \in denseGiven
      <4>1. PICK k \in 1..m : blocks[k].data = p.data /\ p.at + p.size <= blocks[k].size
        BY <3>2 DEF Ready, RangesIn
      <4>2. CASE k # i
        BY <1>4, <4>1, <4>2
      <4>3. CASE k = i
        <5>1. p.at \in Nat /\ p.size \in Nat
          BY <2>0, <3>2
        <5>2. filled[i].data = p.data /\ p.at + p.size <= filled[i].size
          BY <1>1, <1>3, <4>1, <4>3, <5>1 DEF b
        <5> QED BY <1>0, <5>2
      <4> QED BY <4>2, <4>3
    <3> QED BY <1>12, <3>1, <3>2
  <2>2. ASSUME NEW p \in denseGiven', NEW q \in denseGiven', p # q, p.data = q.data
        PROVE  p.at + p.size <= q.at \/ q.at + q.size <= p.at
    <3>1. CASE p \in denseGiven /\ q \in denseGiven
      BY <2>2, <3>1 DEF Ready, RangesIn
    <3>2. CASE p = new /\ q \in denseGiven
      BY <1>11, <1>13, <2>2, <3>2
    <3>3. CASE q = new /\ p \in denseGiven
      BY <1>11, <1>13, <2>2, <3>3
    <3> QED BY <1>12, <2>2, <3>1, <3>2, <3>3
  <2>3. denseGiven' \subseteq [data : Nat, at : Nat, size : Nat]
    BY <1>11, <1>12, <2>0
  <2> QED BY <2>1, <2>2, <2>3 DEF RangesIn
<1>15. /\ BlocksOf(SwapBackwards(filled, i), m) /\ Ordered(SwapBackwards(filled, i), m)
       /\ FullFirst(SwapBackwards(filled, i), m, denseFull + (IF Remaining(filled[i]) = 0 THEN 1 ELSE 0))
       /\ \A given : RangesIn(filled, m, given) => RangesIn(SwapBackwards(filled, i), m, given)
  BY <1>0, <1>7, <1>8, <1>9, <1>10, SwapKeeps
<1> QED BY <1>14, <1>15 DEF DenseHolds

\* internal_alloc_from_empty: in a block with room or in a new one.
LEMMA DenseAllocateInv ==
  ASSUME DenseInv, NEW size \in Nat, size > 0, DenseAllocate(size)
  PROVE  DenseInv'
<1> DEFINE room == denseFull < Len(denseBlocks) /\ Remaining(Last(denseBlocks)) >= size
           blocks == IF room THEN denseBlocks ELSE Append(denseBlocks, NewBlock(size))
           i == IF ~room THEN Len(blocks) ELSE IF size = 1 THEN denseFull + 1 ELSE SearchRoom(size)
           filled == [blocks EXCEPT ![i].size = @ + size]
<1>1. /\ Len(blocks) <= DenseMaxBlocks
      /\ denseGiven' = denseGiven \union {[data |-> blocks[i].data, at |-> blocks[i].size, size |-> size]}
      /\ denseBlocks' = SwapBackwards(filled, i)
      /\ denseFull' = denseFull + (IF Remaining(filled[i]) = 0 THEN 1 ELSE 0)
      /\ denseNext' = IF room THEN denseNext ELSE 2 * (IF denseNext = 0 THEN DenseFirst ELSE denseNext)
  BY DEF DenseAllocate
<1>2. PICK n \in Nat : DenseHolds(n)
  BY DEF DenseInv
<1>3. /\ BlocksOf(denseBlocks, n) /\ denseFull \in 0..n /\ denseNext \in Nat
      /\ denseBlocks \in [1..n -> Block]
  BY <1>2 DEF DenseHolds, FullFirst, BlocksOf
<1>4. Len(denseBlocks) = n /\ denseBlocks \in Seq(Block)
  BY <1>3, SequenceIs
<1>5. denseNext' \in Nat
  BY <1>1, <1>3, DenseAssumption
<1>6. \E m \in Nat : Len(blocks) = m /\ Ready(blocks, m, i, size)
  <2>1. CASE room
    <3>1. Last(denseBlocks) = denseBlocks[n] /\ denseFull < n /\ n \in 1..n
      BY <1>3, <1>4, <2>1 DEF Last
    <3>2. size <= Remaining(denseBlocks[n])
      BY <1>3, <2>1, <3>1, RemainingIs
    <3>3. i \in denseFull + 1..n /\ size <= Remaining(denseBlocks[i])
      <4>1. CASE size = 1
        <5>1. i = denseFull + 1 /\ i \in 1..n /\ ~(i <= denseFull)
          BY <1>3, <2>1, <3>1, <4>1
        <5> HIDE DEF i
        <5>2. ~(Remaining(denseBlocks[i]) <= 0) /\ Remaining(denseBlocks[i]) \in Nat
          BY <1>2, <1>3, <5>1, RemainingIs DEF DenseHolds, FullFirst
        <5> QED BY <1>3, <4>1, <5>1, <5>2
      <4>2. CASE size # 1
        <5>1. i = SearchRoom(size)
          BY <2>1, <4>2
        <5> HIDE DEF i
        <5> QED BY <1>3, <3>1, <3>2, <5>1, SearchRoomIs
      <4> QED BY <4>1, <4>2
    <3> HIDE DEF i
    <3>4. Ready(denseBlocks, n, i, size)
      BY <1>2, <3>3, RoomReady
    <3> QED BY <1>4, <2>1, <3>4
  <2>2. CASE ~room
    <3>1. blocks = Append(denseBlocks, NewBlock(size)) /\ i = Len(blocks)
      BY <2>2
    <3>2. NewBlock(size) \in Block
      BY <1>3, <1>4, NewBlockIs
    <3>3. Len(Append(denseBlocks, NewBlock(size))) = n + 1
      BY <1>4, <3>2, AppendProperties
    <3> HIDE DEF blocks, i
    <3>4. i = n + 1 /\ Ready(Append(denseBlocks, NewBlock(size)), n + 1, n + 1, size)
      BY <1>2, <3>1, <3>3, GrownReady
    <3> QED BY <3>1, <3>3, <3>4
  <2> QED BY <2>1, <2>2
<1>7. PICK m \in Nat : Len(blocks) = m /\ Ready(blocks, m, i, size)
  BY <1>6
<1> HIDE DEF room, blocks, i, filled
<1>8. filled = [blocks EXCEPT ![i].size = @ + size]
  BY DEF filled
<1>9. DenseHolds(m)'
  <2>1. m <= DenseMaxBlocks /\ denseFull \in Nat
    BY <1>1, <1>3, <1>7
  <2>2. denseGiven' = denseGiven \union {[data |-> blocks[i].data, at |-> blocks[i].size, size |-> size]}
    BY <1>1
  <2>3. denseBlocks' = SwapBackwards(filled, i)
    BY <1>1
  <2>4. denseFull' = denseFull + (IF Remaining(filled[i]) = 0 THEN 1 ELSE 0)
    BY <1>1
  <2>5. Ready(blocks, m, i, size)
    BY <1>7
  <2> QED BY <1>5, <1>8, <2>1, <2>2, <2>3, <2>4, <2>5, FilledHolds
<1> QED BY <1>9 DEF DenseInv

\* Every allocation keeps the blocks in order and the ranges apart.
LEMMA DenseInductive == DenseInv /\ [DenseNext]_denseVars => DenseInv'
<1> SUFFICES ASSUME DenseInv, [DenseNext]_denseVars PROVE DenseInv'
  OBVIOUS
<1>1. CASE UNCHANGED denseVars
  BY <1>1 DEF denseVars, DenseInv, DenseHolds, BlocksOf, Ordered, FullFirst, RangesIn
<1>2. CASE DenseNext
  <2>1. PICK size \in 1..DenseFirst + 1 : DenseAllocate(size)
    BY <1>2 DEF DenseNext
  <2>2. size \in Nat /\ size > 0
    BY DenseAssumption
  <2> QED BY <2>1, <2>2, DenseAllocateInv
<1> QED BY <1>1, <1>2

\* What the invariant says of the types.
LEMMA DenseInvTyped == DenseInv => DenseTypeOK
<1> SUFFICES ASSUME DenseInv PROVE DenseTypeOK
  OBVIOUS
<1>1. PICK n \in Nat : DenseHolds(n)
  BY DEF DenseInv
<1> DEFINE R == [data : 1..DenseMaxBlocks, size : Nat, capacity : Nat]
<1>2. n <= DenseMaxBlocks /\ denseNext \in Nat /\ denseFull \in 0..n /\ DenseMaxBlocks \in Nat
  BY <1>1, DenseAssumption DEF DenseHolds, FullFirst
<1>3. denseBlocks \in [1..n -> Block] /\ \A i \in 1..n : denseBlocks[i].data \in 1..n
  BY <1>1 DEF DenseHolds, BlocksOf
<1>4. \A i \in 1..n : denseBlocks[i] \in R
  BY <1>2, <1>3 DEF Block
<1>5. denseBlocks \in [1..n -> R]
  BY <1>3, <1>4
<1> HIDE DEF R
<1>6. denseBlocks \in Seq(R) /\ Len(denseBlocks) = n
  BY <1>5, SequenceIs
<1> QED BY <1>2, <1>6 DEF DenseTypeOK, R

-----------------------------------------------------------------------------
(* Paths *)

\* f has where the first components of p lead from d.
IsWalk(f, n, d, p) == f = [k \in 0..n |-> IF k = 0 THEN d ELSE Entered(f[k - 1], p[k])]

\* One can follow any number of components.
LEMMA WalkExists ==
  ASSUME NEW d, NEW p, NEW n \in Nat
  PROVE  \E f : IsWalk(f, n, d, p)
<1> DEFINE T == {m \in Nat : \E f : IsWalk(f, m, d, p)}
<1>1. 0 \in T
  <2>1. IsWalk([k \in 0..0 |-> d], 0, d, p)
    BY DEF IsWalk
  <2> QED BY <2>1
<1>2. ASSUME NEW m \in Nat, m \in T PROVE m + 1 \in T
  <2>1. PICK f : IsWalk(f, m, d, p)
    BY <1>2
  <2> DEFINE g == [k \in 0..m + 1 |-> IF k = m + 1 THEN Entered(f[m], p[m + 1]) ELSE f[k]]
  <2>2. ASSUME NEW k \in 0..m + 1
        PROVE g[k] = IF k = 0 THEN d ELSE Entered(g[k - 1], p[k])
    <3>1. CASE k = m + 1
      <4>1. g[k] = Entered(f[m], p[m + 1]) /\ g[m] = f[m] /\ k - 1 = m /\ k # 0
        BY <3>1
      <4> QED BY <4>1, <3>1
    <3>2. CASE k # m + 1
      <4>1. k \in 0..m /\ g[k] = f[k] /\ (k # 0 => k - 1 \in 0..m /\ g[k - 1] = f[k - 1])
        BY <3>2
      <4>2. f[k] = IF k = 0 THEN d ELSE Entered(f[k - 1], p[k])
        BY <2>1, <4>1 DEF IsWalk
      <4> QED BY <4>1, <4>2
    <3> QED BY <3>1, <3>2
  <2>3. IsWalk(g, m + 1, d, p)
    <3>1. g = [k \in 0..m + 1 |-> g[k]]
      OBVIOUS
    <3> HIDE DEF g
    <3> QED BY <2>2, <3>1 DEF IsWalk
  <2> HIDE DEF g
  <2> QED BY <2>3, m + 1 \in Nat
<1>3. Nat \subseteq T
  <2> HIDE DEF T
  <2> QED BY <1>1, <1>2, SetInduction
<1> QED BY <1>3

\* A walk begins at d.
LEMMA WalkStart ==
  ASSUME NEW d, NEW p, NEW n \in Nat, NEW f, IsWalk(f, n, d, p)
  PROVE  f[0] = d
BY DEF IsWalk

\* A walk goes one component at a time.
LEMMA WalkStep ==
  ASSUME NEW d, NEW p, NEW n \in Nat, NEW f, IsWalk(f, n, d, p), NEW k \in Nat, NEW j \in 1..n, j = k + 1
  PROVE  f[j] = Entered(f[k], p[j])
<1>1. j \in 0..n /\ j # 0 /\ j - 1 = k
  OBVIOUS
<1> QED BY <1>1 DEF IsWalk

\* The components of p are those of q from s on.
Follows(p, n, q, s) == \A k \in 1..n : p[k] = q[k + s]

\* Walks along the same components lead to the same places, the second with a detour at its
\* start that leads nowhere.
LEMMA WalksAgree ==
  ASSUME NEW d, NEW p, NEW n \in Nat, NEW f, IsWalk(f, n, d, p),
         NEW q, NEW m \in Nat, NEW g, IsWalk(g, m, d, q),
         NEW s \in Nat, m = n + s, g[s] = d, Follows(p, n, q, s)
  PROVE  f[n] = g[m]
<1> DEFINE T == {k \in Nat : k <= n => f[k] = g[k + s]}
<1>1. 0 \in T
  <2>1. f[0] = d
    BY WalkStart
  <2> QED BY <2>1
<1>2. ASSUME NEW k \in Nat, k \in T PROVE k + 1 \in T
  <2> SUFFICES ASSUME k + 1 <= n PROVE f[k + 1] = g[(k + 1) + s]
    OBVIOUS
  <2>1. f[k] = g[k + s]
    BY <1>2
  <2>2. f[k + 1] = Entered(f[k], p[k + 1])
    <3>1. k + 1 \in 1..n
      OBVIOUS
    <3> QED BY <3>1, WalkStep
  <2>3. PICK i \in Nat, j \in 1..m : i = k + s /\ j = (k + 1) + s /\ j - 1 = i
    OBVIOUS
  <2>4. g[j] = Entered(g[i], q[j])
    <3>1. \A l \in 0..m : g[l] = IF l = 0 THEN d ELSE Entered(g[l - 1], q[l])
      BY DEF IsWalk
    <3>2. g[j] = IF j = 0 THEN d ELSE Entered(g[j - 1], q[j])
      BY <3>1
    <3> QED BY <2>3, <3>2
  <2>5. p[k + 1] = q[j]
    BY <2>3, k + 1 \in 1..n DEF Follows
  <2> QED BY <2>1, <2>2, <2>3, <2>4, <2>5
<1>3. Nat \subseteq T
  <2> HIDE DEF T
  <2> QED BY <1>1, <1>2, SetInduction
<1> QED BY <1>3

\* Resolve is where a walk leads.
LEMMA ResolveIs ==
  ASSUME NEW d, NEW p, Len(p) \in Nat
  PROVE  \E f : IsWalk(f, Len(p), d, p) /\ Resolve(d, p) = f[Len(p)]
<1> DEFINE f == CHOOSE f : f = [k \in 0..Len(p) |-> IF k = 0 THEN d ELSE Entered(f[k - 1], p[k])]
<1>1. \E h : h = [k \in 0..Len(p) |-> IF k = 0 THEN d ELSE Entered(h[k - 1], p[k])]
  <2>1. \E h : IsWalk(h, Len(p), d, p)
    BY WalkExists
  <2> QED BY <2>1 DEF IsWalk
<1>2. IsWalk(f, Len(p), d, p)
  BY <1>1 DEF IsWalk
<1>3. Resolve(d, p) = f[Len(p)]
  BY DEF Resolve
<1> QED BY <1>2, <1>3

\* One component more leads one step further.
LEMMA ResolveAppend ==
  ASSUME NEW S, NEW p \in Seq(S), NEW x \in S, NEW d
  PROVE  Resolve(d, Append(p, x)) = Entered(Resolve(d, p), x)
<1> DEFINE n == Len(p)
           q == Append(p, x)
<1>1. n \in Nat /\ Len(q) = n + 1 /\ (\A k \in 1..n : p[k] = q[k]) /\ q[n + 1] = x
  OBVIOUS
<1>2. PICK f : IsWalk(f, n, d, p) /\ Resolve(d, p) = f[n]
  BY ResolveIs, <1>1
<1>3. PICK g : IsWalk(g, n + 1, d, q) /\ Resolve(d, q) = g[n + 1]
  <2>1. Len(q) \in Nat
    BY <1>1
  <2>2. \E g : IsWalk(g, Len(q), d, q) /\ Resolve(d, q) = g[Len(q)]
    <3> HIDE DEF q
    <3> QED BY <2>1, ResolveIs
  <2> QED BY <1>1, <2>2
<1> HIDE DEF n, q
<1>0. n \in Nat /\ n + 1 \in Nat /\ n + 1 \in 1..n + 1
  BY <1>1
<1>4. g[0] = d /\ g[n + 1] = Entered(g[n], q[n + 1])
  BY <1>0, <1>3, WalkStart, WalkStep
<1>5. f[n] = g[n]
  <2>1. IsWalk(g, n + 1, d, q) => IsWalk([k \in 0..n |-> g[k]], n, d, q)
    <3> SUFFICES ASSUME IsWalk(g, n + 1, d, q), NEW k \in 0..n, k # 0 PROVE g[k] = Entered(g[k - 1], q[k])
      BY <1>0, WalkStart DEF IsWalk
    <3> QED BY <1>0 DEF IsWalk
  <2>2. Follows(p, n, q, 0)
    BY <1>1 DEF Follows
  <2>3. n = n + 0 /\ [k \in 0..n |-> g[k]][0] = d
    BY <1>0, <1>4
  <2>4. f[n] = [k \in 0..n |-> g[k]][n]
    BY <1>0, <1>2, <1>3, <2>1, <2>2, <2>3, WalksAgree
  <2> QED BY <1>0, <2>4
<1> QED BY <1>1, <1>2, <1>3, <1>4, <1>5 DEF q

\* A path leads to a sequence of names.
LEMMA ResolveType ==
  ASSUME NEW S, NEW d \in Seq(S), NEW p \in Seq(S)
  PROVE  Resolve(d, p) \in Seq(S)
<1> DEFINE n == Len(p)
<1>1. n \in Nat /\ \A k \in 1..n : p[k] \in S
  OBVIOUS
<1>2. PICK f : IsWalk(f, n, d, p) /\ Resolve(d, p) = f[n]
  BY ResolveIs, <1>1
<1> DEFINE T == {k \in Nat : k <= n => f[k] \in Seq(S)}
<1>3. 0 \in T
  <2>1. f[0] = d
    BY <1>1, <1>2, WalkStart
  <2> QED BY <2>1
<1>4. ASSUME NEW k \in Nat, k \in T PROVE k + 1 \in T
  <2> SUFFICES ASSUME k + 1 <= n PROVE f[k + 1] \in Seq(S)
    OBVIOUS
  <2> HIDE DEF n
  <2>1. f[k + 1] = Entered(f[k], p[k + 1])
    <3>1. k + 1 \in 1..n
      BY <1>1
    <3> QED BY <3>1, WalkStep, <1>1, <1>2
  <2>2. f[k] \in Seq(S) /\ p[k + 1] \in S
    BY <1>4, <1>1
  <2>3. Front(f[k]) \in Seq(S)
    <3>1. \A i \in 1..Len(f[k]) - 1 : f[k][i] \in S
      BY <2>2
    <3> QED BY <2>2, <3>1, SubSeqProperties, LenProperties DEF Front
  <2>4. Append(f[k], p[k + 1]) \in Seq(S)
    BY <2>2
  <2> QED BY <2>1, <2>2, <2>3, <2>4 DEF Entered
<1>5. Nat \subseteq T
  <2> HIDE DEF T
  <2> QED BY <1>3, <1>4, SetInduction
<1> QED BY <1>1, <1>2, <1>5

\* A `.' at the start leads nowhere.
LEMMA ResolveDot ==
  ASSUME NEW S, NEW p \in Seq(S), "." \in S, NEW d
  PROVE  Resolve(d, <<".">> \o p) = Resolve(d, p)
<1> DEFINE n == Len(p)
           q == <<".">> \o p
<1>0. <<".">> \in Seq(S) /\ Len(<<".">>) = 1 /\ <<".">>[1] = "."
  OBVIOUS
<1>1. n \in Nat /\ Len(q) = n + 1 /\ q[1] = "." /\ \A k \in 1..n : p[k] = q[k + 1]
  <2>1. /\ Len(q) = 1 + n
        /\ \A i \in 1..1 + n : q[i] = IF i <= 1 THEN "." ELSE p[i - 1]
    BY <1>0, ConcatProperties
  <2>2. n \in Nat
    BY LenProperties
  <2> HIDE DEF n, q
  <2> QED BY <2>1, <2>2
<1>2. PICK f : IsWalk(f, n, d, p) /\ Resolve(d, p) = f[n]
  BY ResolveIs, <1>1
<1>3. PICK g : IsWalk(g, n + 1, d, q) /\ Resolve(d, q) = g[n + 1]
  <2>1. Len(q) \in Nat
    BY <1>1
  <2>2. \E g : IsWalk(g, Len(q), d, q) /\ Resolve(d, q) = g[Len(q)]
    <3> HIDE DEF q
    <3> QED BY <2>1, ResolveIs
  <2> QED BY <1>1, <2>2
<1> HIDE DEF n, q
<1>7. n \in Nat /\ n + 1 \in Nat /\ 1 \in 1..n + 1 /\ 1 = 0 + 1
  BY <1>1
<1>4. g[0] = d /\ g[1] = Entered(g[0], q[1])
  <2>1. g[0] = d
    BY <1>7, <1>3, WalkStart
  <2>2. \A k \in 0..n + 1 : g[k] = IF k = 0 THEN d ELSE Entered(g[k - 1], q[k])
    BY <1>3 DEF IsWalk
  <2>3. g[1] = IF 1 = 0 THEN d ELSE Entered(g[1 - 1], q[1])
    <3>1. 1 \in 0..n + 1
      BY <1>7
    <3> QED BY <3>1, <2>2
  <2>4. g[1] = Entered(g[0], q[1])
    BY <2>3
  <2> QED BY <2>1, <2>4
<1>5. g[1] = d
  BY <1>1, <1>4 DEF Entered
<1>6. f[n] = g[n + 1]
  <2>1. Follows(p, n, q, 1)
    BY <1>1 DEF Follows
  <2> QED BY <1>7, <1>2, <1>3, <1>5, <2>1, WalksAgree
<1> QED BY <1>1, <1>2, <1>3, <1>6 DEF q

\* What PathsNormal says of the array a of a path g, and what it takes for `..' to take a
\* name away.
PathShape(g, a) ==
  /\ g \in Seq(Components \union {"C:"})
  /\ a \in Seq((Components \ {"."}) \union {"C:"})
  /\ \A i \in 1..Len(a) :
       /\ a[i] \notin {".", ""}
       /\ a[i] = ".." => ~IsAbsolute(g) /\ \A j \in 1..i : a[j] = ".."
       /\ a[i] = "C:" => IsAbsolute(g) /\ i = 1
  /\ IsAbsolute(g) => Len(a) > 0 /\ a[1] = "C:"
  /\ ~IsAbsolute(g) => \A i \in 1..Len(g) : g[i] # "C:"

\* The directory from which a path is followed.
PathFrom(g) == IF IsAbsolute(g) THEN <<>> ELSE [i \in 1..PathMax + 1 |-> i]

\* The array leads where the path leads.
PathHolds(g, a) == PathShape(g, a) /\ Resolve(PathFrom(g), a) = Resolve(PathFrom(g), g)

PathInv == PathHolds(pathGiven, pathArray)

\* The strings are told apart, and no name is one of them.
LEMMA NamesAre ==
  /\ "C:" \notin Components
  /\ \A x \in Names : x \notin {"..", ".", "", "C:"}
BY PathAssumption DEF Components

\* A pair is what a second item makes of a first.
LEMMA PairIs ==
  ASSUME NEW S, NEW x \in S, NEW y \in S
  PROVE  /\ <<x>> \in Seq(S) /\ Len(<<x>>) = 1 /\ <<x>>[1] = x
         /\ <<x, y>> \in Seq(S) /\ Append(<<x>>, y) = <<x, y>>
<1>1. <<x>> \in Seq(S) /\ Len(<<x>>) = 1 /\ <<x>>[1] = x /\ <<x, y>> \in Seq(S) /\ Len(<<x, y>>) = 2
  OBVIOUS
<1>2. /\ Append(<<x>>, y) \in Seq(S) /\ Len(Append(<<x>>, y)) = 2
      /\ \A i \in 1..2 : Append(<<x>>, y)[i] = <<x, y>>[i]
  BY <1>1
<1> QED BY <1>1, <1>2, SeqEqual

\* A path that was not given leads nowhere.
LEMMA PathInitInv == PathInit => PathInv
<1> SUFFICES ASSUME PathInit PROVE PathInv
  OBVIOUS
<1>1. CASE pathGiven = <<>> /\ pathArray = <<>>
  <2>1. Len(<<>>) = 0 /\ ~IsAbsolute(pathGiven)
    BY <1>1 DEF IsAbsolute
  <2>2. PathShape(pathGiven, pathArray)
    BY <1>1, <2>1 DEF PathShape
  <2> QED BY <1>1, <2>2 DEF PathInv, PathHolds
<1>2. CASE pathGiven = <<"C:", "">> /\ pathArray = <<"C:">>
  <2> DEFINE T == Components \union {"C:"}
  <2>1. "C:" \in T /\ "" \in T /\ "C:" \in (Components \ {"."}) \union {"C:"}
    BY DEF Components
  <2>2. <<"C:">> \in Seq(T) /\ <<"C:">> \in Seq((Components \ {"."}) \union {"C:"})
    <3> HIDE DEF T
    <3> QED BY <2>1, PairIs
  <2>5. Append(<<"C:">>, "") = <<"C:", "">> /\ <<"C:", "">> \in Seq(T)
    <3> HIDE DEF T
    <3> QED BY <2>1, PairIs
  <2>6. Len(pathGiven) = 2 /\ pathGiven[1] = "C:" /\ Len(pathArray) = 1 /\ pathArray[1] = "C:"
    BY <1>2
  <2>7. IsAbsolute(pathGiven)
    BY <2>6 DEF IsAbsolute
  <2>8. ASSUME NEW i \in 1..Len(pathArray)
        PROVE  pathArray[i] \notin {".", ""} /\ pathArray[i] # ".." /\ i = 1
    <3>1. i = 1
      BY <2>6
    <3>2. pathArray[i] = "C:"
      BY <2>6, <3>1
    <3> QED BY <3>1, <3>2
  <2>3. PathShape(pathGiven, pathArray)
    <3>1. pathGiven \in Seq(Components \union {"C:"}) /\ pathArray \in Seq((Components \ {"."}) \union {"C:"})
      BY <1>2, <2>2, <2>5
    <3>2. Len(pathArray) > 0
      BY <2>6
    <3> QED BY <2>6, <2>7, <2>8, <3>1, <3>2 DEF PathShape
  <2>4. Resolve(PathFrom(pathGiven), pathGiven) = Entered(Resolve(PathFrom(pathGiven), pathArray), "")
    <3> HIDE DEF T
    <3> QED BY <1>2, <2>1, <2>2, <2>5, ResolveAppend
  <2> QED BY <2>3, <2>4 DEF PathInv, PathHolds, Entered
<1> QED BY <1>1, <1>2 DEF PathInit


\* Whether a path is absolute is decided by its first components.
LEMMA AbsoluteStays ==
  ASSUME NEW given, NEW a, PathShape(given, a), NEW dir \in Components
  PROVE  /\ Append(given, dir) \in Seq(Components \union {"C:"})
         /\ IsAbsolute(Append(given, dir)) <=> IsAbsolute(given)
         /\ ~IsAbsolute(given) => \A i \in 1..Len(Append(given, dir)) : Append(given, dir)[i] # "C:"
<1> DEFINE g == Append(given, dir)
           n == Len(given)
<1>1. given \in Seq(Components \union {"C:"})
  BY DEF PathShape
<1>2. dir # "C:"
  BY NamesAre
<1>3. n \in Nat /\ g \in Seq(Components \union {"C:"}) /\ Len(g) = n + 1 /\ g[n + 1] = dir /\ \A i \in 1..n : g[i] = given[i]
  BY <1>1, AppendProperties, LenProperties
<1> HIDE DEF g
<1>4. CASE IsAbsolute(given)
  <2>1. n > 1 /\ given[1] = "C:"
    BY <1>4 DEF IsAbsolute
  <2>2. Len(g) > 1 /\ g[1] = "C:"
    BY <1>3, <2>1
  <2> QED BY <1>3, <1>4, <2>2 DEF IsAbsolute, g
<1>5. CASE ~IsAbsolute(given)
  <2>1. \A i \in 1..n : given[i] # "C:"
    BY <1>5 DEF PathShape
  <2>2. ASSUME NEW i \in 1..Len(g) PROVE g[i] # "C:"
    BY <1>2, <1>3, <2>1
  <2>3. ~IsAbsolute(g)
    <3>1. Len(g) > 1 => g[1] # "C:"
      BY <1>3, <2>2
    <3> QED BY <3>1 DEF IsAbsolute
  <2> QED BY <1>3, <1>5, <2>2, <2>3 DEF g
<1> QED BY <1>4, <1>5

\* A component that is put on the array a of a path g.
MayPut(g, a, dir) ==
  dir \in Components \ {".", ""} /\ (dir = ".." => ~IsAbsolute(g) /\ \A j \in 1..Len(a) : a[j] = "..")

\* A component put on the array: the array leads where it led, and on.
LEMMA PathPut ==
  ASSUME NEW g, NEW a, PathHolds(g, a), NEW dir, MayPut(g, a, dir)
  PROVE  PathHolds(Append(g, dir), Append(a, dir))
<1> DEFINE h == Append(g, dir)
           b == Append(a, dir)
           C == (Components \ {"."}) \union {"C:"}
           D == Components \union {"C:"}
<1>1. PathShape(g, a) /\ g \in Seq(D) /\ a \in Seq(C) /\ dir \in C /\ dir \in D /\ dir # "C:" /\ dir \in Components
  BY NamesAre DEF PathHolds, PathShape, MayPut
<1>2. h \in Seq(D) /\ (IsAbsolute(h) <=> IsAbsolute(g)) /\ (~IsAbsolute(g) => \A i \in 1..Len(h) : h[i] # "C:")
  BY <1>1, AbsoluteStays
<1>3. /\ Len(a) \in Nat /\ b \in Seq(C) /\ Len(b) = Len(a) + 1 /\ b[Len(a) + 1] = dir
      /\ \A i \in 1..Len(a) : b[i] = a[i]
  <2> HIDE DEF C, D, h
  <2>1. a \in Seq(C) /\ dir \in C
    BY <1>1
  <2> QED BY <2>1
<1> HIDE DEF h, b, C, D
<1>4. ASSUME NEW i \in 1..Len(b)
      PROVE  /\ b[i] \notin {".", ""}
             /\ b[i] = ".." => ~IsAbsolute(h) /\ \A j \in 1..i : b[j] = ".."
             /\ b[i] = "C:" => IsAbsolute(h) /\ i = 1
  <2>1. CASE i = Len(a) + 1
    <3>1. b[i] = dir
      BY <1>3, <2>1
    <3>2. dir \notin {".", ""} /\ (dir = ".." => ~IsAbsolute(g) /\ \A j \in 1..Len(a) : a[j] = "..")
      BY DEF MayPut
    <3>3. dir = ".." => \A j \in 1..i : b[j] = ".."
      BY <1>3, <2>1, <3>2
    <3> QED BY <1>1, <1>2, <3>1, <3>2, <3>3
  <2>2. CASE i \in 1..Len(a)
    <3>1. /\ a[i] \notin {".", ""}
          /\ a[i] = ".." => ~IsAbsolute(g) /\ \A j \in 1..i : a[j] = ".."
          /\ a[i] = "C:" => IsAbsolute(g) /\ i = 1
      BY <1>1, <2>2 DEF PathShape
    <3>2. b[i] = a[i]
      BY <1>3, <2>2
    <3>3. ASSUME NEW j \in 1..i PROVE b[j] = a[j]
      <4>1. j \in 1..Len(a)
        BY <1>3, <2>2
      <4> QED BY <1>3, <4>1
    <3> QED BY <1>2, <3>1, <3>2, <3>3
  <2>3. i \in 1..Len(a) \/ i = Len(a) + 1
    BY <1>3
  <2> QED BY <2>1, <2>2, <2>3
<1>5. IsAbsolute(h) => Len(b) > 0 /\ b[1] = "C:"
  <2>1. IsAbsolute(g) => Len(a) > 0 /\ a[1] = "C:"
    BY <1>1 DEF PathShape
  <2>2. Len(a) > 0 => Len(b) > 0 /\ b[1] = a[1]
    <3>1. Len(a) > 0 => 1 \in 1..Len(a)
      BY <1>3
    <3> QED BY <1>3, <3>1
  <2> QED BY <1>2, <2>1, <2>2
<1>6. PathShape(h, b)
  BY <1>2, <1>3, <1>4, <1>5 DEF PathShape, C, D
<1>7. Resolve(PathFrom(h), b) = Resolve(PathFrom(h), h)
  <2>1. PathFrom(h) = PathFrom(g)
    BY <1>2 DEF PathFrom
  <2>2. Resolve(PathFrom(g), b) = Entered(Resolve(PathFrom(g), a), dir)
    BY <1>1, ResolveAppend DEF b
  <2>3. Resolve(PathFrom(g), h) = Entered(Resolve(PathFrom(g), g), dir)
    BY <1>1, ResolveAppend DEF h
  <2> QED BY <2>1, <2>2, <2>3 DEF PathHolds
<1> QED BY <1>6, <1>7 DEF PathHolds, h, b

\* A component that leads nowhere is left out.
LEMMA PathSkip ==
  ASSUME NEW g, NEW a, PathHolds(g, a), NEW dir \in Components, dir \in {".", ""}
  PROVE  PathHolds(Append(g, dir), a)
<1> DEFINE h == Append(g, dir)
           D == Components \union {"C:"}
<1>1. PathShape(g, a) /\ g \in Seq(D) /\ dir \in D
  BY DEF PathHolds, PathShape
<1>2. h \in Seq(D) /\ (IsAbsolute(h) <=> IsAbsolute(g)) /\ (~IsAbsolute(g) => \A i \in 1..Len(h) : h[i] # "C:")
  BY <1>1, AbsoluteStays
<1> HIDE DEF h, D
<1>3. PathShape(h, a)
  BY <1>1, <1>2 DEF PathShape, D
<1>4. Resolve(PathFrom(h), h) = Entered(Resolve(PathFrom(g), g), dir)
  <2>1. PathFrom(h) = PathFrom(g)
    BY <1>2 DEF PathFrom
  <2> QED BY <1>1, <2>1, ResolveAppend DEF h
<1>5. Entered(Resolve(PathFrom(g), g), dir) = Resolve(PathFrom(g), g)
  BY DEF Entered
<1>6. PathFrom(h) = PathFrom(g)
  BY <1>2 DEF PathFrom
<1> QED BY <1>3, <1>4, <1>5, <1>6 DEF PathHolds, h

\* The bound is a number.
LEMMA PathMaxIs == PathMax \in Nat
BY PathAssumption

\* `..' takes the last name away: the array leads to where the path turns back to.
LEMMA PathBack ==
  ASSUME NEW g, NEW a, PathHolds(g, a), Len(a) > 0, a[Len(a)] \notin {"..", "C:"}
  PROVE  PathHolds(Append(g, ".."), Front(a))
<1> DEFINE h == Append(g, "..")
           b == Front(a)
           n == Len(a)
           C == (Components \ {"."}) \union {"C:"}
           D == Components \union {"C:"}
<1>1. PathShape(g, a) /\ g \in Seq(D) /\ a \in Seq(C) /\ ".." \in Components /\ ".." \in D
  BY DEF PathHolds, PathShape, Components
<1>2. h \in Seq(D) /\ (IsAbsolute(h) <=> IsAbsolute(g)) /\ (~IsAbsolute(g) => \A i \in 1..Len(h) : h[i] # "C:")
  BY <1>1, AbsoluteStays
<1>3. n \in Nat /\ b \in Seq(C) /\ Len(b) = n - 1 /\ (\A i \in 1..n - 1 : b[i] = a[i]) /\ a = Append(b, a[n]) /\ a[n] \in C
  <2> HIDE DEF C
  <2> QED BY <1>1, FrontIs
<1> HIDE DEF h, b, C, D, n
<1>4. ASSUME NEW i \in 1..Len(b)
      PROVE  /\ b[i] \notin {".", ""}
             /\ b[i] = ".." => ~IsAbsolute(h) /\ \A j \in 1..i : b[j] = ".."
             /\ b[i] = "C:" => IsAbsolute(h) /\ i = 1
  <2>1. i \in 1..n /\ b[i] = a[i]
    BY <1>3
  <2>2. /\ a[i] \notin {".", ""}
        /\ a[i] = ".." => ~IsAbsolute(g) /\ \A j \in 1..i : a[j] = ".."
        /\ a[i] = "C:" => IsAbsolute(g) /\ i = 1
    BY <1>1, <2>1 DEF PathShape, n
  <2>3. ASSUME NEW j \in 1..i PROVE b[j] = a[j]
    BY <1>3
  <2> QED BY <1>2, <2>1, <2>2, <2>3
<1>5. IsAbsolute(h) => Len(b) > 0 /\ b[1] = "C:"
  <2> SUFFICES ASSUME IsAbsolute(h) PROVE Len(b) > 0 /\ b[1] = "C:"
    OBVIOUS
  <2>1. n > 0 /\ a[1] = "C:"
    BY <1>1, <1>2 DEF PathShape, n
  <2>2. n # 1
    BY <2>1 DEF n
  <2>3. 1 \in 1..n - 1 /\ n - 1 > 0
    BY <1>3, <2>1, <2>2
  <2> QED BY <1>3, <2>1, <2>3
<1>6. PathShape(h, b)
  BY <1>2, <1>3, <1>4, <1>5 DEF PathShape, C, D
<1>7. Resolve(PathFrom(h), b) = Resolve(PathFrom(h), h)
  <2> DEFINE S == D \union 1..PathMax + 1
             from == PathFrom(g)
  <2>1. PathFrom(h) = from
    BY <1>2 DEF PathFrom
  <2>2. from \in Seq(S)
    <3>1. <<>> \in Seq(S)
      OBVIOUS
    <3>2. PathMax + 1 \in Nat
      BY PathMaxIs
    <3>3. [i \in 1..PathMax + 1 |-> i] \in [1..PathMax + 1 -> S]
      OBVIOUS
    <3>4. [i \in 1..PathMax + 1 |-> i] \in Seq(S)
      <4> HIDE DEF S
      <4> QED BY <3>2, <3>3, SequenceIs
    <3> HIDE DEF S
    <3> QED BY <3>1, <3>4 DEF PathFrom
  <2>3. b \in Seq(S) /\ a[n] \in S
    <3>1. C \subseteq S
      BY DEF C, D
    <3> HIDE DEF S
    <3> QED BY <1>3, <3>1, SeqMonotonic
  <2> HIDE DEF S, from
  <2>4. Resolve(from, b) \in Seq(S)
    BY <2>2, <2>3, ResolveType
  <2>5. Resolve(from, a) = Entered(Resolve(from, b), a[n])
    BY <1>3, <2>3, ResolveAppend
  <2>6. Entered(Resolve(from, b), a[n]) = Append(Resolve(from, b), a[n])
    <3>1. n \in 1..Len(a)
      BY <1>3 DEF n
    <3>2. a[n] \notin {".", ""}
      BY <1>1, <3>1 DEF PathShape
    <3>3. a[n] # ".."
      BY DEF n
    <3> QED BY <3>2, <3>3 DEF Entered
  <2>7. Front(Append(Resolve(from, b), a[n])) = Resolve(from, b)
    <3> DEFINE r == Resolve(from, b)
               x == a[n]
    <3> HIDE DEF r, x
    <3>1. r \in Seq(S) /\ x \in S
      BY <2>3, <2>4 DEF r, x
    <3>2. /\ Append(r, x) \in Seq(S) /\ Len(Append(r, x)) = Len(r) + 1 /\ Len(r) \in Nat
          /\ \A i \in 1..Len(r) : Append(r, x)[i] = r[i]
      BY <3>1
    <3> DEFINE q == Append(r, x)
    <3> HIDE DEF q
    <3>3. q \in Seq(S) /\ Len(q) > 0 /\ Len(q) - 1 = Len(r)
      BY <3>2 DEF q
    <3>4. Front(q) \in Seq(S) /\ Len(Front(q)) = Len(r) /\ \A i \in 1..Len(r) : Front(q)[i] = q[i]
      BY <3>3, FrontIs
    <3>5. \A i \in 1..Len(r) : Front(q)[i] = r[i]
      BY <3>2, <3>4 DEF q
    <3>6. Front(q) = r
      BY <3>1, <3>4, <3>5, SeqEqual
    <3> QED BY <3>6 DEF q, r, x
  <2>8. Resolve(from, h) = Entered(Resolve(from, g), "..")
    BY <1>1, ResolveAppend DEF h
  <2>9. Resolve(from, g) = Resolve(from, a)
    BY DEF PathHolds, from
  <2>10. Entered(Resolve(from, g), "..") = Front(Resolve(from, g))
    BY DEF Entered
  <2> QED BY <2>1, <2>5, <2>6, <2>7, <2>8, <2>9, <2>10
<1> QED BY <1>6, <1>7 DEF PathHolds, h, b

\* The first m components of a.
FirstOf(a, m) == [i \in 1..m |-> a[i]]

\* A component of a normalized path is put on the array, not taken from it.
LEMMA PutNext ==
  ASSUME NEW g, NEW a, PathShape(g, a), NEW m \in Nat, m + 1 <= Len(a)
  PROVE  AppendSingle(FirstOf(a, m), a[m + 1]) = FirstOf(a, m + 1)
<1> DEFINE n == Len(a)
           p == FirstOf(a, m)
           q == FirstOf(a, m + 1)
           x == a[m + 1]
           C == (Components \ {"."}) \union {"C:"}
<1>1. a \in Seq(C) /\ n \in Nat /\ \A i \in 1..n : a[i] \in C
  <2>1. a \in Seq(C)
    BY DEF PathShape
  <2> HIDE DEF C
  <2> QED BY <2>1
<1>2. m + 1 \in 1..n /\ x \notin {".", ""} /\ (x = ".." => \A j \in 1..m + 1 : a[j] = "..")
  <2>1. m + 1 \in 1..n
    BY <1>1
  <2> QED BY <2>1 DEF PathShape
<1> HIDE DEF n, C, x
<1>7. \A i \in 1..m + 1 : a[i] \in C
  <2> SUFFICES ASSUME NEW i \in 1..m + 1 PROVE i \in 1..n
    BY <1>1
  <2>1. m + 1 <= n
    BY DEF n
  <2> QED BY <1>1, <2>1
<1>3. p \in Seq(C) /\ Len(p) = m /\ \A i \in 1..m : p[i] = a[i]
  <2>1. p \in [1..m -> C]
    BY <1>7 DEF FirstOf
  <2> HIDE DEF p
  <2>2. p \in Seq(C) /\ Len(p) = m
    BY <2>1, SequenceIs
  <2>3. \A i \in 1..m : p[i] = a[i]
    BY DEF p, FirstOf
  <2> QED BY <2>2, <2>3
<1>4. q \in Seq(C) /\ Len(q) = m + 1 /\ \A i \in 1..m + 1 : q[i] = a[i]
  <2>1. q \in [1..m + 1 -> C]
    BY <1>7 DEF FirstOf
  <2> HIDE DEF q
  <2>2. q \in Seq(C) /\ Len(q) = m + 1
    BY <2>1, SequenceIs, m + 1 \in Nat
  <2>3. \A i \in 1..m + 1 : q[i] = a[i]
    BY DEF q, FirstOf
  <2> QED BY <2>2, <2>3
<1> HIDE DEF p, q
<1>5. Append(p, x) = q
  <2> DEFINE t == Append(p, x)
  <2>0. x \in C /\ x = a[m + 1]
    BY <1>1, <1>2 DEF x
  <2>1. t \in Seq(C) /\ Len(t) = m + 1 /\ (\A i \in 1..m : t[i] = p[i]) /\ t[m + 1] = x
    BY <1>3, <2>0
  <2> HIDE DEF t
  <2>2. ASSUME NEW i \in 1..m + 1 PROVE t[i] = q[i]
    <3>1. CASE i = m + 1
      BY <1>4, <2>0, <2>1, <3>1
    <3>2. CASE i \in 1..m
      BY <1>3, <1>4, <2>1, <3>2
    <3>3. i = m + 1 \/ i \in 1..m
      OBVIOUS
    <3> QED BY <3>1, <3>2, <3>3
  <2> QED BY <1>4, <2>1, <2>2, SeqEqual DEF t
<1>6. AppendSingle(p, x) = Append(p, x)
  <2>1. CASE x = ".." /\ p # <<>>
    <3>1. m # 0
      <4>1. m = 0 => p = <<>>
        BY <1>3
      <4> QED BY <2>1, <4>1
    <3>2. m \in 1..m /\ m \in 1..m + 1
      BY <3>1
    <3>3. Last(p) = ".."
      BY <1>2, <1>3, <2>1, <3>2 DEF Last
    <3> QED BY <2>1, <3>3 DEF AppendSingle
  <2>2. CASE ~(x = ".." /\ p # <<>>)
    BY <1>2, <2>2 DEF AppendSingle
  <2> QED BY <2>1, <2>2
<1> QED BY <1>5, <1>6 DEF p, q, x

\* The string made of an array.
JoinedOf(g, a) == IF IsAbsolute(g) THEN a ELSE <<".">> \o a

\* f has the array after the first components of dirs.
IsPut(f, n, dirs) == f = [k \in 0..n |-> IF k = 0 THEN <<>> ELSE AppendSingle(f[k - 1], dirs[k])]

\* Normalizing what normalizing made changes nothing.
LEMMA AppendPathAgain ==
  ASSUME NEW g, NEW a, PathShape(g, a)
  PROVE  AppendPath(<<>>, JoinedOf(g, a)) = a
<1> DEFINE n == Len(a)
           s == IF IsAbsolute(g) THEN 0 ELSE 1
           d == JoinedOf(g, a)
           W == [k \in 0..n + s |-> IF k <= s THEN <<>> ELSE FirstOf(a, k - s)]
           F == CHOOSE f : f = [k \in 0..Len(d) |-> IF k = 0 THEN <<>> ELSE AppendSingle(f[k - 1], d[k])]
           C == Components \union {"C:"}
<1>1. a \in Seq(C) /\ n \in Nat
  <2>1. a \in Seq((Components \ {"."}) \union {"C:"}) /\ (Components \ {"."}) \union {"C:"} \subseteq C
    BY DEF PathShape
  <2> HIDE DEF C
  <2> QED BY <2>1, SeqMonotonic
<1>2. Len(d) = n + s /\ (s = 1 => d[1] = ".") /\ \A k \in 1..n : d[k + s] = a[k]
  <2>1. CASE IsAbsolute(g)
    BY <1>1, <2>1 DEF JoinedOf
  <2>2. CASE ~IsAbsolute(g)
    <3>1. "." \in C
      BY DEF Components
    <3> DEFINE t == <<".">>
    <3>2. t \in Seq(C) /\ Len(t) = 1 /\ t[1] = "."
      <4> HIDE DEF C
      <4> QED BY <3>1, PairIs
    <3> HIDE DEF t, C
    <3>3. /\ Len(t \o a) = 1 + n
          /\ \A i \in 1..1 + n : (t \o a)[i] = IF i <= 1 THEN t[i] ELSE a[i - 1]
      <4>1. /\ Len(t \o a) = Len(t) + Len(a)
            /\ \A i \in 1..Len(t) + Len(a) : (t \o a)[i] = IF i <= Len(t) THEN t[i] ELSE a[i - Len(t)]
        BY <1>1, <3>2, ConcatProperties
      <4> QED BY <3>2, <4>1
    <3>4. d = t \o a /\ s = 1
      BY <2>2 DEF JoinedOf, t
    <3> HIDE DEF s, d, n
    <3>5. Len(d) = n + s /\ d[1] = "."
      BY <1>1, <3>2, <3>3, <3>4
    <3>6. ASSUME NEW k \in 1..n PROVE d[k + s] = a[k]
      <4>1. k + 1 \in 1..1 + n /\ ~(k + 1 <= 1) /\ (k + 1) - 1 = k
        BY <1>1
      <4> QED BY <3>3, <3>4, <4>1
    <3> QED BY <3>5, <3>6
  <2> QED BY <2>1, <2>2
<1>3. s \in {0, 1}
  OBVIOUS
<1> HIDE DEF s, d, n, C
<1>4. ASSUME NEW k \in 0..n + s PROVE W[k] = IF k = 0 THEN <<>> ELSE AppendSingle(W[k - 1], d[k])
  <2>1. CASE k = 0
    BY <1>3, <2>1
  <2>2. CASE k # 0 /\ k <= s
    <3>1. k = 1 /\ s = 1 /\ k - 1 = 0 /\ 0 \in 0..n + s
      BY <1>1, <1>3, <2>2
    <3>2. W[k] = <<>> /\ W[k - 1] = <<>>
      BY <2>2, <3>1
    <3>3. AppendSingle(<<>>, ".") = <<>>
      BY DEF AppendSingle
    <3> HIDE DEF W
    <3> QED BY <1>2, <2>2, <3>1, <3>2, <3>3
  <2>3. CASE k > s
    <3> DEFINE m == (k - s) - 1
    <3>1. m \in Nat /\ m + 1 <= n /\ m + 1 \in 1..n /\ k = (m + 1) + s /\ k - 1 \in 0..n + s /\ k # 0
      BY <1>1, <1>3, <2>3
    <3>2. W[k] = FirstOf(a, m + 1)
      <4>1. W[k] = FirstOf(a, k - s)
        BY <1>3, <2>3
      <4>2. k - s = m + 1
        BY <1>3, <3>1
      <4> HIDE DEF W, m
      <4> QED BY <4>1, <4>2
    <3>3. W[k - 1] = FirstOf(a, m)
      <4>1. CASE k - 1 <= s
        <5>1. m = 0 /\ W[k - 1] = <<>>
          BY <1>3, <2>3, <3>1, <4>1
        <5>2. FirstOf(a, 0) = <<>>
          BY DEF FirstOf
        <5> HIDE DEF W, m
        <5> QED BY <5>1, <5>2
      <4>2. CASE ~(k - 1 <= s)
        <5>1. (k - 1) - s = m
          BY <1>3, <3>1
        <5>2. W[k - 1] = FirstOf(a, (k - 1) - s)
          BY <3>1, <4>2
        <5> HIDE DEF W, m
        <5> QED BY <5>1, <5>2
      <4> QED BY <4>1, <4>2
    <3>4. d[k] = a[m + 1]
      <4> HIDE DEF m
      <4> QED BY <1>2, <3>1
    <3>5. AppendSingle(FirstOf(a, m), a[m + 1]) = FirstOf(a, m + 1)
      <4> HIDE DEF m
      <4> QED BY <3>1, PutNext DEF n
    <3> HIDE DEF W, m
    <3> QED BY <3>1, <3>2, <3>3, <3>4, <3>5
  <2> QED BY <1>3, <2>1, <2>2, <2>3
<1>5. IsPut(W, Len(d), d)
  <2>1. W = [k \in 0..n + s |-> W[k]]
    OBVIOUS
  <2> HIDE DEF W
  <2> QED BY <1>2, <1>4, <2>1 DEF IsPut
<1> HIDE DEF W
<1>6. IsPut(F, Len(d), d)
  BY <1>5 DEF IsPut
<1>7. AppendPath(<<>>, d) = F[Len(d)]
  BY DEF AppendPath
<1> HIDE DEF F
<1> DEFINE T == {k \in Nat : k <= Len(d) => F[k] = W[k]}
<1>8. Len(d) \in Nat
  BY <1>1, <1>2, <1>3
<1>9. 0 \in T
  BY <1>5, <1>6, <1>8 DEF IsPut
<1>10. ASSUME NEW k \in Nat, k \in T PROVE k + 1 \in T
  <2> SUFFICES ASSUME k + 1 <= Len(d) PROVE F[k + 1] = W[k + 1]
    OBVIOUS
  <2>1. F[k] = W[k]
    BY <1>8, <1>10
  <2>2. k + 1 \in 0..Len(d) /\ (k + 1) - 1 = k /\ k + 1 # 0
    BY <1>8
  <2>3. F[k + 1] = AppendSingle(F[k], d[k + 1])
    BY <1>6, <2>2 DEF IsPut
  <2>4. W[k + 1] = AppendSingle(W[k], d[k + 1])
    BY <1>5, <2>2 DEF IsPut
  <2> QED BY <2>1, <2>3, <2>4
<1>11. Nat \subseteq T
  <2> HIDE DEF T
  <2> QED BY <1>9, <1>10, SetInduction
<1>12. F[Len(d)] = W[Len(d)]
  BY <1>8, <1>11
<1>13. W[Len(d)] = FirstOf(a, n)
  <2>1. n + s \in 0..n + s
    BY <1>1, <1>3
  <2>2. W[n + s] = IF n + s <= s THEN <<>> ELSE FirstOf(a, (n + s) - s)
    BY <2>1 DEF W
  <2>3. CASE n = 0
    <3>1. FirstOf(a, 0) = <<>>
      BY DEF FirstOf
    <3>2. n + s <= s
      BY <1>3, <2>3
    <3> QED BY <1>2, <2>2, <2>3, <3>1, <3>2
  <2>4. CASE n # 0
    <3>1. ~(n + s <= s) /\ (n + s) - s = n
      BY <1>1, <1>3, <2>4
    <3> QED BY <1>2, <2>2, <3>1
  <2> QED BY <2>3, <2>4
<1>14. FirstOf(a, n) = a
  <2>1. a \in [1..n -> C]
    BY <1>1, LenProperties DEF n
  <2> QED BY <2>1 DEF FirstOf
<1> QED BY <1>7, <1>12, <1>13, <1>14 DEF d

\* A normalized path is absolute as the path is.
LEMMA JoinedHolds ==
  ASSUME NEW g, NEW a, PathHolds(g, a), a # <<"C:">>
  PROVE  PathHolds(JoinedOf(g, a), a) /\ (IsAbsolute(JoinedOf(g, a)) <=> IsAbsolute(g))
<1> DEFINE C == (Components \ {"."}) \union {"C:"}
           D == Components \union {"C:"}
           n == Len(a)
           h == JoinedOf(g, a)
<1>1. PathShape(g, a) /\ a \in Seq(C) /\ a \in Seq(D)
  <2>1. PathShape(g, a) /\ a \in Seq(C) /\ C \subseteq D
    BY DEF PathHolds, PathShape
  <2> HIDE DEF C, D
  <2> QED BY <2>1, SeqMonotonic
<1>2. n \in Nat
  BY <1>1
<1>3. CASE IsAbsolute(g)
  <2>1. h = a
    BY <1>3 DEF JoinedOf
  <2>2. n > 0 /\ a[1] = "C:"
    BY <1>1, <1>3 DEF PathShape
  <2>3. n # 1
    <3> SUFFICES ASSUME n = 1 PROVE a = <<"C:">>
      OBVIOUS
    <3> DEFINE t == <<"C:">>
    <3>1. t \in Seq(D) /\ Len(t) = 1 /\ t[1] = "C:"
      <4>1. "C:" \in D
        OBVIOUS
      <4> HIDE DEF D
      <4> QED BY <4>1, PairIs
    <3> HIDE DEF t, D
    <3>2. \A i \in 1..Len(a) : a[i] = t[i]
      BY <2>2, <3>1
    <3> QED BY <1>1, <3>1, <3>2, SeqEqual DEF t
  <2>4. IsAbsolute(a)
    <3>2. n > 0
      BY <2>2
    <3>1. n > 1
      <4> HIDE DEF n
      <4> QED BY <1>2, <2>3, <3>2
    <3> QED BY <2>2, <3>1 DEF IsAbsolute
  <2>5. PathShape(a, a)
    BY <1>1, <1>3, <2>4 DEF PathShape
  <2>6. Resolve(PathFrom(a), a) = Resolve(PathFrom(a), a)
    OBVIOUS
  <2> QED BY <1>3, <2>1, <2>4, <2>5, <2>6 DEF PathHolds
<1>4. CASE ~IsAbsolute(g)
  <2> DEFINE t == <<".">>
  <2>1. h = t \o a
    BY <1>4 DEF JoinedOf
  <2>2. "." \in D /\ t \in Seq(D) /\ Len(t) = 1 /\ t[1] = "."
    <3>1. "." \in D
      BY DEF Components
    <3> HIDE DEF D
    <3> QED BY <3>1, PairIs
  <2> HIDE DEF t, D
  <2>3. /\ h \in Seq(D) /\ Len(h) = 1 + n
        /\ \A i \in 1..1 + n : h[i] = IF i <= 1 THEN "." ELSE a[i - 1]
    <3>1. /\ t \o a \in Seq(D) /\ Len(t \o a) = Len(t) + Len(a)
          /\ \A i \in 1..Len(t) + Len(a) : (t \o a)[i] = IF i <= Len(t) THEN t[i] ELSE a[i - Len(t)]
      BY <1>1, <2>2, ConcatProperties
    <3> HIDE DEF h
    <3> QED BY <2>1, <2>2, <3>1
  <2> HIDE DEF h
  <2>4. \A i \in 1..n : a[i] # "C:"
    BY <1>1, <1>4 DEF PathShape
  <2>5. ASSUME NEW i \in 1..Len(h) PROVE h[i] # "C:"
    <3>1. CASE i = 1
      BY <1>2, <2>3, <3>1
    <3>2. CASE i # 1
      <4>1. i \in 1..1 + n /\ i - 1 \in 1..n /\ ~(i <= 1)
        BY <1>2, <2>3, <3>2
      <4> QED BY <2>3, <2>4, <4>1
    <3> QED BY <3>1, <3>2
  <2>6. ~IsAbsolute(h)
    <3>1. Len(h) > 1 => h[1] # "C:"
      BY <1>2, <2>3, <2>5
    <3> QED BY <3>1 DEF IsAbsolute
  <2>7. PathShape(h, a)
    BY <1>1, <1>4, <2>3, <2>5, <2>6 DEF PathShape, D
  <2>8. PathFrom(h) = PathFrom(g)
    BY <1>4, <2>6 DEF PathFrom
  <2>9. Resolve(PathFrom(h), h) = Resolve(PathFrom(h), a)
    BY <1>1, <2>1, <2>2, ResolveDot DEF t
  <2> QED BY <1>4, <2>6, <2>7, <2>9 DEF PathHolds, h
<1> QED BY <1>3, <1>4

\* One component more, wherever it leads.
LEMMA PathAppendInv ==
  ASSUME PathInv, NEW dir \in Components, PathAppend(dir)
  PROVE  PathInv'
<1> DEFINE g == pathGiven
           a == pathArray
           n == Len(a)
           C == (Components \ {"."}) \union {"C:"}
<1>1. PathHolds(g, a) /\ PathShape(g, a) /\ pathGiven' = Append(g, dir) /\ pathArray' = AppendSingle(a, dir)
  BY DEF PathInv, PathHolds, PathAppend
<1>2. a \in Seq(C) /\ n \in Nat /\ (a = <<>> <=> n = 0)
  <2>1. a \in Seq(C)
    BY <1>1 DEF PathShape
  <2> HIDE DEF C
  <2> QED BY <2>1
<1>3. dir = ".." => a # <<"C:">>
  BY DEF PathAppend, AtDrive
<1> HIDE DEF g, a, n, C
<1>4. n > 0 => a[n] \notin {".", ""} /\ (a[n] = ".." => ~IsAbsolute(g) /\ \A j \in 1..n : a[j] = "..") /\ (a[n] = "C:" => n = 1)
  <2> SUFFICES ASSUME n > 0
               PROVE  a[n] \notin {".", ""} /\ (a[n] = ".." => ~IsAbsolute(g) /\ \A j \in 1..n : a[j] = "..") /\ (a[n] = "C:" => n = 1)
    OBVIOUS
  <2>1. n \in 1..Len(a)
    BY <1>2 DEF n
  <2> QED BY <1>1, <2>1 DEF PathShape
<1>5. CASE dir \in {".", ""}
  <2>1. AppendSingle(a, dir) = a
    BY <1>5 DEF AppendSingle
  <2>2. PathHolds(Append(g, dir), a)
    BY <1>1, <1>5, PathSkip
  <2> QED BY <1>1, <2>1, <2>2 DEF PathInv
<1>6. CASE dir = ".." /\ n > 0 /\ a[n] # ".."
  <2>1. a[n] # "C:"
    <3> SUFFICES ASSUME a[n] = "C:" PROVE a = <<"C:">>
      BY <1>3, <1>6
    <3> DEFINE t == <<"C:">>
    <3>1. t \in Seq(C) /\ Len(t) = 1 /\ t[1] = "C:"
      <4>1. "C:" \in C
        BY DEF C
      <4> QED BY <4>1, PairIs
    <3> HIDE DEF t
    <3>2. n = 1 /\ a[1] = "C:"
      BY <1>4, <1>6
    <3>3. Len(a) = 1 /\ \A i \in 1..Len(a) : a[i] = t[i]
      BY <3>1, <3>2 DEF n
    <3> QED BY <1>2, <3>1, <3>3, SeqEqual DEF t
  <2>2. AppendSingle(a, dir) = Front(a)
    <3>1. Last(a) = a[n]
      BY DEF Last, n
    <3>2. a # <<>>
      BY <1>2, <1>6
    <3>3. a[n] # "."
      BY <1>4, <1>6
    <3> QED BY <1>6, <3>1, <3>2, <3>3 DEF AppendSingle
  <2>3. PathHolds(Append(g, ".."), Front(a))
    <3>1. Len(a) > 0 /\ a[Len(a)] \notin {"..", "C:"}
      BY <1>6, <2>1 DEF n
    <3> QED BY <1>1, <3>1, PathBack
  <2> QED BY <1>1, <1>6, <2>2, <2>3 DEF PathInv
<1>7. CASE dir \notin {".", ""} /\ ~(dir = ".." /\ n > 0 /\ a[n] # "..")
  <2>1. AppendSingle(a, dir) = Append(a, dir)
    <3>1. Last(a) = a[n]
      BY DEF Last, n
    <3>2. a # <<>> => n > 0
      BY <1>2
    <3> QED BY <1>7, <3>1, <3>2 DEF AppendSingle
  <2>2. dir = ".." => ~IsAbsolute(g) /\ \A j \in 1..n : a[j] = ".."
    <3> SUFFICES ASSUME dir = ".." PROVE ~IsAbsolute(g) /\ \A j \in 1..n : a[j] = ".."
      OBVIOUS
    <3>1. CASE n > 0
      BY <1>4, <1>7, <3>1
    <3>2. CASE n = 0
      <4>1. IsAbsolute(g) => n > 0
        BY <1>1 DEF PathShape, n
      <4> QED BY <3>2, <4>1
    <3> QED BY <1>2, <3>1, <3>2
  <2>3. MayPut(g, a, dir)
    BY <1>7, <2>2 DEF MayPut, n
  <2> QED BY <1>1, <2>1, <2>3, PathPut DEF PathInv
<1> QED BY <1>5, <1>6, <1>7

\* Normalizing again keeps the array.
LEMMA PathAgainInv ==
  ASSUME PathInv, PathAgain
  PROVE  PathInv'
<1>1. Joined = JoinedOf(pathGiven, pathArray)
  BY DEF Joined, JoinedOf
<1>2. PathHolds(pathGiven, pathArray) /\ PathShape(pathGiven, pathArray)
  BY DEF PathInv, PathHolds
<1>3. pathGiven' = JoinedOf(pathGiven, pathArray) /\ pathArray' = pathArray
  BY <1>1, <1>2, AppendPathAgain DEF PathAgain
<1>4. PathHolds(JoinedOf(pathGiven, pathArray), pathArray)
  BY <1>2, JoinedHolds DEF PathAgain, AtDrive
<1> QED BY <1>3, <1>4 DEF PathInv

\* Each step keeps the array normal and leading where the path leads.
LEMMA PathInductive == PathInv /\ [PathNext]_pathVars => PathInv'
<1> SUFFICES ASSUME PathInv, [PathNext]_pathVars PROVE PathInv'
  OBVIOUS
<1>1. CASE UNCHANGED pathVars
  BY <1>1 DEF pathVars, PathInv
<1> QED BY <1>1, PathAppendInv, PathAgainInv DEF PathNext

\* The invariant says of the path what its property says.
LEMMA PathInvNormal == PathInv => PathTypeOK /\ PathsNormal
<1> SUFFICES ASSUME PathInv PROVE PathTypeOK /\ PathsNormal
  OBVIOUS
<1>1. PathShape(pathGiven, pathArray) /\ PathHolds(pathGiven, pathArray)
  BY DEF PathInv, PathHolds
<1>2. PathTypeOK
  BY <1>1 DEF PathShape, PathTypeOK
<1>3. Resolve(PathFrom(pathGiven), pathArray) = Resolve(PathFrom(pathGiven), pathGiven)
  BY <1>1 DEF PathHolds
<1>4. \A i \in DOMAIN pathArray :
        /\ pathArray[i] \notin {".", ""}
        /\ pathArray[i] = ".." => ~IsAbsolute(pathGiven) /\ \A j \in 1..i : pathArray[j] = ".."
  <2> DEFINE C == (Components \ {"."}) \union {"C:"}
  <2>1. pathArray \in Seq(C)
    BY <1>1 DEF PathShape
  <2>2. DOMAIN pathArray = 1..Len(pathArray)
    <3> HIDE DEF C
    <3> QED BY <2>1
  <2> QED BY <1>1, <2>2 DEF PathShape
<1>5. ~AtDrive => AppendPath(<<>>, Joined) = pathArray /\ (IsAbsolute(Joined) <=> IsAbsolute(pathGiven))
  <2>1. Joined = JoinedOf(pathGiven, pathArray)
    BY DEF Joined, JoinedOf
  <2> QED BY <1>1, <2>1, AppendPathAgain, JoinedHolds DEF AtDrive
<1>6. PathsNormal
  BY <1>3, <1>4, <1>5 DEF PathsNormal, PathFrom
<1> QED BY <1>2, <1>6

-----------------------------------------------------------------------------
(* The heap and its counter *)

\* What is allocated, by address.
LiveAt(live) == DOMAIN live \subseteq Addresses /\ live \in [DOMAIN live -> 1..4]

\* The bytes of what is allocated.
BytesOf(live) == {x \in (DOMAIN live) \X (1..4) : x[2] <= live[x[1]]}

\* There are finitely many of them.
LEMMA BytesFinite ==
  ASSUME NEW live, LiveAt(live)
  PROVE  IsFiniteSet(DOMAIN live) /\ IsFiniteSet(BytesOf(live)) /\ Cardinality(BytesOf(live)) \in Nat
<1>1. IsFiniteSet(DOMAIN live)
  BY HeapAssumption, FS_Subset DEF LiveAt
<1>2. IsFiniteSet(1..4)
  BY FS_Interval, 1 \in Int, 4 \in Int
<1>3. IsFiniteSet((DOMAIN live) \X (1..4))
  BY <1>1, <1>2, FS_Product
<1>4. IsFiniteSet(BytesOf(live))
  BY <1>3, FS_Subset DEF BytesOf
<1> QED BY <1>1, <1>4, FS_CardinalityType

\* An allocation of n bytes makes them n more.
LEMMA BytesMore ==
  ASSUME NEW live, LiveAt(live), NEW a \in Addresses, a \notin DOMAIN live, NEW n \in 1..4,
         NEW more, more = [x \in DOMAIN live \union {a} |-> IF x = a THEN n ELSE live[x]]
  PROVE  LiveAt(more) /\ DOMAIN more = DOMAIN live \union {a} /\ Cardinality(BytesOf(more)) = Cardinality(BytesOf(live)) + n
<1> DEFINE D == DOMAIN live
           New == {a} \X (1..n)
<1>1. DOMAIN more = D \union {a} /\ more[a] = n /\ \A x \in D : x # a /\ more[x] = live[x]
  OBVIOUS
<1>2. LiveAt(more)
  BY DEF LiveAt
<1>3. BytesOf(more) = BytesOf(live) \union New
  <2>1. ASSUME NEW x \in BytesOf(more) PROVE x \in BytesOf(live) \union New
    <3>1. PICK p \in D \union {a}, b \in 1..4 : x = <<p, b>>
      BY <1>1 DEF BytesOf
    <3>2. b <= more[p]
      BY <3>1 DEF BytesOf
    <3>3. CASE p = a
      <4>1. b \in 1..n
        BY <1>1, <3>2, <3>3
      <4> QED BY <3>1, <3>3, <4>1
    <3>4. CASE p # a
      <4>1. p \in D /\ b <= live[p]
        BY <1>1, <3>2, <3>4
      <4> QED BY <3>1, <4>1 DEF BytesOf
    <3> QED BY <3>3, <3>4
  <2>2. ASSUME NEW x \in BytesOf(live) PROVE x \in BytesOf(more)
    <3>1. PICK p \in D, b \in 1..4 : x = <<p, b>>
      BY DEF BytesOf
    <3>2. b <= live[p]
      BY <3>1 DEF BytesOf
    <3>3. p \in DOMAIN more /\ b <= more[p]
      BY <1>1, <3>2
    <3> QED BY <3>1, <3>3 DEF BytesOf
  <2>3. ASSUME NEW x \in New PROVE x \in BytesOf(more)
    <3>1. PICK b \in 1..n : x = <<a, b>>
      OBVIOUS
    <3>2. a \in DOMAIN more /\ b \in 1..4 /\ b <= more[a]
      BY <1>1
    <3> QED BY <3>1, <3>2 DEF BytesOf
  <2> QED BY <2>1, <2>2, <2>3
<1>4. BytesOf(live) \cap New = {}
  <2> SUFFICES ASSUME NEW x \in BytesOf(live), x \in New PROVE FALSE
    OBVIOUS
  <2>1. PICK p \in D, b \in 1..4 : x = <<p, b>>
    BY DEF BytesOf
  <2>2. x[1] = p /\ x[1] = a
    BY <2>1
  <2> QED BY <1>1, <2>2
<1>5. IsFiniteSet(New) /\ Cardinality(New) = n
  <2>1. IsFiniteSet({a}) /\ Cardinality({a}) = 1
    BY FS_Singleton
  <2>2. IsFiniteSet(1..n) /\ Cardinality(1..n) = n
    <3>1. n \in Int /\ 1 \in Int
      OBVIOUS
    <3>2. IsFiniteSet(1..n) /\ Cardinality(1..n) = IF 1 > n THEN 0 ELSE n - 1 + 1
      BY <3>1, FS_Interval
    <3> QED BY <3>2
  <2> DEFINE A == {a}
             B == 1..n
  <2>3. IsFiniteSet(A \X B) /\ Cardinality(A \X B) = Cardinality(A) * Cardinality(B)
    <3>1. IsFiniteSet(A) /\ IsFiniteSet(B)
      BY <2>1, <2>2
    <3> HIDE DEF A, B
    <3> QED BY <3>1, FS_Product
  <2> QED BY <2>1, <2>2, <2>3
<1>6. IsFiniteSet(BytesOf(live)) /\ Cardinality(BytesOf(live)) \in Nat
  BY BytesFinite
<1> HIDE DEF New, D
<1>7. Cardinality(BytesOf(live) \union New) = Cardinality(BytesOf(live)) + n - Cardinality({})
  BY <1>4, <1>5, <1>6, FS_Union
<1>8. Cardinality({}) = 0
  BY FS_EmptySet
<1>9. Cardinality(BytesOf(more)) = Cardinality(BytesOf(live)) + n
  <2>1. Cardinality(BytesOf(live) \union New) = Cardinality(BytesOf(live)) + n
    BY <1>6, <1>7, <1>8
  <2> QED BY <1>3, <2>1
<1> QED BY <1>1, <1>2, <1>9 DEF D

\* Without an allocation they are as many fewer as it has.
LEMMA BytesLess ==
  ASSUME NEW live, LiveAt(live), NEW a \in DOMAIN live, NEW less, less = [x \in DOMAIN live \ {a} |-> live[x]]
  PROVE  LiveAt(less) /\ Cardinality(BytesOf(less)) = Cardinality(BytesOf(live)) - live[a]
<1> DEFINE n == live[a]
           more == [x \in DOMAIN less \union {a} |-> IF x = a THEN n ELSE less[x]]
<1>1. LiveAt(less) /\ a \in Addresses /\ n \in 1..4 /\ a \notin DOMAIN less
  BY DEF LiveAt
<1>2. more = live
  <2>1. DOMAIN less \union {a} = DOMAIN live
    OBVIOUS
  <2>2. \A x \in DOMAIN live : (IF x = a THEN n ELSE less[x]) = live[x]
    OBVIOUS
  <2>3. live = [x \in DOMAIN live |-> live[x]]
    BY DEF LiveAt
  <2> QED BY <2>1, <2>2, <2>3
<1>3. Cardinality(BytesOf(more)) = Cardinality(BytesOf(less)) + n
  <2> HIDE DEF n, more
  <2> QED BY <1>1, BytesMore DEF more
<1>4. Cardinality(BytesOf(less)) \in Nat
  BY <1>1, BytesFinite
<1> HIDE DEF more
<1> QED BY <1>1, <1>2, <1>3, <1>4

\* The n entries of table s are the live allocations, each once and with its size.
TableOf(s, n, live) ==
  /\ n \in Nat /\ s \in [1..n -> Allocation]
  /\ \A i, j \in 1..n : s[i].mem = s[j].mem => i = j
  /\ \A i \in 1..n : s[i].mem \in DOMAIN live /\ Bytes(s[i]) = live[s[i].mem]
  /\ \A a \in DOMAIN live : \E i \in 1..n : s[i].mem = a

\* The static entries among n.
Statics(s, n) == {e \in {s[i] : i \in 1..n} : e.static}

\* An entry stands for 1 to 4 bytes.
LEMMA BytesIs ==
  ASSUME NEW e \in Allocation
  PROVE  Bytes(e) \in 1..4 /\ e.mem \in Addresses /\ e.static \in BOOLEAN
<1>1. e.element \in 1..2 /\ e.count \in 1..2 /\ e.mem \in Addresses /\ e.static \in BOOLEAN
  BY DEF Allocation
<1>2. e.element = 1 \/ e.element = 2
  BY <1>1
<1>3. CASE e.element = 1
  BY <1>1, <1>3 DEF Bytes
<1>4. CASE e.element = 2
  BY <1>1, <1>4 DEF Bytes
<1> QED BY <1>1, <1>2, <1>3, <1>4

\* insert: the table with an entry more is that of the memory with an allocation more.
LEMMA TableInsert ==
  ASSUME NEW live, NEW n, NEW s, TableOf(s, n, live), NEW e \in Allocation, e.mem \notin DOMAIN live,
         NEW more, more = [x \in DOMAIN live \union {e.mem} |-> IF x = e.mem THEN Bytes(e) ELSE live[x]]
  PROVE  /\ TableOf(Append(s, e), n + 1, more)
         /\ Statics(Append(s, e), n + 1) = IF e.static THEN Statics(s, n) \union {e} ELSE Statics(s, n)
         /\ e \notin Statics(s, n)
<1> DEFINE t == Append(s, e)
           a == e.mem
           b == Bytes(e)
<1>0. n \in Nat /\ s \in [1..n -> Allocation]
  BY DEF TableOf
<1>1. t \in [1..n + 1 -> Allocation] /\ t[n + 1] = e /\ \A i \in 1..n : t[i] = s[i]
  <2>1. s \in Seq(Allocation) /\ Len(s) = n
    BY <1>0, SequenceIs
  <2>2. t \in Seq(Allocation) /\ Len(t) = n + 1 /\ t[n + 1] = e /\ \A i \in 1..n : t[i] = s[i]
    BY <2>1, AppendProperties
  <2>3. n + 1 \in Nat
    BY <1>0
  <2> HIDE DEF t
  <2> QED BY <2>2, <2>3, SequenceIs
<1>2. \A i \in 1..n + 1 : i = n + 1 \/ i \in 1..n
  BY <1>0
<1>3. n + 1 \in 1..n + 1 /\ 1..n \subseteq 1..n + 1 /\ n + 1 \notin 1..n
  BY <1>0
<1>4. /\ \A i, j \in 1..n : s[i].mem = s[j].mem => i = j
      /\ \A i \in 1..n : s[i].mem \in DOMAIN live /\ Bytes(s[i]) = live[s[i].mem]
      /\ \A x \in DOMAIN live : \E i \in 1..n : s[i].mem = x
  BY DEF TableOf
<1>5. DOMAIN more = DOMAIN live \union {a} /\ more[a] = b /\ \A x \in DOMAIN live : more[x] = live[x]
  OBVIOUS
<1>6. \A i \in 1..n : s[i].mem # a
  BY <1>4
<1> HIDE DEF t
<1>7. TableOf(t, n + 1, more)
  <2>1. \A i, j \in 1..n + 1 : t[i].mem = t[j].mem => i = j
    <3> SUFFICES ASSUME NEW i \in 1..n + 1, NEW j \in 1..n + 1, t[i].mem = t[j].mem PROVE i = j
      OBVIOUS
    <3>1. CASE i \in 1..n /\ j \in 1..n
      BY <1>1, <1>4, <3>1
    <3>2. CASE i = n + 1 /\ j \in 1..n
      BY <1>1, <1>6, <3>2
    <3>3. CASE j = n + 1 /\ i \in 1..n
      BY <1>1, <1>6, <3>3
    <3> QED BY <1>2, <3>1, <3>2, <3>3
  <2>2. \A i \in 1..n + 1 : t[i].mem \in DOMAIN more /\ Bytes(t[i]) = more[t[i].mem]
    <3> SUFFICES ASSUME NEW i \in 1..n + 1 PROVE t[i].mem \in DOMAIN more /\ Bytes(t[i]) = more[t[i].mem]
      OBVIOUS
    <3>1. CASE i \in 1..n
      <4>1. t[i] = s[i] /\ s[i].mem \in DOMAIN live /\ Bytes(s[i]) = live[s[i].mem]
        BY <1>1, <1>4, <3>1
      <4> QED BY <1>5, <4>1
    <3>2. CASE i = n + 1
      BY <1>1, <1>5, <3>2
    <3> QED BY <1>2, <3>1, <3>2
  <2>3. \A x \in DOMAIN more : \E i \in 1..n + 1 : t[i].mem = x
    <3> SUFFICES ASSUME NEW x \in DOMAIN more PROVE \E i \in 1..n + 1 : t[i].mem = x
      OBVIOUS
    <3>1. CASE x = a
      BY <1>1, <1>3, <3>1
    <3>2. CASE x \in DOMAIN live
      BY <1>1, <1>3, <1>4, <3>2
    <3> QED BY <1>5, <3>1, <3>2
  <2>4. n + 1 \in Nat
    BY <1>0
  <2> QED BY <1>1, <2>1, <2>2, <2>3, <2>4 DEF TableOf
<1>8. {t[i] : i \in 1..n + 1} = {s[i] : i \in 1..n} \union {e}
  <2>1. ASSUME NEW i \in 1..n + 1 PROVE t[i] \in {s[k] : k \in 1..n} \union {e}
    BY <1>1, <1>2
  <2>2. ASSUME NEW i \in 1..n PROVE s[i] \in {t[k] : k \in 1..n + 1}
    BY <1>1, <1>3
  <2>3. e \in {t[k] : k \in 1..n + 1}
    BY <1>1, <1>3
  <2> QED BY <2>1, <2>2, <2>3
<1>9. e \notin {s[i] : i \in 1..n}
  BY <1>6
<1> QED BY <1>7, <1>8, <1>9 DEF Statics, t

\* t is table s with e for its entry i.
Updated(t, s, n, i, e, moved) ==
  /\ TableOf(t, n, moved)
  /\ Statics(t, n) = IF e.static THEN (Statics(s, n) \ {s[i]}) \union {e} ELSE Statics(s, n)
  /\ e.static => s[i] \in Statics(s, n) /\ e \notin Statics(s, n) \ {s[i]}

\* update: entry i stands for the new address and size, and is static when it was.
LEMMA TableUpdate ==
  ASSUME NEW live, NEW n, NEW s, TableOf(s, n, live), NEW i \in 1..n, NEW e \in Allocation,
         e.mem \notin DOMAIN live \/ e.mem = s[i].mem, e.static = s[i].static,
         NEW moved, moved = [x \in (DOMAIN live \ {s[i].mem}) \union {e.mem} |-> IF x = e.mem THEN Bytes(e) ELSE live[x]]
  PROVE  Updated([s EXCEPT ![i] = e], s, n, i, e, moved)
<1> DEFINE t == [s EXCEPT ![i] = e]
           a == e.mem
           b == Bytes(e)
<1>0. n \in Nat /\ s \in [1..n -> Allocation]
  BY DEF TableOf
<1>1. t \in [1..n -> Allocation] /\ t[i] = e /\ \A j \in 1..n : j # i => t[j] = s[j]
  BY <1>0
<1>2. /\ \A k, j \in 1..n : s[k].mem = s[j].mem => k = j
      /\ \A k \in 1..n : s[k].mem \in DOMAIN live /\ Bytes(s[k]) = live[s[k].mem]
      /\ \A x \in DOMAIN live : \E k \in 1..n : s[k].mem = x
  BY DEF TableOf
<1>3. /\ DOMAIN moved = (DOMAIN live \ {s[i].mem}) \union {a} /\ moved[a] = b
      /\ \A x \in DOMAIN live : x # s[i].mem /\ x # a => moved[x] = live[x]
  OBVIOUS
<1>4. \A j \in 1..n : j # i => s[j].mem # a
  BY <1>2
<1>5. \A j \in 1..n : j # i => s[j].mem # s[i].mem
  BY <1>2
<1> HIDE DEF t
<1>6. TableOf(t, n, moved)
  <2>1. \A k, j \in 1..n : t[k].mem = t[j].mem => k = j
    <3> SUFFICES ASSUME NEW k \in 1..n, NEW j \in 1..n, t[k].mem = t[j].mem PROVE k = j
      OBVIOUS
    <3>1. CASE k # i /\ j # i
      BY <1>1, <1>2, <3>1
    <3>2. CASE k = i /\ j # i
      BY <1>1, <1>4, <3>2
    <3>3. CASE k # i /\ j = i
      BY <1>1, <1>4, <3>3
    <3> QED BY <3>1, <3>2, <3>3
  <2>2. \A k \in 1..n : t[k].mem \in DOMAIN moved /\ Bytes(t[k]) = moved[t[k].mem]
    <3> SUFFICES ASSUME NEW k \in 1..n PROVE t[k].mem \in DOMAIN moved /\ Bytes(t[k]) = moved[t[k].mem]
      OBVIOUS
    <3>1. CASE k # i
      <4>1. t[k] = s[k] /\ s[k].mem \in DOMAIN live /\ Bytes(s[k]) = live[s[k].mem]
        BY <1>1, <1>2, <3>1
      <4> QED BY <1>3, <1>4, <1>5, <3>1, <4>1
    <3>2. CASE k = i
      BY <1>1, <1>3, <3>2
    <3> QED BY <3>1, <3>2
  <2>3. \A x \in DOMAIN moved : \E k \in 1..n : t[k].mem = x
    <3> SUFFICES ASSUME NEW x \in DOMAIN moved PROVE \E k \in 1..n : t[k].mem = x
      OBVIOUS
    <3>1. CASE x = a
      BY <1>1, <3>1
    <3>2. CASE x \in DOMAIN live /\ x # s[i].mem
      <4>1. PICK k \in 1..n : s[k].mem = x
        BY <1>2, <3>2
      <4>2. k # i
        BY <3>2, <4>1
      <4> QED BY <1>1, <4>1, <4>2
    <3> QED BY <1>3, <3>1, <3>2
  <2> QED BY <1>0, <1>1, <2>1, <2>2, <2>3 DEF TableOf
<1>7. {t[k] : k \in 1..n} = ({s[k] : k \in 1..n} \ {s[i]}) \union {e}
  <2>1. ASSUME NEW k \in 1..n PROVE t[k] \in ({s[j] : j \in 1..n} \ {s[i]}) \union {e}
    BY <1>1, <1>5
  <2>2. ASSUME NEW k \in 1..n, s[k] # s[i] PROVE s[k] \in {t[j] : j \in 1..n}
    BY <1>1, <2>2
  <2>3. e \in {t[k] : k \in 1..n}
    BY <1>1
  <2> QED BY <2>1, <2>2, <2>3
<1>8. e \notin {s[k] : k \in 1..n} \ {s[i]}
  BY <1>4
<1>9. s[i] \in {s[k] : k \in 1..n}
  OBVIOUS
<1> QED BY <1>6, <1>7, <1>8, <1>9 DEF Statics, t, Updated

\* remove: the last entry takes the place of entry i.
LEMMA TableRemove ==
  ASSUME NEW live, NEW n, NEW s, TableOf(s, n, live), NEW i \in 1..n,
         NEW less, less = [x \in DOMAIN live \ {s[i].mem} |-> live[x]]
  PROVE  /\ TableOf(RemoveSingle(s, i), n - 1, less)
         /\ Statics(RemoveSingle(s, i), n - 1) = Statics(s, n) \ {s[i]}
         /\ s[i].static => s[i] \in Statics(s, n)
         /\ ~s[i].static => s[i] \notin Statics(s, n)
<1> DEFINE t == RemoveSingle(s, i)
<1>0. n \in Nat /\ s \in [1..n -> Allocation] /\ n - 1 \in Nat /\ n \in 1..n
  BY DEF TableOf
<1>1. t \in [1..n - 1 -> Allocation] /\ \A j \in 1..n - 1 : t[j] = IF j = i THEN s[n] ELSE s[j]
  <2> DEFINE u == [s EXCEPT ![i] = s[n], ![n] = s[i]]
  <2>1. s \in Seq(Allocation) /\ Len(s) = n
    BY <1>0, SequenceIs
  <2>2. u \in [1..n -> Allocation] /\ \A j \in 1..n - 1 : u[j] = IF j = i THEN s[n] ELSE s[j]
    BY <1>0
  <2> HIDE DEF u
  <2>3. u \in Seq(Allocation) /\ Len(u) = n /\ Len(u) > 0
    BY <1>0, <2>2, SequenceIs
  <2>4. Front(u) \in Seq(Allocation) /\ Len(Front(u)) = n - 1 /\ \A j \in 1..n - 1 : Front(u)[j] = u[j]
    BY <2>3, FrontIs
  <2>5. t = Front(u)
    BY <2>1 DEF RemoveSingle, u, Last
  <2>6. t \in [1..n - 1 -> Allocation]
    BY <1>0, <2>4, <2>5, SequenceIs
  <2> QED BY <2>2, <2>4, <2>5, <2>6
<1>2. /\ \A k, j \in 1..n : s[k].mem = s[j].mem => k = j
      /\ \A k \in 1..n : s[k].mem \in DOMAIN live /\ Bytes(s[k]) = live[s[k].mem]
      /\ \A x \in DOMAIN live : \E k \in 1..n : s[k].mem = x
  BY DEF TableOf
<1>3. DOMAIN less = DOMAIN live \ {s[i].mem} /\ \A x \in DOMAIN less : less[x] = live[x]
  OBVIOUS
<1> DEFINE from(j) == IF j = i THEN n ELSE j
<1>4. \A j \in 1..n - 1 : from(j) \in 1..n /\ from(j) # i /\ t[j] = s[from(j)]
  <2>1. \A j \in 1..n - 1 : from(j) \in 1..n /\ from(j) # i
    BY <1>0
  <2> QED BY <1>1, <2>1
<1>5. \A k, j \in 1..n - 1 : from(k) = from(j) => k = j
  BY <1>0
<1>6. \A k \in 1..n : k # i => \E j \in 1..n - 1 : from(j) = k
  <2> SUFFICES ASSUME NEW k \in 1..n, k # i PROVE \E j \in 1..n - 1 : from(j) = k
    OBVIOUS
  <2>1. CASE k = n
    <3>1. i \in 1..n - 1 /\ from(i) = k
      BY <1>0, <2>1
    <3> QED BY <3>1
  <2>2. CASE k # n
    <3>1. k \in 1..n - 1 /\ from(k) = k
      BY <1>0, <2>2
    <3> QED BY <3>1
  <2> QED BY <2>1, <2>2
<1> HIDE DEF t, from
<1>7. \A k \in 1..n : k # i => \E j \in 1..n - 1 : t[j] = s[k]
  BY <1>4, <1>6
<1>8. \A k \in 1..n : k # i => s[k].mem # s[i].mem
  BY <1>2
<1>9. TableOf(t, n - 1, less)
  <2>1. \A k, j \in 1..n - 1 : t[k].mem = t[j].mem => k = j
    <3> SUFFICES ASSUME NEW k \in 1..n - 1, NEW j \in 1..n - 1, t[k].mem = t[j].mem PROVE k = j
      OBVIOUS
    <3>1. from(k) \in 1..n /\ from(j) \in 1..n /\ s[from(k)].mem = s[from(j)].mem
      BY <1>4
    <3>2. from(k) = from(j)
      BY <1>2, <3>1
    <3> QED BY <1>5, <3>2
  <2>2. \A k \in 1..n - 1 : t[k].mem \in DOMAIN less /\ Bytes(t[k]) = less[t[k].mem]
    <3> SUFFICES ASSUME NEW k \in 1..n - 1 PROVE t[k].mem \in DOMAIN less /\ Bytes(t[k]) = less[t[k].mem]
      OBVIOUS
    <3>1. from(k) \in 1..n /\ from(k) # i /\ t[k] = s[from(k)]
      BY <1>4
    <3>2. t[k].mem \in DOMAIN live /\ t[k].mem # s[i].mem /\ Bytes(t[k]) = live[t[k].mem]
      BY <1>2, <1>8, <3>1
    <3> QED BY <1>3, <3>2
  <2>3. \A x \in DOMAIN less : \E k \in 1..n - 1 : t[k].mem = x
    <3> SUFFICES ASSUME NEW x \in DOMAIN less PROVE \E k \in 1..n - 1 : t[k].mem = x
      OBVIOUS
    <3>1. PICK k \in 1..n : s[k].mem = x
      BY <1>2, <1>3
    <3>2. k # i
      BY <1>3, <3>1
    <3> QED BY <1>7, <3>1, <3>2
  <2> QED BY <1>0, <1>1, <2>1, <2>2, <2>3 DEF TableOf
<1>10. {t[k] : k \in 1..n - 1} = {s[k] : k \in 1..n} \ {s[i]}
  <2>1. ASSUME NEW k \in 1..n - 1 PROVE t[k] \in {s[j] : j \in 1..n} \ {s[i]}
    <3>1. from(k) \in 1..n /\ from(k) # i /\ t[k] = s[from(k)]
      BY <1>4
    <3>2. t[k] # s[i]
      BY <1>8, <3>1
    <3> QED BY <3>1, <3>2
  <2>2. ASSUME NEW k \in 1..n, s[k] # s[i] PROVE s[k] \in {t[j] : j \in 1..n - 1}
    <3>1. k # i
      BY <2>2
    <3>2. PICK j \in 1..n - 1 : t[j] = s[k]
      BY <1>7, <3>1
    <3> QED BY <3>2
  <2> QED BY <2>1, <2>2
<1>11. s[i] \in {s[k] : k \in 1..n}
  OBVIOUS
<1> QED BY <1>9, <1>10, <1>11 DEF Statics, t

\* The table of n entries and the totals agree with the memory.
HeapHolds(n) ==
  /\ LiveAt(heapLive) /\ TableOf(cntAllocs, n, heapLive)
  /\ n \in Nat /\ n = Cardinality(DOMAIN heapLive)
  /\ cntSize \in Nat /\ cntSize = Cardinality(BytesOf(heapLive))
  /\ cntStatic \in Nat /\ IsFiniteSet(Statics(cntAllocs, n)) /\ cntStatic = Cardinality(Statics(cntAllocs, n))
  /\ cntMaxSize \in Nat /\ cntSize <= cntMaxSize
  /\ cntMaxBlocks \in Nat /\ n <= cntMaxBlocks
  /\ cntRuntime \in BOOLEAN /\ cntFailed = FALSE

\* The inductive invariant of the heap, for some number of entries.
HeapInv == \E n \in Nat : HeapHolds(n)

\* A live address has an entry.
LEMMA EntryIs ==
  ASSUME NEW n \in Nat, HeapHolds(n), NEW a \in DOMAIN heapLive
  PROVE  Entry(a) \in 1..n /\ Entry(a) # 0 /\ cntAllocs[Entry(a)].mem = a /\ Bytes(cntAllocs[Entry(a)]) = heapLive[a]
<1> DEFINE found == {i \in DOMAIN cntAllocs : cntAllocs[i].mem = a}
<1>1. /\ cntAllocs \in [1..n -> Allocation] /\ \E i \in 1..n : cntAllocs[i].mem = a
      /\ \A i \in 1..n : Bytes(cntAllocs[i]) = heapLive[cntAllocs[i].mem]
  BY DEF HeapHolds, TableOf
<1>2. found \subseteq Nat /\ found # {} /\ found \subseteq 1..n
  BY <1>1
<1>3. Min(found) \in found
  <2> HIDE DEF found
  <2> QED BY <1>2, LeastIsMin
<1>4. Entry(a) = Min(found)
  BY <1>2 DEF Entry
<1>5. Entry(a) \in found /\ Entry(a) \in 1..n
  BY <1>2, <1>3, <1>4
<1>6. Entry(a) # 0
  BY <1>5
<1> QED BY <1>1, <1>5, <1>6

\* The table is a sequence as long as the number of the entries.
LEMMA TableLen ==
  ASSUME NEW n \in Nat, HeapHolds(n)
  PROVE  cntAllocs \in Seq(Allocation) /\ Len(cntAllocs) = n /\ IsFiniteSet(DOMAIN heapLive)
<1>1. cntAllocs \in [1..n -> Allocation] /\ LiveAt(heapLive)
  BY DEF HeapHolds, TableOf
<1>2. cntAllocs \in Seq(Allocation) /\ Len(cntAllocs) = n
  BY <1>1, SequenceIs
<1> QED BY <1>1, <1>2, BytesFinite

\* Initially nothing is allocated.
LEMMA HeapInitInv == HeapInit => HeapInv
<1> SUFFICES ASSUME HeapInit PROVE HeapHolds(0)
  BY DEF HeapInv
<1> USE DEF HeapInit
<1>1. DOMAIN heapLive = {} /\ LiveAt(heapLive)
  BY DEF LiveAt
<1>2. TableOf(cntAllocs, 0, heapLive)
  <2>1. cntAllocs \in [1..0 -> Allocation]
    <3>1. <<>> \in Seq(Allocation) /\ Len(<<>>) = 0
      OBVIOUS
    <3> QED BY <3>1, SequenceIs, 0 \in Nat
  <2> QED BY <1>1, <2>1 DEF TableOf
<1>3. BytesOf(heapLive) = {} /\ Statics(cntAllocs, 0) = {}
  BY <1>1 DEF BytesOf, Statics
<1>4. Cardinality({}) = 0 /\ IsFiniteSet({})
  BY FS_EmptySet
<1>5. Cardinality(DOMAIN heapLive) = 0 /\ Cardinality(BytesOf(heapLive)) = 0
  BY <1>1, <1>3, <1>4
<1>6. IsFiniteSet(Statics(cntAllocs, 0)) /\ Cardinality(Statics(cntAllocs, 0)) = 0
  BY <1>3, <1>4
<1>7. 0 = Cardinality(DOMAIN heapLive) /\ cntSize = Cardinality(BytesOf(heapLive)) /\ cntSize \in Nat
  BY <1>5
<1>8. cntStatic \in Nat /\ IsFiniteSet(Statics(cntAllocs, 0)) /\ cntStatic = Cardinality(Statics(cntAllocs, 0))
  BY <1>6
<1>9. cntMaxSize \in Nat /\ cntSize <= cntMaxSize /\ cntMaxBlocks \in Nat /\ 0 <= cntMaxBlocks /\ 0 \in Nat
  OBVIOUS
<1>10. cntRuntime \in BOOLEAN /\ cntFailed = FALSE
  OBVIOUS
<1> HIDE DEF HeapInit
<1> QED BY <1>1, <1>2, <1>7, <1>8, <1>9, <1>10 DEF HeapHolds

\* An allocation gets an entry, its bytes and its block are counted.
LEMMA HeapAllocateInv ==
  ASSUME NEW n \in Nat, HeapHolds(n), NEW element \in 1..2, NEW count \in 1..2, HeapAllocate(element, count)
  PROVE  HeapHolds(n + 1)'
<1>1. PICK a \in Unused :
        /\ heapLive' = [x \in DOMAIN heapLive \union {a} |-> IF x = a THEN element * count ELSE heapLive[x]]
        /\ CounterInsert(a, element, count) /\ cntRuntime' = cntRuntime
  BY DEF HeapAllocate
<1> DEFINE e == [mem |-> a, element |-> element, count |-> count, static |-> ~cntRuntime]
<1>2. /\ LiveAt(heapLive) /\ TableOf(cntAllocs, n, heapLive) /\ n = Cardinality(DOMAIN heapLive)
      /\ cntSize \in Nat /\ cntSize = Cardinality(BytesOf(heapLive))
      /\ cntStatic \in Nat /\ IsFiniteSet(Statics(cntAllocs, n)) /\ cntStatic = Cardinality(Statics(cntAllocs, n))
      /\ cntMaxSize \in Nat /\ cntMaxBlocks \in Nat /\ n <= cntMaxBlocks /\ cntRuntime \in BOOLEAN /\ cntFailed = FALSE
  BY DEF HeapHolds
<1>3. a \in Addresses /\ a \notin DOMAIN heapLive
  BY DEF Unused
<1>4. e \in Allocation /\ e.mem = a /\ Bytes(e) = element * count /\ e.static = ~cntRuntime
  BY <1>2, <1>3 DEF Allocation, Bytes
<1>5. /\ cntAllocs' = Append(cntAllocs, e)
      /\ cntStatic' = cntStatic + (IF cntRuntime THEN 0 ELSE 1)
      /\ cntMaxBlocks' = Max({cntMaxBlocks, Len(cntAllocs')})
      /\ cntSize' = cntSize + Bytes(e)
      /\ cntMaxSize' = Max({cntMaxSize, cntSize'})
      /\ cntFailed' = cntFailed
  BY <1>1 DEF CounterInsert
<1> HIDE DEF e
<1>6. Bytes(e) \in 1..4
  BY <1>4, BytesIs
<1>7. /\ TableOf(cntAllocs', n + 1, heapLive')
      /\ Statics(cntAllocs', n + 1) = IF e.static THEN Statics(cntAllocs, n) \union {e} ELSE Statics(cntAllocs, n)
      /\ e \notin Statics(cntAllocs, n)
  <2>1. heapLive' = [x \in DOMAIN heapLive \union {e.mem} |-> IF x = e.mem THEN Bytes(e) ELSE heapLive[x]]
    BY <1>1, <1>4
  <2>2. e.mem \notin DOMAIN heapLive
    BY <1>3, <1>4
  <2> DEFINE more == heapLive'
  <2>3. /\ TableOf(Append(cntAllocs, e), n + 1, more)
        /\ Statics(Append(cntAllocs, e), n + 1) = IF e.static THEN Statics(cntAllocs, n) \union {e} ELSE Statics(cntAllocs, n)
        /\ e \notin Statics(cntAllocs, n)
    <3>1. TableOf(cntAllocs, n, heapLive) /\ e \in Allocation
      BY <1>2, <1>4
    <3>2. more = [x \in DOMAIN heapLive \union {e.mem} |-> IF x = e.mem THEN Bytes(e) ELSE heapLive[x]]
      BY <2>1
    <3> HIDE DEF more
    <3> QED BY <2>2, <3>1, <3>2, TableInsert
  <2>4. cntAllocs' = Append(cntAllocs, e)
    BY <1>5
  <2> QED BY <2>3, <2>4
<1>8. /\ LiveAt(heapLive') /\ DOMAIN (heapLive') = DOMAIN heapLive \union {a}
      /\ Cardinality(BytesOf(heapLive')) = Cardinality(BytesOf(heapLive)) + Bytes(e)
  <2>1. heapLive' = [x \in DOMAIN heapLive \union {a} |-> IF x = a THEN Bytes(e) ELSE heapLive[x]]
    BY <1>1, <1>4
  <2> QED BY <1>2, <1>3, <1>6, <2>1, BytesMore
<1>9. Cardinality(DOMAIN (heapLive')) = n + 1
  <2>1. IsFiniteSet(DOMAIN heapLive)
    BY <1>2, BytesFinite
  <2>2. Cardinality(DOMAIN heapLive \union {a}) = Cardinality(DOMAIN heapLive) + 1
    BY <1>3, <2>1, FS_AddElement
  <2> QED BY <1>2, <1>8, <2>2
<1>10. cntSize' \in Nat /\ cntSize' = Cardinality(BytesOf(heapLive'))
  <2>1. cntSize' = cntSize + Bytes(e)
    BY <1>5
  <2>2. cntSize \in Nat /\ cntSize = Cardinality(BytesOf(heapLive))
    BY <1>2
  <2>3. Cardinality(BytesOf(heapLive')) = Cardinality(BytesOf(heapLive)) + Bytes(e)
    BY <1>8
  <2> QED BY <1>6, <2>1, <2>2, <2>3
<1>11. /\ IsFiniteSet(Statics(cntAllocs', n + 1)) /\ cntStatic' = Cardinality(Statics(cntAllocs', n + 1))
       /\ cntStatic' \in Nat
  <2>1. CASE cntRuntime
    <3>1. Statics(cntAllocs', n + 1) = Statics(cntAllocs, n)
      BY <1>4, <1>7, <2>1
    <3>2. cntStatic' = cntStatic
      BY <1>2, <1>5, <2>1
    <3> QED BY <1>2, <3>1, <3>2
  <2>2. CASE ~cntRuntime
    <3>1. Statics(cntAllocs', n + 1) = Statics(cntAllocs, n) \union {e}
      BY <1>4, <1>7, <2>2
    <3>2. /\ IsFiniteSet(Statics(cntAllocs, n) \union {e})
          /\ Cardinality(Statics(cntAllocs, n) \union {e}) = Cardinality(Statics(cntAllocs, n)) + 1
      BY <1>2, <1>7, FS_AddElement
    <3>3. cntStatic' = cntStatic + 1
      BY <1>5, <2>2
    <3>4. cntStatic \in Nat /\ cntStatic = Cardinality(Statics(cntAllocs, n))
      BY <1>2
    <3>5. IsFiniteSet(Statics(cntAllocs', n + 1)) /\ Cardinality(Statics(cntAllocs', n + 1)) = cntStatic + 1
      BY <3>1, <3>2, <3>4
    <3> QED BY <3>3, <3>4, <3>5
  <2> QED BY <2>1, <2>2
<1>12. cntMaxSize' \in Nat /\ cntSize' <= cntMaxSize'
  <2>1. cntMaxSize \in Nat /\ cntSize' \in Nat
    BY <1>2, <1>10
  <2>2. cntMaxSize' = Max({cntMaxSize, cntSize'})
    BY <1>5
  <2> QED BY <2>1, <2>2, MaxPairIs
<1>13. cntMaxBlocks' \in Nat /\ n + 1 <= cntMaxBlocks'
  <2>1. cntAllocs' \in [1..n + 1 -> Allocation] /\ n + 1 \in Nat
    BY <1>7 DEF TableOf
  <2>2. Len(cntAllocs') = n + 1
    BY <2>1, SequenceIs
  <2> QED BY <1>2, <1>5, <2>1, <2>2, MaxPairIs
<1>14. cntRuntime' \in BOOLEAN /\ cntFailed' = FALSE /\ n + 1 \in Nat
  BY <1>1, <1>2, <1>5
<1> QED BY <1>7, <1>8, <1>9, <1>10, <1>11, <1>12, <1>13, <1>14 DEF HeapHolds

\* realloc: the entry of the old address is that of the new one.
LEMMA HeapReallocateInv ==
  ASSUME NEW n \in Nat, HeapHolds(n), NEW from \in DOMAIN heapLive, NEW count \in 1..2, HeapReallocate(from, count)
  PROVE  HeapHolds(n)'
<1> DEFINE i == Entry(from)
           old == cntAllocs[i]
<1>1. PICK to \in Unused \union {from} :
        /\ heapLive' = [a \in (DOMAIN heapLive \ {from}) \union {to} |->
                          IF a = to THEN cntAllocs[Entry(from)].element * count ELSE heapLive[a]]
        /\ CounterUpdate(from, to, count)
        /\ UNCHANGED <<cntStatic, cntMaxBlocks, cntRuntime>>
  BY DEF HeapReallocate
<1> DEFINE e == [old EXCEPT !.mem = to, !.count = count]
           less == [x \in DOMAIN heapLive \ {from} |-> heapLive[x]]
<1>2. /\ LiveAt(heapLive) /\ TableOf(cntAllocs, n, heapLive) /\ n = Cardinality(DOMAIN heapLive)
      /\ cntSize \in Nat /\ cntSize = Cardinality(BytesOf(heapLive))
      /\ cntStatic \in Nat /\ IsFiniteSet(Statics(cntAllocs, n)) /\ cntStatic = Cardinality(Statics(cntAllocs, n))
      /\ cntMaxSize \in Nat /\ cntMaxBlocks \in Nat /\ n <= cntMaxBlocks /\ cntRuntime \in BOOLEAN /\ cntFailed = FALSE
  BY DEF HeapHolds
<1>3. /\ i \in 1..n /\ i # 0 /\ old.mem = from /\ Bytes(old) = heapLive[from]
      /\ cntAllocs \in [1..n -> Allocation] /\ old \in Allocation
  BY <1>2, EntryIs DEF TableOf
<1>4. /\ cntAllocs' = [cntAllocs EXCEPT ![i] = [@ EXCEPT !.mem = to, !.count = count]]
      /\ cntSize' = cntSize - Bytes(cntAllocs[i]) + Bytes(cntAllocs'[i])
      /\ cntMaxSize' = Max({cntMaxSize, cntSize'})
      /\ cntFailed' = cntFailed
  BY <1>1, <1>3 DEF CounterUpdate
<1>5. to \in Addresses /\ (to \notin DOMAIN heapLive \/ to = from)
  BY <1>2 DEF Unused, LiveAt
<1>6. e \in Allocation /\ e.mem = to /\ Bytes(e) = old.element * count /\ e.static = old.static
  BY <1>3, <1>5 DEF Allocation, Bytes
<1>7. cntAllocs' = [cntAllocs EXCEPT ![i] = e] /\ cntAllocs'[i] = e
  BY <1>3, <1>4
<1>8. heapLive' = [x \in (DOMAIN heapLive \ {from}) \union {to} |-> IF x = to THEN Bytes(e) ELSE heapLive[x]]
  BY <1>1, <1>6
<1> HIDE DEF e, i
<1>9. Bytes(e) \in 1..4 /\ e.static \in BOOLEAN
  BY <1>6, BytesIs
<1>10. /\ TableOf(cntAllocs', n, heapLive')
       /\ Statics(cntAllocs', n) = IF e.static THEN (Statics(cntAllocs, n) \ {old}) \union {e} ELSE Statics(cntAllocs, n)
       /\ e.static => old \in Statics(cntAllocs, n) /\ e \notin Statics(cntAllocs, n) \ {old}
  <2>1. e.mem \notin DOMAIN heapLive \/ e.mem = cntAllocs[i].mem
    BY <1>3, <1>5, <1>6
  <2>2. e.static = cntAllocs[i].static
    BY <1>6
  <2>3. heapLive' = [x \in (DOMAIN heapLive \ {cntAllocs[i].mem}) \union {e.mem} |-> IF x = e.mem THEN Bytes(e) ELSE heapLive[x]]
    BY <1>3, <1>6, <1>8
  <2> DEFINE moved == heapLive'
  <2>4. Updated([cntAllocs EXCEPT ![i] = e], cntAllocs, n, i, e, moved)
    <3>1. TableOf(cntAllocs, n, heapLive) /\ e \in Allocation /\ i \in 1..n
      BY <1>2, <1>3, <1>6
    <3>2. moved = [x \in (DOMAIN heapLive \ {cntAllocs[i].mem}) \union {e.mem} |-> IF x = e.mem THEN Bytes(e) ELSE heapLive[x]]
      BY <2>3
    <3> HIDE DEF moved
    <3> QED BY <2>1, <2>2, <3>1, <3>2, TableUpdate
  <2> QED BY <1>7, <2>4 DEF Updated
<1>11. LiveAt(less) /\ Cardinality(BytesOf(less)) = Cardinality(BytesOf(heapLive)) - heapLive[from] /\ DOMAIN less = DOMAIN heapLive \ {from}
  BY <1>2, BytesLess
<1>12. /\ LiveAt(heapLive') /\ DOMAIN (heapLive') = DOMAIN less \union {to}
       /\ Cardinality(BytesOf(heapLive')) = Cardinality(BytesOf(less)) + Bytes(e)
  <2>1. heapLive' = [x \in DOMAIN less \union {to} |-> IF x = to THEN Bytes(e) ELSE less[x]]
    BY <1>5, <1>8, <1>11
  <2>2. to \notin DOMAIN less
    BY <1>5, <1>11
  <2> HIDE DEF less
  <2> QED BY <1>5, <1>9, <1>11, <2>1, <2>2, BytesMore
<1>13. Cardinality(DOMAIN (heapLive')) = n
  <2>1. IsFiniteSet(DOMAIN heapLive) /\ Cardinality(DOMAIN heapLive) \in Nat
    BY <1>2, BytesFinite
  <2>2. IsFiniteSet(DOMAIN heapLive \ {from}) /\ Cardinality(DOMAIN heapLive \ {from}) = n - 1
    BY <1>2, <2>1, FS_RemoveElement
  <2>3. to \notin DOMAIN heapLive \ {from}
    BY <1>5
  <2>4. Cardinality((DOMAIN heapLive \ {from}) \union {to}) = Cardinality(DOMAIN heapLive \ {from}) + 1
    BY <2>2, <2>3, FS_AddElement
  <2> QED BY <1>11, <1>12, <2>2, <2>4
<1>14. cntSize' \in Nat /\ cntSize' = Cardinality(BytesOf(heapLive'))
  <2>1. cntSize' = cntSize - heapLive[from] + Bytes(e)
    BY <1>3, <1>4, <1>7
  <2>2. heapLive[from] \in 1..4
    BY <1>2 DEF LiveAt
  <2>3. Cardinality(BytesOf(less)) \in Nat
    <3> HIDE DEF less
    <3> QED BY <1>11, BytesFinite
  <2> HIDE DEF less
  <2> QED BY <1>2, <1>9, <1>11, <1>12, <2>1, <2>2, <2>3
<1>15. IsFiniteSet(Statics(cntAllocs', n)) /\ cntStatic = Cardinality(Statics(cntAllocs', n))
  <2>1. CASE ~e.static
    BY <1>2, <1>10, <2>1
  <2>2. CASE e.static
    <3> DEFINE S == Statics(cntAllocs, n)
    <3>1. old \in S /\ e \notin S \ {old} /\ Statics(cntAllocs', n) = (S \ {old}) \union {e}
      BY <1>10, <2>2
    <3>2. IsFiniteSet(S) /\ Cardinality(S) = cntStatic
      BY <1>2
    <3> HIDE DEF S, old
    <3>3. IsFiniteSet(S \ {old}) /\ Cardinality(S \ {old}) = Cardinality(S) - 1
      BY <3>1, <3>2, FS_RemoveElement
    <3>4. IsFiniteSet((S \ {old}) \union {e}) /\ Cardinality((S \ {old}) \union {e}) = Cardinality(S \ {old}) + 1
      BY <3>1, <3>3, FS_AddElement
    <3>5. Cardinality((S \ {old}) \union {e}) = cntStatic
      BY <1>2, <3>2, <3>3, <3>4
    <3> QED BY <3>1, <3>4, <3>5
  <2> QED BY <2>1, <2>2
<1>16. cntMaxSize' \in Nat /\ cntSize' <= cntMaxSize'
  BY <1>2, <1>4, <1>14, MaxPairIs
<1>17. cntRuntime' \in BOOLEAN /\ cntFailed' = FALSE /\ cntMaxBlocks' = cntMaxBlocks /\ cntStatic' = cntStatic
  BY <1>1, <1>2, <1>4
<1> QED BY <1>2, <1>10, <1>12, <1>13, <1>14, <1>15, <1>16, <1>17 DEF HeapHolds

\* free: the entry goes, and the totals lose what it counted for.
LEMMA HeapFreeInv ==
  ASSUME NEW n \in Nat, HeapHolds(n), NEW a \in DOMAIN heapLive, HeapFree(a)
  PROVE  n - 1 \in Nat /\ HeapHolds(n - 1)'
<1> DEFINE i == Entry(a)
           old == cntAllocs[i]
           S == Statics(cntAllocs, n)
<1>1. /\ CounterRemove(a) /\ heapLive' = [x \in DOMAIN heapLive \ {a} |-> heapLive[x]]
      /\ UNCHANGED <<cntMaxSize, cntMaxBlocks, cntRuntime>>
  BY DEF HeapFree
<1>2. /\ LiveAt(heapLive) /\ TableOf(cntAllocs, n, heapLive) /\ n = Cardinality(DOMAIN heapLive)
      /\ cntSize \in Nat /\ cntSize = Cardinality(BytesOf(heapLive))
      /\ cntStatic \in Nat /\ IsFiniteSet(S) /\ cntStatic = Cardinality(S)
      /\ cntMaxSize \in Nat /\ cntSize <= cntMaxSize
      /\ cntMaxBlocks \in Nat /\ n <= cntMaxBlocks /\ cntRuntime \in BOOLEAN /\ cntFailed = FALSE
  BY DEF HeapHolds
<1>3. /\ i \in 1..n /\ i # 0 /\ old.mem = a /\ Bytes(old) = heapLive[a]
      /\ cntAllocs \in [1..n -> Allocation] /\ old \in Allocation
  BY <1>2, EntryIs DEF TableOf
<1>4. /\ TableOf(RemoveSingle(cntAllocs, i), n - 1, heapLive')
      /\ Statics(RemoveSingle(cntAllocs, i), n - 1) = S \ {old}
      /\ (old.static => old \in S) /\ (~old.static => old \notin S)
  <2>1. heapLive' = [x \in DOMAIN heapLive \ {cntAllocs[i].mem} |-> heapLive[x]]
    BY <1>1, <1>3
  <2> HIDE DEF i
  <2> DEFINE less == heapLive'
  <2>2. /\ TableOf(RemoveSingle(cntAllocs, i), n - 1, less)
        /\ Statics(RemoveSingle(cntAllocs, i), n - 1) = Statics(cntAllocs, n) \ {cntAllocs[i]}
        /\ cntAllocs[i].static => cntAllocs[i] \in Statics(cntAllocs, n)
        /\ ~cntAllocs[i].static => cntAllocs[i] \notin Statics(cntAllocs, n)
    <3>1. TableOf(cntAllocs, n, heapLive) /\ i \in 1..n
      BY <1>2, <1>3
    <3>2. less = [x \in DOMAIN heapLive \ {cntAllocs[i].mem} |-> heapLive[x]]
      BY <2>1
    <3> HIDE DEF less
    <3> QED BY <3>1, <3>2, TableRemove
  <2> QED BY <2>2
<1>5. ~(old.static /\ cntStatic = 0)
  <2> SUFFICES ASSUME old.static, cntStatic = 0 PROVE FALSE
    OBVIOUS
  <2>1. old \in S
    BY <1>4
  <2> HIDE DEF S
  <2>2. S = {}
    BY <1>2, FS_EmptySet
  <2> QED BY <2>1, <2>2
<1>6. /\ cntAllocs' = RemoveSingle(cntAllocs, i)
      /\ cntSize' = cntSize - Bytes(old)
      /\ cntStatic' = cntStatic - (IF old.static THEN 1 ELSE 0)
      /\ cntFailed' = cntFailed
  BY <1>1, <1>3, <1>5 DEF CounterRemove
<1> HIDE DEF i, old, S
<1>7. old.static \in BOOLEAN
  BY <1>3, BytesIs
<1>8. /\ LiveAt(heapLive') /\ DOMAIN (heapLive') = DOMAIN heapLive \ {a}
      /\ Cardinality(BytesOf(heapLive')) = Cardinality(BytesOf(heapLive)) - heapLive[a]
  BY <1>1, <1>2, BytesLess
<1>9. Cardinality(DOMAIN (heapLive')) = n - 1 /\ n - 1 \in Nat
  <2>1. IsFiniteSet(DOMAIN heapLive)
    BY <1>2, BytesFinite
  <2>2. Cardinality(DOMAIN heapLive \ {a}) = Cardinality(DOMAIN heapLive) - 1
    BY <2>1, FS_RemoveElement
  <2>3. n - 1 \in Nat
    BY <1>3
  <2> QED BY <1>2, <1>8, <2>2, <2>3
<1>10. cntSize' \in Nat /\ cntSize' = Cardinality(BytesOf(heapLive')) /\ cntSize' <= cntMaxSize
  <2>1. heapLive[a] \in 1..4
    BY <1>2 DEF LiveAt
  <2>2. Cardinality(BytesOf(heapLive')) \in Nat
    BY <1>8, BytesFinite
  <2> QED BY <1>2, <1>3, <1>6, <1>8, <2>1, <2>2
<1>11. IsFiniteSet(S \ {old}) /\ cntStatic' = Cardinality(S \ {old}) /\ cntStatic' \in Nat
  <2>1. CASE ~old.static
    <3>1. S \ {old} = S
      BY <1>4, <2>1
    <3> QED BY <1>2, <1>6, <2>1, <3>1
  <2>2. CASE old.static
    <3>1. IsFiniteSet(S \ {old}) /\ Cardinality(S \ {old}) = Cardinality(S) - 1
      BY <1>2, <1>4, <2>2, FS_RemoveElement
    <3>2. Cardinality(S \ {old}) \in Nat
      BY <3>1, FS_CardinalityType
    <3>3. cntStatic' = cntStatic - 1
      BY <1>6, <2>2
    <3> QED BY <1>2, <3>1, <3>2, <3>3
  <2> QED BY <2>1, <2>2
<1>12. /\ cntRuntime' \in BOOLEAN /\ cntFailed' = FALSE /\ cntMaxBlocks' = cntMaxBlocks /\ cntMaxSize' = cntMaxSize
       /\ n - 1 <= cntMaxBlocks
  BY <1>1, <1>2, <1>6, <1>9
<1>13. TableOf(cntAllocs', n - 1, heapLive') /\ Statics(cntAllocs', n - 1) = S \ {old}
  BY <1>4, <1>6
<1> QED BY <1>2, <1>8, <1>9, <1>10, <1>11, <1>12, <1>13 DEF HeapHolds

\* Every step of the heap keeps the table and the totals in agreement with it.
LEMMA HeapInductive == HeapInv /\ [HeapNext]_heapVars => HeapInv'
<1> SUFFICES ASSUME NEW n \in Nat, HeapHolds(n), [HeapNext]_heapVars PROVE HeapInv'
  BY DEF HeapInv
<1>1. ASSUME NEW m \in Nat, HeapHolds(m)' PROVE HeapInv'
  BY <1>1 DEF HeapInv
<1>2. ASSUME NEW element \in 1..2, NEW count \in 1..2, HeapAllocate(element, count) PROVE HeapInv'
  <2>1. HeapHolds(n + 1)' /\ n + 1 \in Nat
    BY <1>2, HeapAllocateInv
  <2> QED BY <1>1, <2>1
<1>3. ASSUME NEW a \in DOMAIN heapLive, NEW count \in 1..2, HeapReallocate(a, count) PROVE HeapInv'
  <2>1. HeapHolds(n)'
    BY <1>3, HeapReallocateInv
  <2> QED BY <1>1, <2>1
<1>4. ASSUME NEW a \in DOMAIN heapLive, HeapFree(a) PROVE HeapInv'
  <2>1. n - 1 \in Nat /\ HeapHolds(n - 1)'
    BY <1>4, HeapFreeInv
  <2> QED BY <1>1, <2>1
<1>5. CASE EnterMain
  <2>1. HeapHolds(n)'
    BY <1>5 DEF EnterMain, HeapHolds
  <2> QED BY <1>1, <2>1
<1>6. CASE UNCHANGED heapVars
  <2>1. HeapHolds(n)'
    BY <1>6 DEF heapVars, HeapHolds
  <2> QED BY <1>1, <2>1
<1> QED BY <1>2, <1>3, <1>4, <1>5, <1>6 DEF HeapNext

\* So the counter is exact, and typed.
LEMMA HeapInvExact == HeapInv => HeapTypeOK /\ CounterExact
<1> SUFFICES ASSUME NEW n \in Nat, HeapHolds(n) PROVE HeapTypeOK /\ CounterExact
  BY DEF HeapInv
<1>1. cntAllocs \in Seq(Allocation) /\ Len(cntAllocs) = n
  BY TableLen
<1>2. cntAllocs \in [1..n -> Allocation] /\ LiveAt(heapLive)
  BY DEF HeapHolds, TableOf
<1>3. HeapTypeOK
  BY <1>1, <1>2 DEF HeapHolds, HeapTypeOK, LiveAt
<1>4. Statics(cntAllocs, n) = {e \in Range(cntAllocs) : e.static}
  BY <1>2 DEF Statics, Range
<1>5. BytesOf(heapLive) = LiveBytes
  BY DEF BytesOf, LiveBytes
<1>6. \A a \in DOMAIN heapLive : Entry(a) # 0 /\ Bytes(cntAllocs[Entry(a)]) = heapLive[a]
  BY EntryIs
<1> QED BY <1>1, <1>3, <1>4, <1>5, <1>6 DEF HeapHolds, CounterExact

-----------------------------------------------------------------------------
(* Files *)

\* The bytes that are written are among those a file may have.
LEMMA ByteIs == Byte \subseteq Nat /\ {0, 1, 2} \subseteq Byte
<1>1. 0..2 \subseteq Byte
  BY DEF Byte
<1> QED BY <1>1, FileAssumption DEF Byte

\* A part of the bytes.
LEMMA SliceIs ==
  ASSUME NEW s \in Seq(Byte), NEW from \in Nat, NEW n \in Nat, from + n <= Len(s)
  PROVE  /\ Slice(s, from, n) \in Seq(Byte) /\ Len(Slice(s, from, n)) = n
         /\ \A i \in 1..n : Slice(s, from, n)[i] = s[from + i]
<1> DEFINE m == from + 1
           e == from + n
<1>1. m \in Int /\ e \in Int /\ \A i \in m..e : s[i] \in Byte
  OBVIOUS
<1>2. /\ SubSeq(s, m, e) \in Seq(Byte)
      /\ Len(SubSeq(s, m, e)) = IF m <= e THEN e - m + 1 ELSE 0
      /\ \A i \in 1..e - m + 1 : SubSeq(s, m, e)[i] = s[m + i - 1]
  <2> HIDE DEF m, e
  <2> QED BY <1>1, SubSeqProperties
<1>3. Slice(s, from, n) = SubSeq(s, m, e)
  BY DEF Slice
<1>4. (IF m <= e THEN e - m + 1 ELSE 0) = n /\ e - m + 1 = n
  OBVIOUS
<1>5. \A i \in 1..n : m + i - 1 = from + i
  OBVIOUS
<1> HIDE DEF m, e
<1> QED BY <1>2, <1>3, <1>4, <1>5

\* Two sequences of bytes with the same length and the same bytes.
LEMMA BytesEqual ==
  ASSUME NEW s \in Seq(Byte), NEW t \in Seq(Byte), Len(s) = Len(t), \A i \in 1..Len(s) : s[i] = t[i]
  PROVE  s = t
BY SeqEqual

\* How many bytes there are when n bytes were written at place at over m.
Extent(m, at, n) == IF m >= at + n THEN m ELSE at + n

\* The bytes of o are those of b from place at on, and those of s elsewhere.
WrittenOver(o, s, at, b) ==
  /\ o \in Seq(Byte)
  /\ Len(o) = Extent(Len(s), at, Len(b))
  /\ \A i \in 1..Extent(Len(s), at, Len(b)) :
       o[i] = IF at < i /\ i <= at + Len(b) THEN b[i - at] ELSE IF i <= Len(s) THEN s[i] ELSE 0

\* Bytes written over others.
LEMMA OverlaidIs ==
  ASSUME NEW s \in Seq(Byte), NEW at \in Nat, NEW b \in Seq(Byte)
  PROVE  WrittenOver(Overlaid(s, at, b), s, at, b)
<1> DEFINE n == Extent(Len(s), at, Len(b))
           o == [i \in 1..n |-> IF i \in at + 1..at + Len(b) THEN b[i - at] ELSE IF i <= Len(s) THEN s[i] ELSE 0]
<1>1. Len(s) \in Nat /\ Len(b) \in Nat /\ (\A i \in 1..Len(s) : s[i] \in Byte) /\ \A i \in 1..Len(b) : b[i] \in Byte
  OBVIOUS
<1>2. n \in Nat /\ n = Max({Len(s), at + Len(b)})
  <2>1. at + Len(b) \in Nat
    BY <1>1
  <2>2. Max({Len(s), at + Len(b)}) = IF Len(s) >= at + Len(b) THEN Len(s) ELSE at + Len(b)
    BY <1>1, <2>1, MaxPairIs
  <2> QED BY <1>1, <2>1, <2>2 DEF Extent
<1>3. Overlaid(s, at, b) = o
  BY <1>2 DEF Overlaid
<1>4. ASSUME NEW i \in 1..n PROVE o[i] \in Byte
  <2>1. CASE i \in at + 1..at + Len(b)
    <3>1. i - at \in 1..Len(b)
      BY <1>1, <2>1
    <3> QED BY <1>1, <2>1, <3>1
  <2>2. CASE i \notin at + 1..at + Len(b) /\ i <= Len(s)
    <3>1. i \in 1..Len(s)
      BY <1>1, <1>2, <2>2
    <3> QED BY <1>1, <2>2, <3>1
  <2>3. CASE i \notin at + 1..at + Len(b) /\ ~(i <= Len(s))
    BY <2>3, ByteIs
  <2> QED BY <2>1, <2>2, <2>3
<1>5. o \in Seq(Byte) /\ Len(o) = n
  <2>1. o \in [1..n -> Byte]
    BY <1>4
  <2>2. n \in Nat
    BY <1>2
  <2> HIDE DEF o, n
  <2> QED BY <2>1, <2>2, SequenceIs
<1>6. \A i \in 1..n : o[i] = IF at < i /\ i <= at + Len(b) THEN b[i - at] ELSE IF i <= Len(s) THEN s[i] ELSE 0
  <2>1. \A i \in 1..n : i \in at + 1..at + Len(b) <=> at < i /\ i <= at + Len(b)
    BY <1>1, <1>2
  <2> HIDE DEF n
  <2> QED BY <2>1
<1> HIDE DEF o
<1> QED BY <1>2, <1>3, <1>5, <1>6 DEF WrittenOver

\* Bytes over those that are the same change nothing.
LEMMA OverlaidSame ==
  ASSUME NEW s \in Seq(Byte), NEW at \in Nat, NEW b \in Seq(Byte), at + Len(b) <= Len(s),
         \A i \in 1..Len(b) : s[at + i] = b[i]
  PROVE  Overlaid(s, at, b) = s
<1> DEFINE o == Overlaid(s, at, b)
<1>1. Len(s) \in Nat /\ Len(b) \in Nat
  OBVIOUS
<1>2. Extent(Len(s), at, Len(b)) = Len(s)
  BY <1>1 DEF Extent
<1>3. /\ o \in Seq(Byte) /\ Len(o) = Len(s)
      /\ \A i \in 1..Len(s) : o[i] = IF at < i /\ i <= at + Len(b) THEN b[i - at] ELSE IF i <= Len(s) THEN s[i] ELSE 0
  <2>1. WrittenOver(o, s, at, b)
    BY OverlaidIs
  <2> HIDE DEF o
  <2> QED BY <1>2, <2>1 DEF WrittenOver
<1> HIDE DEF o
<1>4. ASSUME NEW i \in 1..Len(s) PROVE o[i] = s[i]
  <2>1. CASE at < i /\ i <= at + Len(b)
    <3>1. i - at \in 1..Len(b) /\ at + (i - at) = i
      BY <1>1, <2>1
    <3>2. s[at + (i - at)] = b[i - at]
      BY <3>1
    <3> QED BY <1>3, <2>1, <3>1, <3>2
  <2>2. CASE ~(at < i /\ i <= at + Len(b))
    BY <1>1, <1>3, <2>2
  <2> QED BY <2>1, <2>2
<1>5. o = s
  BY <1>3, <1>4, BytesEqual
<1> QED BY <1>5 DEF o

\* Bytes that changed nothing are those that were there.
LEMMA OverlaidHas ==
  ASSUME NEW s \in Seq(Byte), NEW at \in Nat, NEW b \in Seq(Byte), Overlaid(s, at, b) = s
  PROVE  at + Len(b) <= Len(s) /\ Slice(s, at, Len(b)) = b
<1>1. Len(s) \in Nat /\ Len(b) \in Nat
  OBVIOUS
<1>2. /\ Len(s) = Extent(Len(s), at, Len(b))
      /\ \A i \in 1..Len(s) : s[i] = IF at < i /\ i <= at + Len(b) THEN b[i - at] ELSE IF i <= Len(s) THEN s[i] ELSE 0
  <2>1. WrittenOver(s, s, at, b)
    BY OverlaidIs
  <2> QED BY <2>1 DEF WrittenOver
<1>3. at + Len(b) <= Len(s)
  BY <1>1, <1>2 DEF Extent
<1> DEFINE t == Slice(s, at, Len(b))
<1>4. t \in Seq(Byte) /\ Len(t) = Len(b) /\ \A i \in 1..Len(b) : t[i] = s[at + i]
  BY <1>1, <1>3, SliceIs
<1> HIDE DEF t
<1>5. ASSUME NEW i \in 1..Len(b) PROVE t[i] = b[i]
  <2>1. at + i \in 1..Len(s) /\ at < at + i /\ at + i <= at + Len(b) /\ at + i - at = i
    BY <1>1, <1>3
  <2>2. s[at + i] = b[at + i - at]
    BY <1>2, <2>1
  <2> QED BY <1>4, <2>1, <2>2
<1>6. t = b
  BY <1>4, <1>5, BytesEqual
<1> QED BY <1>3, <1>6 DEF t

\* Bytes written over what is written over others: the same as one after the other.
LEMMA OverlaidTwice ==
  ASSUME NEW s \in Seq(Byte), NEW at \in Nat, NEW b \in Seq(Byte), NEW p \in Nat, p <= Len(b), NEW x \in Seq(Byte)
  PROVE  Overlaid(s, at, Overlaid(b, p, x)) = Overlaid(Overlaid(s, at, b), at + p, x)
<1> DEFINE bx == Overlaid(b, p, x)
           sb == Overlaid(s, at, b)
           l == Overlaid(s, at, bx)
           r == Overlaid(sb, at + p, x)
           S == Len(s)
           B == Len(b)
           X == Len(x)
<1>1. S \in Nat /\ B \in Nat /\ X \in Nat /\ at + p \in Nat /\ p <= B
  OBVIOUS
<1>2. /\ bx \in Seq(Byte) /\ Len(bx) = Extent(B, p, X)
      /\ \A i \in 1..Extent(B, p, X) : bx[i] = IF p < i /\ i <= p + X THEN x[i - p] ELSE IF i <= B THEN b[i] ELSE 0
  <2>1. WrittenOver(bx, b, p, x)
    BY OverlaidIs
  <2> HIDE DEF bx
  <2> QED BY <2>1 DEF WrittenOver
<1>3. /\ sb \in Seq(Byte) /\ Len(sb) = Extent(S, at, B)
      /\ \A i \in 1..Extent(S, at, B) : sb[i] = IF at < i /\ i <= at + B THEN b[i - at] ELSE IF i <= S THEN s[i] ELSE 0
  <2>1. WrittenOver(sb, s, at, b)
    BY OverlaidIs
  <2> HIDE DEF sb
  <2> QED BY <2>1 DEF WrittenOver
<1> HIDE DEF bx, sb
<1>4. /\ l \in Seq(Byte) /\ Len(l) = Extent(S, at, Extent(B, p, X))
      /\ \A i \in 1..Len(l) : l[i] = IF at < i /\ i <= at + Extent(B, p, X) THEN bx[i - at] ELSE IF i <= S THEN s[i] ELSE 0
  <2>1. WrittenOver(l, s, at, bx)
    BY <1>2, OverlaidIs
  <2> HIDE DEF l
  <2> QED BY <1>2, <2>1 DEF WrittenOver
<1>5. /\ r \in Seq(Byte) /\ Len(r) = Extent(Extent(S, at, B), at + p, X)
      /\ \A i \in 1..Len(r) : r[i] = IF at + p < i /\ i <= at + p + X THEN x[i - (at + p)] ELSE IF i <= Extent(S, at, B) THEN sb[i] ELSE 0
  <2>1. WrittenOver(r, sb, at + p, x)
    BY <1>1, <1>3, OverlaidIs
  <2> HIDE DEF r
  <2> QED BY <1>3, <2>1 DEF WrittenOver
<1> HIDE DEF l, r, S, B, X
<1>6. Extent(S, at, Extent(B, p, X)) = Extent(Extent(S, at, B), at + p, X)
  BY <1>1 DEF Extent
<1>7. ASSUME NEW i \in 1..Len(l) PROVE l[i] = r[i]
  <2>0. i \in Nat /\ i >= 1 /\ i <= Extent(S, at, Extent(B, p, X)) /\ i \in 1..Len(r)
    BY <1>1, <1>4, <1>5, <1>6 DEF Extent
  <2>1. CASE at + p < i /\ i <= at + p + X
    <3>1. at < i /\ i <= at + Extent(B, p, X) /\ p < i - at /\ i - at <= p + X /\ i - at \in 1..Extent(B, p, X)
      BY <1>1, <2>0, <2>1 DEF Extent
    <3>2. i - at - p = i - (at + p)
      BY <2>0
    <3>3. l[i] = bx[i - at]
      BY <1>4, <3>1
    <3>4. bx[i - at] = x[i - at - p]
      BY <1>2, <3>1
    <3>5. r[i] = x[i - (at + p)]
      BY <1>5, <2>0, <2>1
    <3> QED BY <3>2, <3>3, <3>4, <3>5
  <2>2. CASE ~(at + p < i /\ i <= at + p + X) /\ at < i /\ i <= at + B
    <3>1. /\ i <= at + Extent(B, p, X) /\ i - at \in 1..Extent(B, p, X) /\ ~(p < i - at /\ i - at <= p + X)
          /\ i - at <= B /\ i <= Extent(S, at, B) /\ i \in 1..Extent(S, at, B)
      BY <1>1, <2>0, <2>2 DEF Extent
    <3>2. l[i] = bx[i - at]
      BY <1>4, <2>2, <3>1
    <3>3. bx[i - at] = b[i - at]
      BY <1>2, <3>1
    <3>4. r[i] = sb[i]
      BY <1>5, <2>0, <2>2, <3>1
    <3>5. sb[i] = b[i - at]
      BY <1>3, <2>2, <3>1
    <3> QED BY <3>2, <3>3, <3>4, <3>5
  <2>3. CASE ~(at + p < i /\ i <= at + p + X) /\ ~(at < i /\ i <= at + B)
    <3>1. ~(at < i /\ i <= at + Extent(B, p, X)) /\ i <= Extent(S, at, B) /\ i \in 1..Extent(S, at, B)
      BY <1>1, <2>0, <2>3 DEF Extent
    <3>2. l[i] = IF i <= S THEN s[i] ELSE 0
      BY <1>4, <3>1
    <3>3. r[i] = sb[i]
      BY <1>5, <2>0, <2>3, <3>1
    <3>4. sb[i] = IF i <= S THEN s[i] ELSE 0
      BY <1>3, <2>3, <3>1
    <3> QED BY <3>2, <3>3, <3>4
  <2> QED BY <2>1, <2>2, <2>3
<1>8. l = r
  BY <1>4, <1>5, <1>6, <1>7, BytesEqual
<1> QED BY <1>8 DEF l, r, bx, sb

\* The last k of the bytes b, written over s with b in it, change nothing.
TailStays(s, at, b, k) ==
  /\ Slice(b, Len(b) - k, k) \in Seq(Byte) /\ Len(Slice(b, Len(b) - k, k)) = k
  /\ Overlaid(Overlaid(s, at, b), at + Len(b) - k, Slice(b, Len(b) - k, k)) = Overlaid(s, at, b)
  /\ at + Len(b) <= Len(Overlaid(s, at, b))

\* The last bytes of what was written, over it.
LEMMA OverlaidTail ==
  ASSUME NEW s \in Seq(Byte), NEW at \in Nat, NEW b \in Seq(Byte), NEW k \in Nat, k <= Len(b)
  PROVE  TailStays(s, at, b, k)
<1> DEFINE n == Len(b)
           o == Overlaid(s, at, b)
           t == Slice(b, n - k, k)
           p == at + n - k
<1>1. n \in Nat /\ n - k \in Nat /\ p \in Nat /\ n - k + k <= n /\ p + k = at + n /\ Len(s) \in Nat
  OBVIOUS
<1>2. t \in Seq(Byte) /\ Len(t) = k /\ \A i \in 1..k : t[i] = b[n - k + i]
  <2> HIDE DEF n
  <2> QED BY <1>1, SliceIs DEF n
<1>3. /\ o \in Seq(Byte) /\ Len(o) = Extent(Len(s), at, n)
      /\ \A i \in 1..Extent(Len(s), at, n) : o[i] = IF at < i /\ i <= at + n THEN b[i - at] ELSE IF i <= Len(s) THEN s[i] ELSE 0
  <2>1. WrittenOver(o, s, at, b)
    BY OverlaidIs
  <2> HIDE DEF o
  <2> QED BY <2>1 DEF WrittenOver
<1>4. at + n <= Len(o)
  BY <1>1, <1>3 DEF Extent
<1> HIDE DEF o, t
<1>5. ASSUME NEW i \in 1..k PROVE o[p + i] = t[i]
  <2>1. /\ p + i \in Nat /\ at < p + i /\ p + i <= at + n /\ p + i - at = n - k + i
        /\ 1 <= p + i /\ i \in Nat
    BY <1>1
  <2>2. Extent(Len(s), at, n) \in Nat /\ at + n <= Extent(Len(s), at, n)
    BY <1>1 DEF Extent
  <2>3. p + i \in 1..Extent(Len(s), at, n)
    <3> HIDE DEF p, n
    <3>1. Extent(Len(s), at, n) \in Nat /\ p + i <= Extent(Len(s), at, n)
      BY <1>1, <2>1, <2>2
    <3> QED BY <2>1, <3>1
  <2>4. o[p + i] = b[p + i - at]
    <3> DEFINE j == p + i
    <3>1. j \in 1..Extent(Len(s), at, n) /\ at < j /\ j <= at + n
      BY <2>1, <2>3
    <3>2. o[j] = b[j - at]
      <4> HIDE DEF p, n, j
      <4> QED BY <1>3, <3>1
    <3> QED BY <3>2
  <2> QED BY <1>2, <2>1, <2>4
<1> HIDE DEF p, n
<1>6. Overlaid(o, p, t) = o
  BY <1>1, <1>2, <1>3, <1>4, <1>5, OverlaidSame
<1> QED BY <1>2, <1>4, <1>6 DEF o, t, p, n, TailStays

\* Over nothing from its start, bytes are what they are over themselves.
LEMMA OverlaidSelf ==
  ASSUME NEW s \in Seq(Byte), NEW at \in Nat, NEW b \in Seq(Byte)
  PROVE  Overlaid(Overlaid(s, at, b), at, b) = Overlaid(s, at, b)
<1>1. Overlaid(b, 0, b) = b
  <2>1. 0 + Len(b) <= Len(b) /\ \A i \in 1..Len(b) : b[0 + i] = b[i]
    OBVIOUS
  <2> QED BY <2>1, OverlaidSame, 0 \in Nat
<1>2. Overlaid(s, at, Overlaid(b, 0, b)) = Overlaid(Overlaid(s, at, b), at + 0, b)
  <2>1. 0 \in Nat /\ 0 <= Len(b)
    OBVIOUS
  <2> QED BY <2>1, OverlaidTwice
<1>3. at + 0 = at
  OBVIOUS
<1> QED BY <1>1, <1>2, <1>3

\* What FileData and the system have of a file.
Fields ==
  {"mode", "disk", "os", "realPtr", "realSize", "absPtr", "absSize", "bufPtr", "buf", "inSync", "failed", "ideal", "got", "gotAt"}

\* The types of a file whose assertions have held.
FileShape(f) ==
  /\ DOMAIN f = Fields /\ f.failed = ""
  /\ f.disk \in Seq(Byte) /\ f.ideal \in Seq(Byte) /\ f.buf \in Seq(Byte) /\ Len(f.buf) <= BufferSize
  /\ f.os \in Nat /\ f.realPtr \in Nat /\ f.realSize \in Nat /\ f.absPtr \in Nat /\ f.absSize \in Nat /\ f.bufPtr \in Nat
  /\ f.inSync \in BOOLEAN

\* The disk with the buffer written over it is what the caller wrote, also before a buffer in
\* sync is written again; the pointer of the system is where the buffer in sync ends, and that
\* of the caller is in the buffer.
FileHolds(f) ==
  /\ FileShape(f)
  /\ f.realPtr = f.os
  /\ f.ideal = Overlaid(f.disk, f.bufPtr, f.buf)
  /\ f.inSync => f.disk = f.ideal /\ f.os = BufferEnd(f)
  /\ f.bufPtr <= f.absPtr /\ f.absPtr <= BufferEnd(f)

\* g is f but for what the system has and the buffer.
SameCaller(f, g) ==
  /\ g.mode = f.mode /\ g.failed = f.failed /\ g.ideal = f.ideal /\ g.got = f.got /\ g.gotAt = f.gotAt
  /\ g.absPtr = f.absPtr /\ g.absSize = f.absSize

\* force_sync writes the buffer where it belongs.
LEMMA ForceSyncIs ==
  ASSUME NEW f, DOMAIN f = Fields, f.realPtr = f.os, NEW g, g = ForceSync(f)
  PROVE  /\ DOMAIN g = Fields /\ SameCaller(f, g)
         /\ g.disk = Overlaid(f.disk, f.bufPtr, f.buf) /\ g.os = f.bufPtr + Len(f.buf) /\ g.realPtr = g.os
         /\ g.realSize = f.absSize /\ g.bufPtr = f.bufPtr /\ g.buf = f.buf /\ g.inSync = TRUE
<1> DEFINE h == RealSeek(f, f.bufPtr)
           w == HandleWrite(h, f.buf)
<1>1. /\ DOMAIN h = Fields /\ SameCaller(f, h) /\ h.disk = f.disk /\ h.os = f.bufPtr
      /\ h.bufPtr = f.bufPtr /\ h.buf = f.buf
  BY DEF RealSeek, SameCaller, Fields
<1> HIDE DEF h
<1>2. /\ DOMAIN w = Fields /\ SameCaller(f, w) /\ w.disk = Overlaid(f.disk, f.bufPtr, f.buf)
      /\ w.os = f.bufPtr + Len(f.buf) /\ w.bufPtr = f.bufPtr /\ w.buf = f.buf
  BY <1>1 DEF HandleWrite, SameCaller, Fields
<1> HIDE DEF w
<1>3. g = [w EXCEPT !.inSync = TRUE, !.realPtr = BufferEnd(f), !.realSize = f.absSize]
  BY DEF ForceSync, w, h
<1> QED BY <1>2, <1>3 DEF BufferEnd, SameCaller, Fields

\* A buffer in sync is a part of what the disk has.
LEMMA SyncedEnds ==
  ASSUME NEW f, FileHolds(f), f.inSync
  PROVE  BufferEnd(f) <= Len(f.disk) /\ Slice(f.disk, f.bufPtr, Len(f.buf)) = f.buf
<1>1. /\ f.disk \in Seq(Byte) /\ f.bufPtr \in Nat /\ f.buf \in Seq(Byte)
      /\ Overlaid(f.disk, f.bufPtr, f.buf) = f.disk
  BY DEF FileHolds, FileShape
<1> QED BY <1>1, OverlaidHas DEF BufferEnd

\* sync_buffer leaves a file in sync.
LEMMA SyncIs ==
  ASSUME NEW f, FileHolds(f), NEW g, g = SyncBuffer(f)
  PROVE  /\ FileHolds(g) /\ SameCaller(f, g) /\ g.inSync /\ g.bufPtr = f.bufPtr /\ g.buf = f.buf
         /\ f.inSync => g = f
<1>1. CASE f.inSync
  BY <1>1 DEF SyncBuffer, SameCaller
<1>2. CASE ~f.inSync
  <2>1. g = ForceSync(f)
    BY <1>2 DEF SyncBuffer
  <2>2. DOMAIN f = Fields /\ f.realPtr = f.os
    BY DEF FileHolds, FileShape
  <2>3. /\ DOMAIN g = Fields /\ SameCaller(f, g)
        /\ g.disk = Overlaid(f.disk, f.bufPtr, f.buf) /\ g.os = f.bufPtr + Len(f.buf) /\ g.realPtr = g.os
        /\ g.realSize = f.absSize /\ g.bufPtr = f.bufPtr /\ g.buf = f.buf /\ g.inSync = TRUE
    BY <2>1, <2>2, ForceSyncIs
  <2>4. g.disk = f.ideal /\ g.ideal = f.ideal
    BY <2>3 DEF FileHolds, SameCaller
  <2>5. Overlaid(f.ideal, f.bufPtr, f.buf) = f.ideal
    <3>1. f.disk \in Seq(Byte) /\ f.bufPtr \in Nat /\ f.buf \in Seq(Byte)
      BY DEF FileHolds, FileShape
    <3>2. Overlaid(Overlaid(f.disk, f.bufPtr, f.buf), f.bufPtr, f.buf) = Overlaid(f.disk, f.bufPtr, f.buf)
      BY <3>1, OverlaidSelf
    <3> QED BY <3>2 DEF FileHolds
  <2>6. g.ideal = Overlaid(g.disk, g.bufPtr, g.buf)
    BY <2>3, <2>4, <2>5
  <2>7. FileShape(g)
    <3>0. f.bufPtr \in Nat /\ f.buf \in Seq(Byte) /\ Len(f.buf) <= BufferSize
      BY DEF FileHolds, FileShape
    <3>1. f.bufPtr + Len(f.buf) \in Nat
      BY <3>0
    <3> QED BY <2>3, <2>4, <3>1 DEF FileHolds, FileShape, SameCaller
  <2>8. g.os = BufferEnd(g) /\ BufferEnd(g) = BufferEnd(f)
    BY <2>3 DEF BufferEnd
  <2>9. g.bufPtr <= g.absPtr /\ g.absPtr <= BufferEnd(g)
    BY <2>3, <2>8 DEF FileHolds, SameCaller
  <2>10. FileHolds(g)
    BY <2>3, <2>4, <2>6, <2>7, <2>8, <2>9 DEF FileHolds
  <2> QED BY <1>2, <2>3, <2>10
<1> QED BY <1>1, <1>2 DEF FileHolds, FileShape

\* g is what remains of f for the caller who wrote bytes at its place.
Wrote(f, g, bytes) ==
  /\ g.mode = f.mode /\ g.got = f.got /\ g.gotAt = f.gotAt
  /\ g.absPtr = f.absPtr + Len(bytes) /\ g.ideal = Overlaid(f.ideal, f.absPtr, bytes)

\* A write into the buffer.
LEMMA WriteInBuffer ==
  ASSUME NEW f, FileHolds(f), NEW bytes \in Seq(Byte), InBuffer(f, Len(bytes)), NEW g, g = Write(f, bytes)
  PROVE  FileHolds(g) /\ Wrote(f, g, bytes) /\ g.absPtr <= g.absSize
<1> DEFINE n == Len(bytes)
           p == f.absPtr - f.bufPtr
           buf == Overlaid(f.buf, p, bytes)
           w == [f EXCEPT !.buf = buf, !.inSync = FALSE]
<1>0. n \in Nat
  OBVIOUS
<1>1. DOMAIN f = Fields /\ f.failed = "" /\ f.realPtr = f.os
  BY DEF FileHolds, FileShape
<1>2. /\ f.disk \in Seq(Byte) /\ f.ideal \in Seq(Byte) /\ f.buf \in Seq(Byte)
      /\ f.os \in Nat /\ f.realSize \in Nat /\ f.absPtr \in Nat /\ f.absSize \in Nat /\ f.bufPtr \in Nat
  BY DEF FileHolds, FileShape
<1>3. f.bufPtr <= f.absPtr /\ f.absPtr <= f.bufPtr + Len(f.buf)
  BY DEF FileHolds, BufferEnd
<1>4. p \in Nat /\ p <= Len(f.buf) /\ f.bufPtr + p = f.absPtr /\ Len(f.buf) \in Nat
  BY <1>2, <1>3
<1>04. p + n <= BufferSize /\ Len(f.buf) <= BufferSize /\ BufferSize \in Nat
  <2>1. f.absPtr + n <= f.bufPtr + BufferSize /\ BufferSize \in Nat
    BY FileAssumption DEF InBuffer
  <2>2. Len(f.buf) <= BufferSize
    BY DEF FileHolds, FileShape
  <2> QED BY <1>0, <1>2, <1>3, <2>1, <2>2
<1>5. buf \in Seq(Byte) /\ p + n <= Len(buf) /\ Len(buf) <= BufferSize
  <2>1. WrittenOver(buf, f.buf, p, bytes)
    BY <1>2, <1>4, OverlaidIs
  <2> HIDE DEF buf, p
  <2>2. Len(buf) = Extent(Len(f.buf), p, n) /\ buf \in Seq(Byte)
    BY <2>1 DEF WrittenOver
  <2> HIDE DEF n
  <2> QED BY <1>0, <1>04, <1>4, <2>2 DEF Extent
<1>6. Overlaid(f.disk, f.bufPtr, buf) = Overlaid(f.ideal, f.absPtr, bytes)
  <2>1. Overlaid(f.disk, f.bufPtr, buf) = Overlaid(Overlaid(f.disk, f.bufPtr, f.buf), f.bufPtr + p, bytes)
    <3> DEFINE d == f.disk
               at == f.bufPtr
               b == f.buf
    <3>1. d \in Seq(Byte) /\ at \in Nat /\ b \in Seq(Byte) /\ p \in Nat /\ p <= Len(b)
      BY <1>2, <1>4
    <3> HIDE DEF d, at, b, p
    <3>2. Overlaid(d, at, Overlaid(b, p, bytes)) = Overlaid(Overlaid(d, at, b), at + p, bytes)
      BY <3>1, OverlaidTwice
    <3> QED BY <3>2 DEF d, at, b
  <2> QED BY <1>4, <2>1 DEF FileHolds
<1> DEFINE size == Max({f.absSize, f.absPtr + n})
<1>7. size \in Nat /\ f.absPtr + n <= size
  <2>1. f.absPtr + n \in Nat
    BY <1>0, <1>2
  <2>2. size = IF f.absSize >= f.absPtr + n THEN f.absSize ELSE f.absPtr + n
    BY <1>2, <2>1, MaxPairIs
  <2> QED BY <1>2, <2>1, <2>2
<1> HIDE DEF buf, p
<1>8. /\ DOMAIN w = Fields /\ SameCaller(f, w) /\ w.disk = f.disk /\ w.os = f.os /\ w.realPtr = f.realPtr
      /\ w.realSize = f.realSize /\ w.bufPtr = f.bufPtr /\ w.buf = buf /\ w.inSync = FALSE
  BY <1>1 DEF SameCaller, Fields
<1>9. g = [w EXCEPT !.absPtr = @ + n, !.absSize = Max({@, f.absPtr + n}), !.ideal = Overlaid(@, f.absPtr, bytes)]
  BY DEF Write, buf, p
<1> HIDE DEF w, n
<1>10. g = [w EXCEPT !.absPtr = f.absPtr + n, !.absSize = size, !.ideal = Overlaid(f.ideal, f.absPtr, bytes)]
  BY <1>8, <1>9 DEF SameCaller, Fields
<1> HIDE DEF size
<1>11. /\ DOMAIN g = Fields /\ g.mode = f.mode /\ g.failed = f.failed /\ g.got = f.got /\ g.gotAt = f.gotAt
       /\ g.disk = f.disk /\ g.os = f.os /\ g.realPtr = f.realPtr /\ g.realSize = f.realSize
       /\ g.bufPtr = f.bufPtr /\ g.buf = buf /\ g.inSync = FALSE
       /\ g.absPtr = f.absPtr + n /\ g.absSize = size /\ g.ideal = Overlaid(f.ideal, f.absPtr, bytes)
  BY <1>8, <1>10 DEF SameCaller, Fields
<1>12. g.ideal \in Seq(Byte)
  <2>1. WrittenOver(g.ideal, f.ideal, f.absPtr, bytes)
    BY <1>2, <1>11, OverlaidIs
  <2> QED BY <2>1 DEF WrittenOver
<1>13. FileShape(g)
  <2>1. f.absPtr + n \in Nat
    BY <1>0, <1>2
  <2> QED BY <1>1, <1>2, <1>5, <1>7, <1>11, <1>12, <2>1 DEF FileShape
<1>14. g.bufPtr <= g.absPtr /\ g.absPtr <= BufferEnd(g)
  <2>1. f.bufPtr <= f.absPtr + n /\ f.absPtr + n <= f.bufPtr + Len(buf)
    <3>1. Len(buf) \in Nat
      BY <1>5
    <3>2. f.bufPtr <= f.absPtr + n
      BY <1>0, <1>2, <1>3
    <3>3. f.absPtr + n = f.bufPtr + (p + n)
      <4>1. f.bufPtr + p = f.absPtr /\ p \in Nat /\ f.bufPtr \in Nat
        BY <1>2, <1>4
      <4> QED BY <1>0, <4>1
    <3>4. f.bufPtr + (p + n) <= f.bufPtr + Len(buf)
      <4>1. p + n <= Len(buf) /\ p \in Nat /\ f.bufPtr \in Nat
        BY <1>2, <1>4, <1>5
      <4> QED BY <1>0, <3>1, <4>1
    <3> QED BY <3>2, <3>3, <3>4
  <2> QED BY <1>11, <2>1 DEF BufferEnd
<1>15. FileHolds(g)
  BY <1>1, <1>6, <1>11, <1>13, <1>14 DEF FileHolds
<1> QED BY <1>7, <1>11, <1>15 DEF Wrote, n

\* g is f with the bytes on the disk and the last of them in the buffer.
NewBuffer(f, g, bytes) ==
  /\ DOMAIN g = Fields /\ SameCaller(f, g) /\ g.realPtr = g.os /\ g.inSync = TRUE
  /\ g.disk = Overlaid(f.ideal, f.absPtr, bytes) /\ g.disk \in Seq(Byte)
  /\ g.os = f.absPtr + Len(bytes) /\ g.realSize \in Nat
  /\ g.buf \in Seq(Byte) /\ Len(g.buf) <= BufferSize /\ g.bufPtr \in Nat
  /\ g.bufPtr + Len(g.buf) = f.absPtr + Len(bytes)
  /\ Overlaid(g.disk, g.bufPtr, g.buf) = g.disk

\* write_new_buffer of a file in sync, from where the pointer of the system is.
LEMMA NewBufferIs ==
  ASSUME NEW f, FileHolds(f), f.inSync, f.absPtr = BufferEnd(f), NEW bytes \in Seq(Byte), NEW g, g = WriteNewBuffer(f, bytes)
  PROVE  NewBuffer(f, g, bytes)
<1> DEFINE n == Len(bytes)
           kept == Min({n, BufferSize})
           w == HandleWrite(f, bytes)
           disk == Overlaid(f.ideal, f.absPtr, bytes)
           last == Slice(bytes, n - kept, kept)
           size == Max({f.realSize, f.realPtr + n})
<1>0. n \in Nat
  OBVIOUS
<1>1. DOMAIN f = Fields /\ f.realPtr = f.os /\ f.disk = f.ideal /\ f.os = f.absPtr
  BY DEF FileHolds, FileShape
<1>2. f.ideal \in Seq(Byte) /\ f.os \in Nat /\ f.realSize \in Nat /\ f.absPtr \in Nat
  BY DEF FileHolds, FileShape
<1>3. kept \in Nat /\ kept <= n /\ kept <= BufferSize
  <2>1. BufferSize \in Nat
    BY FileAssumption
  <2>2. kept = IF n <= BufferSize THEN n ELSE BufferSize
    <3> HIDE DEF n
    <3> QED BY <1>0, <2>1, MinPairIs
  <2> HIDE DEF n, kept
  <2> QED BY <1>0, <2>1, <2>2
<1>4. size \in Nat
  <2>1. f.realPtr + n \in Nat /\ f.realSize \in Nat
    BY <1>0, <1>1, <1>2
  <2>2. size = IF f.realSize >= f.realPtr + n THEN f.realSize ELSE f.realPtr + n
    BY <2>1, MaxPairIs
  <2> QED BY <2>1, <2>2
<1>5. /\ last \in Seq(Byte) /\ Len(last) = kept
      /\ Overlaid(disk, f.absPtr + n - kept, last) = disk
  <2> DEFINE s == f.ideal
             at == f.absPtr
  <2>1. s \in Seq(Byte) /\ at \in Nat
    BY <1>2
  <2> HIDE DEF s, at, kept
  <2>2. TailStays(s, at, bytes, kept)
    BY <1>3, <2>1, OverlaidTail
  <2> DEFINE l == Slice(bytes, Len(bytes) - kept, kept)
             q == at + Len(bytes) - kept
  <2>3. l \in Seq(Byte) /\ Len(l) = kept /\ Overlaid(Overlaid(s, at, bytes), q, l) = Overlaid(s, at, bytes)
    BY <2>2 DEF TailStays
  <2>4. last = l /\ q = f.absPtr + n - kept /\ disk = Overlaid(s, at, bytes)
    BY DEF s, at
  <2> HIDE DEF l, q, disk, last, n
  <2> QED BY <2>3, <2>4
<1>6. disk \in Seq(Byte)
  <2>1. WrittenOver(disk, f.ideal, f.absPtr, bytes)
    BY <1>2, OverlaidIs
  <2> QED BY <2>1 DEF WrittenOver
<1>7. f.absPtr + n - kept \in Nat /\ f.absPtr + n - kept + kept = f.absPtr + n
  <2> HIDE DEF n, kept
  <2> QED BY <1>0, <1>2, <1>3
<1>8. w = [f EXCEPT !.disk = disk, !.os = @ + n]
  BY <1>1 DEF HandleWrite
<1>9. /\ DOMAIN w = Fields /\ SameCaller(f, w) /\ w.disk = disk /\ w.os = f.os + n /\ w.realPtr = f.realPtr
      /\ w.realSize = f.realSize
  <2> HIDE DEF w, disk, n
  <2> QED BY <1>1, <1>8 DEF SameCaller, Fields
<1>10. g = [w EXCEPT !.realPtr = @ + n, !.realSize = Max({@, f.realPtr + n}), !.bufPtr = f.absPtr + n - kept,
                     !.inSync = TRUE, !.buf = last]
  BY DEF WriteNewBuffer
<1> HIDE DEF w, disk, last, kept, n
<1>11. g = [w EXCEPT !.realPtr = f.realPtr + n, !.realSize = size, !.bufPtr = f.absPtr + n - kept,
                     !.inSync = TRUE, !.buf = last]
  BY <1>9, <1>10 DEF Fields
<1> HIDE DEF size
<1>12. /\ DOMAIN g = Fields /\ SameCaller(f, g) /\ g.disk = disk /\ g.os = f.os + n /\ g.realPtr = f.realPtr + n
       /\ g.realSize = size /\ g.bufPtr = f.absPtr + n - kept /\ g.inSync = TRUE /\ g.buf = last
  BY <1>9, <1>11 DEF SameCaller, Fields
<1> QED BY <1>1, <1>3, <1>4, <1>5, <1>6, <1>7, <1>12 DEF disk, n, NewBuffer

\* A write past the end of the buffer, from there.
LEMMA WritePastBuffer ==
  ASSUME NEW f, FileHolds(f), NEW bytes \in Seq(Byte), ~InBuffer(f, Len(bytes)),
         f.absPtr = BufferEnd(f), f.absPtr <= f.absSize, NEW g, g = Write(f, bytes)
  PROVE  FileHolds(g) /\ Wrote(f, g, bytes) /\ g.absPtr <= g.absSize
<1> DEFINE n == Len(bytes)
           h == SyncBuffer(f)
           w == WriteNewBuffer(h, bytes)
           size == Max({f.absSize, f.absPtr + n})
<1>0. n \in Nat /\ f.absPtr \in Nat /\ f.absSize \in Nat
  <2>1. f.absPtr \in Nat /\ f.absSize \in Nat
    BY DEF FileHolds, FileShape
  <2> QED BY <2>1
<1>00. f.failed = ""
  BY DEF FileHolds, FileShape
<1>1. FileHolds(h) /\ SameCaller(f, h) /\ h.inSync /\ h.bufPtr = f.bufPtr /\ h.buf = f.buf
  BY SyncIs
<1> HIDE DEF h
<1>2. h.absPtr = BufferEnd(h) /\ h.absPtr = f.absPtr /\ h.ideal = f.ideal
  BY <1>1 DEF BufferEnd, SameCaller
<1>3. /\ DOMAIN w = Fields /\ SameCaller(h, w) /\ w.realPtr = w.os /\ w.inSync = TRUE
      /\ w.disk = Overlaid(f.ideal, f.absPtr, bytes) /\ w.disk \in Seq(Byte)
      /\ w.os = f.absPtr + n /\ w.realSize \in Nat
      /\ w.buf \in Seq(Byte) /\ Len(w.buf) <= BufferSize /\ w.bufPtr \in Nat /\ w.bufPtr + Len(w.buf) = f.absPtr + n
      /\ Overlaid(w.disk, w.bufPtr, w.buf) = w.disk
  <2> DEFINE v == w
  <2>1. FileHolds(h) /\ h.inSync /\ h.absPtr = BufferEnd(h) /\ v = WriteNewBuffer(h, bytes)
    BY <1>1, <1>2
  <2> HIDE DEF v
  <2>5. NewBuffer(h, v, bytes)
    BY <2>1, NewBufferIs
  <2>2. /\ DOMAIN v = Fields /\ SameCaller(h, v) /\ v.realPtr = v.os /\ v.inSync = TRUE
        /\ v.disk = Overlaid(h.ideal, h.absPtr, bytes) /\ v.disk \in Seq(Byte)
        /\ v.os = h.absPtr + n /\ v.realSize \in Nat
        /\ v.buf \in Seq(Byte) /\ Len(v.buf) <= BufferSize /\ v.bufPtr \in Nat /\ v.bufPtr + Len(v.buf) = h.absPtr + n
        /\ Overlaid(v.disk, v.bufPtr, v.buf) = v.disk
    BY <2>5 DEF NewBuffer
  <2>3. h.ideal = f.ideal /\ h.absPtr = f.absPtr
    BY <1>2
  <2>4. v.disk = Overlaid(f.ideal, f.absPtr, bytes) /\ v.os = f.absPtr + n /\ v.bufPtr + Len(v.buf) = f.absPtr + n
    BY <2>2, <2>3
  <2> QED BY <2>2, <2>4 DEF v
<1> HIDE DEF w
<1>4. SameCaller(f, w)
  BY <1>1, <1>3 DEF SameCaller
<1>5. size \in Nat /\ f.absPtr + n <= size
  <2>1. f.absPtr + n \in Nat /\ f.absSize \in Nat
    BY <1>0
  <2>2. size = IF f.absSize >= f.absPtr + n THEN f.absSize ELSE f.absPtr + n
    BY <2>1, MaxPairIs
  <2> QED BY <2>1, <2>2
<1>6. ~(f.absPtr > f.absSize)
  BY <1>0
<1>7. g = [w EXCEPT !.absPtr = @ + n, !.absSize = Max({@, f.absPtr + n}), !.ideal = Overlaid(@, f.absPtr, bytes)]
  BY <1>6 DEF Write, w, h
<1> HIDE DEF n
<1>8. g = [w EXCEPT !.absPtr = f.absPtr + n, !.absSize = size, !.ideal = Overlaid(f.ideal, f.absPtr, bytes)]
  BY <1>3, <1>4, <1>7 DEF SameCaller, Fields
<1> HIDE DEF size
<1>9. /\ DOMAIN g = Fields /\ g.mode = f.mode /\ g.failed = f.failed /\ g.got = f.got /\ g.gotAt = f.gotAt
      /\ g.disk = w.disk /\ g.os = w.os /\ g.realPtr = w.realPtr /\ g.realSize = w.realSize
      /\ g.bufPtr = w.bufPtr /\ g.buf = w.buf /\ g.inSync = TRUE
      /\ g.absPtr = f.absPtr + n /\ g.absSize = size /\ g.ideal = w.disk
  BY <1>3, <1>4, <1>8 DEF SameCaller, Fields
<1>10. f.absPtr + n \in Nat /\ Len(w.buf) \in Nat
  BY <1>0, <1>3
<1>11. FileShape(g)
  BY <1>0, <1>00, <1>3, <1>5, <1>9, <1>10 DEF FileShape
<1>12. BufferEnd(g) = f.absPtr + n /\ g.os = BufferEnd(g) /\ g.bufPtr <= g.absPtr /\ g.absPtr <= BufferEnd(g)
  <2>1. w.bufPtr <= f.absPtr + n
    BY <1>3, <1>10
  <2> QED BY <1>3, <1>9, <1>10, <2>1 DEF BufferEnd
<1>13. FileHolds(g)
  BY <1>3, <1>9, <1>11, <1>12 DEF FileHolds
<1> QED BY <1>3, <1>5, <1>9, <1>13 DEF Wrote, n

\* write_padding_bytes.
LEMMA PadIs ==
  ASSUME NEW f, FileHolds(f), f.absPtr <= f.absSize, NEW byte \in Byte, NEW n \in Nat, n <= BufferSize, NEW g, g = Pad(f, byte, n)
  PROVE  FileHolds(g) /\ g.mode = f.mode /\ g.got = f.got /\ g.gotAt = f.gotAt
<1> DEFINE bytes == [i \in 1..n |-> byte]
           h == SyncBuffer(f)
           p == [h EXCEPT !.buf = bytes, !.bufPtr = f.absPtr]
           w == ForceSync(p)
           ideal == Overlaid(f.ideal, f.absPtr, bytes)
<1>0. f.absPtr \in Nat /\ f.absSize \in Nat /\ f.ideal \in Seq(Byte)
  BY DEF FileHolds, FileShape
<1>00. f.failed = ""
  BY DEF FileHolds, FileShape
<1>1. bytes \in Seq(Byte) /\ Len(bytes) = n
  <2>1. bytes \in [1..n -> Byte]
    OBVIOUS
  <2> HIDE DEF bytes
  <2> QED BY <2>1, SequenceIs
<1>2. FileHolds(h) /\ SameCaller(f, h) /\ h.inSync
  BY SyncIs
<1>3. DOMAIN h = Fields /\ h.disk = f.ideal /\ h.realPtr = h.os
  BY <1>2 DEF FileHolds, FileShape, SameCaller
<1> HIDE DEF h, bytes
<1>4. /\ DOMAIN p = Fields /\ SameCaller(f, p) /\ p.disk = f.ideal /\ p.realPtr = p.os
      /\ p.buf = bytes /\ p.bufPtr = f.absPtr
  BY <1>2, <1>3 DEF SameCaller, Fields
<1> HIDE DEF p
<1>5. /\ DOMAIN w = Fields /\ SameCaller(p, w)
      /\ w.disk = Overlaid(p.disk, p.bufPtr, p.buf) /\ w.os = p.bufPtr + Len(p.buf) /\ w.realPtr = w.os
      /\ w.realSize = p.absSize /\ w.bufPtr = p.bufPtr /\ w.buf = p.buf /\ w.inSync = TRUE
  BY <1>4, ForceSyncIs
<1>6. ~(f.absPtr > f.absSize)
  BY <1>0
<1>7. g = [w EXCEPT !.absPtr = @ + n, !.ideal = Overlaid(@, f.absPtr, bytes)]
  BY <1>6 DEF Pad, w, p, h, bytes
<1> HIDE DEF w
<1>8. /\ SameCaller(f, w) /\ w.disk = ideal /\ w.os = f.absPtr + n /\ w.realPtr = w.os
      /\ w.realSize = f.absSize /\ w.bufPtr = f.absPtr /\ w.buf = bytes /\ w.inSync = TRUE
  BY <1>1, <1>4, <1>5 DEF SameCaller
<1> HIDE DEF ideal
<1>9. g = [w EXCEPT !.absPtr = f.absPtr + n, !.ideal = ideal]
  BY <1>5, <1>7, <1>8 DEF SameCaller, Fields, ideal
<1>10. /\ DOMAIN g = Fields /\ g.mode = f.mode /\ g.failed = f.failed /\ g.got = f.got /\ g.gotAt = f.gotAt
       /\ g.disk = ideal /\ g.os = f.absPtr + n /\ g.realPtr = f.absPtr + n /\ g.realSize = f.absSize
       /\ g.bufPtr = f.absPtr /\ g.buf = bytes /\ g.inSync = TRUE
       /\ g.absPtr = f.absPtr + n /\ g.absSize = f.absSize /\ g.ideal = ideal
  BY <1>5, <1>8, <1>9 DEF SameCaller, Fields
<1>11. ideal \in Seq(Byte) /\ Overlaid(ideal, f.absPtr, bytes) = ideal
  <2> DEFINE s == f.ideal
             at == f.absPtr
  <2>1. s \in Seq(Byte) /\ at \in Nat
    BY <1>0
  <2> HIDE DEF s, at
  <2>2. Overlaid(Overlaid(s, at, bytes), at, bytes) = Overlaid(s, at, bytes)
    BY <1>1, <2>1, OverlaidSelf
  <2>3. WrittenOver(Overlaid(s, at, bytes), s, at, bytes)
    BY <1>1, <2>1, OverlaidIs
  <2>4. Overlaid(s, at, bytes) \in Seq(Byte)
    BY <2>3 DEF WrittenOver
  <2> QED BY <2>2, <2>4 DEF s, at, ideal
<1>12. f.absPtr + n \in Nat /\ f.absPtr <= f.absPtr + n
  BY <1>0
<1>13. FileShape(g)
  BY <1>0, <1>00, <1>1, <1>10, <1>11, <1>12 DEF FileShape
<1>14. BufferEnd(g) = f.absPtr + n
  BY <1>1, <1>10 DEF BufferEnd
<1>15. g.bufPtr <= g.absPtr /\ g.absPtr <= BufferEnd(g)
  BY <1>10, <1>12, <1>14
<1>16. FileHolds(g)
  BY <1>10, <1>11, <1>13, <1>14, <1>15 DEF FileHolds
<1> QED BY <1>10, <1>16

\* A file that is read is as large as what the disk has of it.
ReadHolds(f) == f.inSync /\ f.realSize = Len(f.disk) /\ f.absSize = Len(f.disk)

\* What was read last is what the file has at its place.
GotRight(f) == f.got \in Seq(Byte) /\ f.gotAt \in Nat /\ f.got = Slice(f.ideal, f.gotAt, Len(f.got))

\* CarefulRead of any file.
ReadsCarefully(f, n) ==
  LET r == LoadedRange(f, f.absPtr, n)
  IN \/ n <= r.size
     \/ ~Straddles(r, n) /\ (n - r.size > BufferSize \/ f.os + NextBuffer(f) <= f.realSize)

\* The bytes are those of the disk from place at on.
FromDisk(bytes, f, at, n) == bytes \in Seq(Byte) /\ Len(bytes) = n /\ \A i \in 1..n : bytes[i] = f.disk[at + i]

\* v is f with the next bytes read: the last of them in the buffer, m of them with the caller.
HasLoaded(f, v, size, m, had) ==
  /\ DOMAIN v = Fields /\ v.mode = f.mode /\ v.failed = f.failed /\ v.ideal = f.ideal /\ v.gotAt = f.gotAt
  /\ v.absPtr = f.absPtr /\ v.absSize = f.absSize /\ v.disk = f.disk /\ v.realSize = f.realSize /\ v.inSync = f.inSync
  /\ v.os = f.os + size /\ v.realPtr = f.os + size
  /\ v.buf \in Seq(Byte) /\ Len(v.buf) <= BufferSize /\ v.bufPtr \in Nat
  /\ v.bufPtr + Len(v.buf) = f.os + size /\ v.bufPtr <= f.os + m
  /\ Overlaid(f.disk, v.bufPtr, v.buf) = f.disk
  /\ \E next : FromDisk(next, f, f.os, m) /\ v.got = had \o next

\* handle_read of bytes the file has.
LEMMA LoadedIs ==
  ASSUME NEW f, FileHolds(f), NEW size \in Nat, NEW m \in Nat, m <= size, m = size \/ size <= BufferSize,
         f.os + size <= Len(f.disk), NEW had, NEW v, v = Loaded(f, f.os, size, m, had)
  PROVE  HasLoaded(f, v, size, m, had)
<1> DEFINE bytes == Slice(f.disk, f.os, size)
           kept == Min({size, BufferSize})
           next == Slice(bytes, 0, m)
           buf == Slice(bytes, size - kept, kept)
           at == f.os + size - kept
<1>1. DOMAIN f = Fields /\ f.realPtr = f.os
  BY DEF FileHolds, FileShape
<1>2. f.disk \in Seq(Byte) /\ f.os \in Nat
  BY DEF FileHolds, FileShape
<1>3. kept \in Nat /\ kept <= size /\ kept <= BufferSize /\ (size <= BufferSize => kept = size)
  <2>1. BufferSize \in Nat
    BY FileAssumption
  <2>2. kept = IF size <= BufferSize THEN size ELSE BufferSize
    BY <2>1, MinPairIs
  <2> QED BY <2>1, <2>2
<1>4. bytes \in Seq(Byte) /\ Len(bytes) = size /\ \A i \in 1..size : bytes[i] = f.disk[f.os + i]
  <2> DEFINE d == f.disk
             o == f.os
  <2>1. d \in Seq(Byte) /\ o \in Nat /\ o + size <= Len(d)
    BY <1>2
  <2> HIDE DEF d, o
  <2>2. /\ Slice(d, o, size) \in Seq(Byte) /\ Len(Slice(d, o, size)) = size
        /\ \A i \in 1..size : Slice(d, o, size)[i] = d[o + i]
    BY <2>1, SliceIs
  <2> QED BY <2>2 DEF d, o
<1> HIDE DEF kept, bytes
<1>5. FromDisk(next, f, f.os, m)
  <2>1. 0 \in Nat /\ 0 + m <= Len(bytes)
    BY <1>4
  <2>2. next \in Seq(Byte) /\ Len(next) = m /\ \A i \in 1..m : next[i] = bytes[0 + i]
    BY <1>4, <2>1, SliceIs
  <2>3. \A i \in 1..m : i \in 1..size /\ 0 + i = i
    OBVIOUS
  <2> HIDE DEF next
  <2>4. \A i \in 1..m : next[i] = f.disk[f.os + i]
    BY <1>4, <2>2, <2>3
  <2> QED BY <2>2, <2>4 DEF FromDisk
<1>6. buf \in Seq(Byte) /\ Len(buf) = kept /\ \A i \in 1..kept : buf[i] = bytes[size - kept + i]
  <2>1. size - kept \in Nat /\ size - kept + kept <= Len(bytes)
    BY <1>3, <1>4
  <2> QED BY <1>3, <1>4, <2>1, SliceIs
<1>7. at \in Nat /\ at + kept = f.os + size /\ at <= f.os + m
  BY <1>2, <1>3
<1> HIDE DEF buf, next
<1>8. \A i \in 1..kept : f.disk[at + i] = buf[i]
  <2>1. ASSUME NEW i \in 1..kept PROVE f.disk[at + i] = buf[i]
    <3>1. size - kept + i \in 1..size /\ f.os + (size - kept + i) = at + i
      BY <1>2, <1>3
    <3>2. bytes[size - kept + i] = f.disk[f.os + (size - kept + i)]
      BY <1>4, <3>1
    <3> QED BY <1>6, <3>1, <3>2
  <2> QED BY <2>1
<1>9. Overlaid(f.disk, at, buf) = f.disk
  <2> DEFINE d == f.disk
  <2>1. d \in Seq(Byte) /\ at + Len(buf) <= Len(d) /\ \A i \in 1..Len(buf) : d[at + i] = buf[i]
    BY <1>2, <1>6, <1>7, <1>8
  <2> HIDE DEF d, at
  <2>2. Overlaid(d, at, buf) = d
    BY <1>6, <1>7, <2>1, OverlaidSame
  <2> QED BY <2>2 DEF d
<1>10. ~(f.os + size > Len(f.disk))
  <2>1. f.os + size \in Nat /\ Len(f.disk) \in Nat
    BY <1>2
  <2> QED BY <2>1
<1>11. v = [f EXCEPT !.os = @ + size, !.realPtr = @ + size, !.bufPtr = at, !.buf = buf, !.got = had \o next]
  BY <1>10 DEF Loaded, bytes, kept, buf, next
<1> HIDE DEF at
<1>12. /\ DOMAIN v = Fields /\ v.mode = f.mode /\ v.failed = f.failed /\ v.ideal = f.ideal /\ v.gotAt = f.gotAt
       /\ v.absPtr = f.absPtr /\ v.absSize = f.absSize /\ v.disk = f.disk /\ v.realSize = f.realSize /\ v.inSync = f.inSync
       /\ v.os = f.os + size /\ v.realPtr = f.os + size /\ v.bufPtr = at /\ v.buf = buf /\ v.got = had \o next
  BY <1>1, <1>11 DEF Fields
<1> QED BY <1>3, <1>5, <1>6, <1>7, <1>9, <1>12 DEF HasLoaded

\* What the buffer has of the n bytes from the pointer on: the first of them.
LEMMA RangeIs ==
  ASSUME NEW f, FileHolds(f), NEW n \in Nat, NEW r, r = LoadedRange(f, f.absPtr, n)
  PROVE  /\ r.ptrStart = 0 /\ r.size \in Nat /\ r.bufStart \in Nat /\ r.size <= n
         /\ r.bufStart + r.size <= Len(f.buf)
         /\ r.size # 0 => f.bufPtr + r.bufStart = f.absPtr
         /\ r.size < n => f.absPtr + r.size = BufferEnd(f)
<1> DEFINE e == BufferEnd(f)
<1>1. f.absPtr \in Nat /\ f.bufPtr \in Nat /\ Len(f.buf) \in Nat /\ e = f.bufPtr + Len(f.buf)
  <2>1. f.absPtr \in Nat /\ f.bufPtr \in Nat /\ f.buf \in Seq(Byte)
    BY DEF FileHolds, FileShape
  <2> QED BY <2>1 DEF BufferEnd
<1>2. e \in Nat /\ f.bufPtr <= f.absPtr /\ f.absPtr <= e
  BY <1>1 DEF FileHolds
<1> HIDE DEF e
<1>3. CASE e <= f.absPtr
  <2>1. r = [ptrStart |-> 0, bufStart |-> 0, size |-> 0]
    BY <1>1, <1>2, <1>3 DEF LoadedRange, e
  <2>2. r.ptrStart = 0 /\ r.bufStart = 0 /\ r.size = 0
    BY <2>1
  <2>3. f.absPtr + 0 = e
    BY <1>1, <1>2, <1>3
  <2> QED BY <1>1, <2>2, <2>3 DEF e
<1>4. CASE ~(e <= f.absPtr)
  <2> DEFINE k == Min({e - f.absPtr, n})
  <2>1. r = [ptrStart |-> 0, bufStart |-> f.absPtr - f.bufPtr, size |-> k]
    BY <1>1, <1>2, <1>4 DEF LoadedRange, e
  <2>2. k = IF e - f.absPtr <= n THEN e - f.absPtr ELSE n
    <3>1. e - f.absPtr \in Nat
      BY <1>1, <1>2
    <3> QED BY <3>1, MinPairIs
  <2> HIDE DEF k
  <2>3. r.ptrStart = 0 /\ r.bufStart = f.absPtr - f.bufPtr /\ r.size = k
    BY <2>1
  <2>4. k \in Nat /\ k <= n /\ f.absPtr - f.bufPtr \in Nat /\ f.absPtr - f.bufPtr + k <= Len(f.buf)
    BY <1>1, <1>2, <2>2
  <2>5. f.bufPtr + (f.absPtr - f.bufPtr) = f.absPtr /\ (k < n => f.absPtr + k = e)
    BY <1>1, <1>2, <2>2
  <2> QED BY <2>3, <2>4, <2>5 DEF e
<1> QED BY <1>3, <1>4

\* g is what remains of f after a read.
ReadFrom(f, g) == FileHolds(g) /\ ReadHolds(g) /\ GotRight(g) /\ g.mode = f.mode

\* g is v with the place of the caller n bytes further.
MovedOn(v, g, n, at) == g = [v EXCEPT !.absPtr = @ + n, !.gotAt = at]

\* What was loaded after k bytes that the caller had: the file is as it should be.
LEMMA LoadedHolds ==
  ASSUME NEW f, FileHolds(f), ReadHolds(f), NEW k \in Nat, NEW m \in Nat, f.absPtr + k = f.os,
         NEW had, FromDisk(had, f, f.absPtr, k), NEW size \in Nat, m <= size, NEW v, HasLoaded(f, v, size, m, had),
         NEW g, MovedOn(v, g, k + m, f.absPtr)
  PROVE  ReadFrom(f, g)
<1> DEFINE n == k + m
           d == f.disk
           p == f.absPtr
<1>1. PICK next : FromDisk(next, f, f.os, m) /\ v.got = had \o next
  BY DEF HasLoaded
<1>2. /\ DOMAIN v = Fields /\ v.mode = f.mode /\ v.failed = f.failed /\ v.ideal = f.ideal
      /\ v.absPtr = f.absPtr /\ v.absSize = f.absSize /\ v.disk = f.disk /\ v.realSize = f.realSize /\ v.inSync = f.inSync
      /\ v.os = f.os + size /\ v.realPtr = f.os + size
  BY DEF HasLoaded
<1>3. /\ v.buf \in Seq(Byte) /\ Len(v.buf) <= BufferSize /\ v.bufPtr \in Nat
      /\ v.bufPtr + Len(v.buf) = f.os + size /\ v.bufPtr <= f.os + m
      /\ Overlaid(f.disk, v.bufPtr, v.buf) = f.disk
  BY DEF HasLoaded
<1>4. /\ DOMAIN g = Fields /\ g.mode = v.mode /\ g.failed = v.failed /\ g.ideal = v.ideal /\ g.got = v.got
      /\ g.gotAt = f.absPtr /\ g.absPtr = v.absPtr + n /\ g.absSize = v.absSize /\ g.disk = v.disk
      /\ g.realSize = v.realSize /\ g.inSync = v.inSync /\ g.os = v.os /\ g.realPtr = v.realPtr
      /\ g.bufPtr = v.bufPtr /\ g.buf = v.buf
  BY <1>2 DEF Fields, MovedOn
<1>5. /\ d \in Seq(Byte) /\ p \in Nat /\ f.os \in Nat /\ f.absSize \in Nat /\ f.realSize \in Nat
  BY DEF FileHolds, FileShape
<1>6. f.failed = ""
  BY DEF FileHolds, FileShape
<1>7. f.ideal = d /\ f.inSync = TRUE
  BY DEF FileHolds, FileShape, ReadHolds
<1>8. FileShape(g)
  <2>1. f.os + size \in Nat /\ p + n \in Nat
    <3>1. p \in Nat /\ f.os \in Nat
      BY <1>5
    <3> HIDE DEF p
    <3>2. f.os + size \in Nat
      BY <3>1
    <3>3. p + n \in Nat
      BY <3>1
    <3> QED BY <3>2, <3>3
  <2>2. DOMAIN g = Fields /\ g.failed = "" /\ g.inSync \in BOOLEAN
    BY <1>2, <1>4, <1>6, <1>7
  <2>3. g.disk \in Seq(Byte) /\ g.ideal \in Seq(Byte) /\ g.buf \in Seq(Byte) /\ Len(g.buf) <= BufferSize
    BY <1>2, <1>3, <1>4, <1>5, <1>7
  <2>4. /\ g.os \in Nat /\ g.realPtr \in Nat /\ g.realSize \in Nat
        /\ g.absPtr \in Nat /\ g.absSize \in Nat /\ g.bufPtr \in Nat
    BY <1>2, <1>3, <1>4, <1>5, <2>1
  <2> QED BY <2>2, <2>3, <2>4 DEF FileShape
<1>9. BufferEnd(g) = f.os + size /\ g.bufPtr <= g.absPtr /\ g.absPtr <= BufferEnd(g)
  <2>1. p + n = f.os + m /\ f.os + m <= f.os + size
    BY <1>5
  <2> QED BY <1>2, <1>3, <1>4, <2>1 DEF BufferEnd
<1>10. FileHolds(g)
  BY <1>2, <1>3, <1>4, <1>7, <1>8, <1>9 DEF FileHolds
<1>11. ReadHolds(g)
  BY <1>2, <1>4 DEF ReadHolds
<1>12. p + n <= Len(d)
  <2>1. Overlaid(d, g.bufPtr, g.buf) = d /\ g.bufPtr \in Nat /\ g.buf \in Seq(Byte)
    BY <1>3, <1>4
  <2>2. g.bufPtr + Len(g.buf) <= Len(d)
    <3> HIDE DEF d
    <3> QED BY <1>5, <2>1, OverlaidHas
  <2>3. f.os + size <= Len(d)
    BY <1>3, <1>4, <2>2
  <2> HIDE DEF d
  <2> QED BY <1>5, <2>3
<1>13. GotRight(g)
  <2> DEFINE got == had \o next
             s == Slice(d, p, n)
  <2>1. had \in Seq(Byte) /\ Len(had) = k /\ \A i \in 1..k : had[i] = d[p + i]
    BY DEF FromDisk
  <2>2. next \in Seq(Byte) /\ Len(next) = m /\ \A i \in 1..m : next[i] = d[f.os + i]
    BY <1>1 DEF FromDisk
  <2>3. s \in Seq(Byte) /\ Len(s) = n /\ \A i \in 1..n : s[i] = d[p + i]
    <3> HIDE DEF d, p
    <3>1. n \in Nat
      OBVIOUS
    <3> HIDE DEF n
    <3> QED BY <1>5, <1>12, <3>1, SliceIs
  <2> HIDE DEF s, d
  <2>4. /\ got \in Seq(Byte) /\ Len(got) = n
        /\ (\A i \in 1..k : got[i] = had[i]) /\ \A i \in k + 1..n : got[i] = next[i - k]
    <3>1. /\ got \in Seq(Byte) /\ Len(got) = Len(had) + Len(next)
          /\ \A i \in 1..Len(had) + Len(next) : got[i] = IF i <= Len(had) THEN had[i] ELSE next[i - Len(had)]
      <4>1. had \in Seq(Byte) /\ next \in Seq(Byte)
        BY <2>1, <2>2
      <4> QED BY <4>1, ConcatProperties
    <3> HIDE DEF got
    <3>2. Len(had) = k /\ Len(next) = m
      BY <2>1, <2>2
    <3>3. got \in Seq(Byte) /\ Len(got) = n /\ \A i \in 1..n : got[i] = IF i <= k THEN had[i] ELSE next[i - k]
      BY <3>1, <3>2
    <3>4. n = k + m
      OBVIOUS
    <3> HIDE DEF n
    <3>5. \A i \in 1..k : i \in 1..n /\ i <= k
      BY <3>4
    <3>6. \A i \in k + 1..n : i \in 1..n /\ ~(i <= k)
      BY <3>4
    <3> QED BY <3>3, <3>5, <3>6
  <2> HIDE DEF got
  <2>5. ASSUME NEW i \in 1..n PROVE got[i] = s[i]
    <3>1. CASE i \in 1..k
      BY <2>1, <2>3, <2>4, <3>1
    <3>2. CASE i \in k + 1..n
      <4>1. i - k \in 1..m /\ f.os + (i - k) = p + i
        BY <1>5, <3>2
      <4>2. next[i - k] = d[f.os + (i - k)]
        BY <2>2, <4>1
      <4> QED BY <2>3, <2>4, <3>2, <4>1, <4>2
    <3>3. i \in 1..k \/ i \in k + 1..n
      OBVIOUS
    <3> QED BY <3>1, <3>2, <3>3
  <2>6. got = s
    BY <2>3, <2>4, <2>5, BytesEqual
  <2> QED BY <1>1, <1>2, <1>4, <1>5, <1>7, <2>4, <2>6 DEF GotRight, got, s, d
<1> QED BY <1>2, <1>4, <1>10, <1>11, <1>13 DEF ReadFrom

\* read_to_bytes where a careful caller reads.
LEMMA ReadIs ==
  ASSUME NEW f, FileHolds(f), ReadHolds(f), NEW n \in Nat, f.absPtr + n <= f.absSize, ReadsCarefully(f, n),
         NEW g, g = Read(f, n)
  PROVE  ReadFrom(f, g)
<1> DEFINE r == LoadedRange(f, f.absPtr, n)
           k == r.size
           had == Slice(f.buf, r.bufStart, k)
           m == n - k
<1>1. /\ r.ptrStart = 0 /\ k \in Nat /\ r.bufStart \in Nat /\ k <= n
      /\ r.bufStart + k <= Len(f.buf)
      /\ k # 0 => f.bufPtr + r.bufStart = f.absPtr
      /\ k < n => f.absPtr + k = BufferEnd(f)
  BY RangeIs
<1>2. DOMAIN f = Fields /\ f.realPtr = f.os /\ f.ideal = f.disk /\ f.os = BufferEnd(f) /\ f.inSync
  BY DEF FileHolds, FileShape, ReadHolds
<1>3. f.disk \in Seq(Byte) /\ f.buf \in Seq(Byte) /\ f.absPtr \in Nat /\ f.bufPtr \in Nat /\ f.os \in Nat
  BY DEF FileHolds, FileShape
<1>4. BufferEnd(f) <= Len(f.disk) /\ Slice(f.disk, f.bufPtr, Len(f.buf)) = f.buf
  BY <1>2, SyncedEnds
<1>5. FromDisk(had, f, f.absPtr, k)
  <2> DEFINE d == f.disk
             b == f.buf
             at == f.bufPtr
             s == r.bufStart
  <2>0. at + Len(b) <= Len(d) /\ Slice(d, at, Len(b)) = b /\ d \in Seq(Byte) /\ b \in Seq(Byte) /\ at \in Nat /\ Len(b) \in Nat
    BY <1>3, <1>4 DEF BufferEnd
  <2>1. s \in Nat /\ k \in Nat /\ s + k <= Len(b) /\ (k # 0 => at + s = f.absPtr)
    BY <1>1
  <2> HIDE DEF d, b, at, s, k
  <2>2. \A i \in 1..Len(b) : b[i] = d[at + i]
    <3>1. \A i \in 1..Len(b) : Slice(d, at, Len(b))[i] = d[at + i]
      BY <2>0, SliceIs
    <3> QED BY <2>0, <3>1
  <2>3. Slice(b, s, k) \in Seq(Byte) /\ Len(Slice(b, s, k)) = k /\ \A i \in 1..k : Slice(b, s, k)[i] = b[s + i]
    BY <2>0, <2>1, SliceIs
  <2>4. ASSUME NEW i \in 1..k PROVE Slice(b, s, k)[i] = d[f.absPtr + i]
    <3>1. s + i \in 1..Len(b) /\ k # 0
      BY <2>0, <2>1
    <3>2. at + (s + i) = f.absPtr + i
      <4>1. at + s = f.absPtr
        BY <2>1, <3>1
      <4>2. at \in Nat /\ s \in Nat /\ k \in Nat
        BY <2>0, <2>1
      <4>3. at + (s + i) = (at + s) + i
        BY <4>2
      <4> QED BY <4>1, <4>3
    <3>3. b[s + i] = d[at + (s + i)]
      BY <2>2, <3>1
    <3> QED BY <2>3, <3>2, <3>3
  <2> QED BY <2>3, <2>4 DEF FromDisk, d, b, s
<1>6. SyncBuffer(f) = f
  BY <1>2 DEF SyncBuffer
<1> DEFINE read == IF n <= k THEN [f EXCEPT !.got = had]
                   ELSE IF Straddles(r, n) THEN BigRead(f, f.absPtr, n, <<>>)
                   ELSE IF r.ptrStart = 0 THEN GenericRead(f, f.absPtr + k, m, had)
                   ELSE [GenericRead(f, f.absPtr, r.ptrStart, <<>>) EXCEPT !.got = @ \o had]
<1>7. g = [read EXCEPT !.absPtr = @ + n, !.gotAt = f.absPtr]
  BY <1>6 DEF Read
<1>8. n <= k \/ (~Straddles(r, n) /\ (m > BufferSize \/ f.os + NextBuffer(f) <= f.realSize))
  BY DEF ReadsCarefully
<1>9. f.realSize = Len(f.disk) /\ f.absSize = Len(f.disk) /\ Len(f.disk) \in Nat
  BY <1>3 DEF ReadHolds
<1>10. CASE n <= k
  <2>1. k = n
    BY <1>1, <1>10
  <2> HIDE DEF r, had
  <2>2. g = [[f EXCEPT !.got = had] EXCEPT !.absPtr = @ + n, !.gotAt = f.absPtr]
    BY <1>7, <1>10
  <2>3. /\ DOMAIN g = Fields /\ g.mode = f.mode /\ g.failed = f.failed /\ g.ideal = f.ideal /\ g.got = had
        /\ g.gotAt = f.absPtr /\ g.absPtr = f.absPtr + n /\ g.absSize = f.absSize /\ g.disk = f.disk
        /\ g.realSize = f.realSize /\ g.inSync = f.inSync /\ g.os = f.os /\ g.realPtr = f.realPtr
        /\ g.bufPtr = f.bufPtr /\ g.buf = f.buf
    BY <1>2, <2>2 DEF Fields
  <2>4. f.absPtr + n \in Nat /\ f.absPtr <= f.absPtr + n
    BY <1>3
  <2>5. FileShape(g)
    <3>1. FileShape(f)
      BY DEF FileHolds
    <3>2. DOMAIN g = Fields /\ g.failed = "" /\ g.inSync \in BOOLEAN
      BY <2>3, <3>1 DEF FileShape
    <3>3. g.disk \in Seq(Byte) /\ g.ideal \in Seq(Byte) /\ g.buf \in Seq(Byte) /\ Len(g.buf) <= BufferSize
      BY <2>3, <3>1 DEF FileShape
    <3>4. /\ g.os \in Nat /\ g.realPtr \in Nat /\ g.realSize \in Nat
          /\ g.absPtr \in Nat /\ g.absSize \in Nat /\ g.bufPtr \in Nat
      BY <2>3, <2>4, <3>1 DEF FileShape
    <3> QED BY <3>2, <3>3, <3>4 DEF FileShape
  <2>6. BufferEnd(g) = BufferEnd(f) /\ f.absPtr + n <= BufferEnd(f)
    <3>1. BufferEnd(g) = BufferEnd(f) /\ BufferEnd(f) = f.bufPtr + Len(f.buf) /\ Len(f.buf) \in Nat
      BY <1>3, <2>3 DEF BufferEnd
    <3>2. CASE k = 0
      BY <1>3, <2>1, <3>1, <3>2 DEF FileHolds
    <3>3. CASE k # 0
      BY <1>1, <1>3, <2>1, <3>1, <3>3
    <3> QED BY <3>1, <3>2, <3>3
  <2>7. FileHolds(g)
    <3>1. f.bufPtr <= f.absPtr + n
      BY <1>3, <2>4 DEF FileHolds
    <3> QED BY <1>2, <2>3, <2>5, <2>6, <3>1 DEF FileHolds
  <2>8. ReadHolds(g)
    BY <1>2, <1>9, <2>3 DEF ReadHolds
  <2>9. had = Slice(f.disk, f.absPtr, n)
    <3> DEFINE d == f.disk
               p == f.absPtr
               s == Slice(d, p, n)
    <3>1. had \in Seq(Byte) /\ Len(had) = n /\ \A i \in 1..n : had[i] = d[p + i]
      BY <1>5, <2>1 DEF FromDisk
    <3>2. s \in Seq(Byte) /\ Len(s) = n /\ \A i \in 1..n : s[i] = d[p + i]
      <4>1. d \in Seq(Byte) /\ p \in Nat /\ p + n <= Len(d)
        BY <1>3, <1>9
      <4> HIDE DEF d, p
      <4> QED BY <4>1, SliceIs
    <3> HIDE DEF s, d, p
    <3>3. had = s
      BY <3>1, <3>2, BytesEqual
    <3> QED BY <3>3 DEF s, d, p
  <2>10. had \in Seq(Byte) /\ Len(had) = n
    BY <1>5, <2>1 DEF FromDisk
  <2>11. GotRight(g)
    BY <1>2, <1>3, <2>3, <2>9, <2>10 DEF GotRight
  <2> QED BY <2>3, <2>7, <2>8, <2>11 DEF ReadFrom
<1>11. CASE ~(n <= k)
  <2>1. m \in Nat /\ m # 0 /\ k + m = n /\ f.absPtr + k = f.os /\ k < n
    BY <1>1, <1>2, <1>11
  <2> HIDE DEF r, had, m
  <2>2. read = GenericRead(f, f.os, m, had)
    BY <1>1, <1>8, <1>11, <2>1
  <2> DEFINE v == GenericRead(f, f.os, m, had)
  <2>3. MovedOn(v, g, k + m, f.absPtr)
    <3>1. g = [v EXCEPT !.absPtr = @ + n, !.gotAt = f.absPtr]
      BY <1>7, <2>2
    <3> QED BY <2>1, <3>1 DEF MovedOn
  <2>4. f.os + m <= Len(f.disk) /\ m <= f.realSize - f.bufPtr /\ f.realSize - f.bufPtr \in Nat
    <3>1. f.os + m = f.absPtr + n
      BY <1>1, <1>3, <2>1
    <3>2. f.bufPtr <= f.os
      <4>1. f.os = f.bufPtr + Len(f.buf) /\ Len(f.buf) \in Nat
        BY <1>2, <1>3 DEF BufferEnd
      <4> QED BY <1>3, <4>1
    <3>3. f.absPtr + n <= Len(f.disk) /\ f.os + m <= f.realSize
      BY <1>9, <3>1
    <3>4. f.os \in Nat /\ f.bufPtr \in Nat /\ m \in Nat /\ f.realSize \in Nat
      BY <1>3, <1>9, <2>1
    <3>5. m <= f.realSize - f.bufPtr /\ f.realSize - f.bufPtr \in Nat
      BY <3>2, <3>3, <3>4
    <3> QED BY <3>1, <3>3, <3>5
  <2>5. \E size \in Nat : m <= size /\ HasLoaded(f, v, size, m, had)
    <3>0. BufferSize \in Nat
      BY FileAssumption
    <3>1. CASE m <= BufferSize
      <4> DEFINE z == NextBuffer(f)
      <4>1. z = IF BufferSize <= f.realSize - f.bufPtr THEN BufferSize ELSE f.realSize - f.bufPtr
        BY <2>4, <3>0, MinPairIs DEF NextBuffer
      <4>2. z \in Nat /\ m <= z /\ z <= BufferSize
        BY <2>4, <3>0, <3>1, <4>1
      <4>3. f.os + z <= Len(f.disk)
        BY <1>8, <1>9, <1>11, <2>1, <3>0, <3>1
      <4> HIDE DEF z
      <4>4. v = Loaded(f, f.os, z, m, had)
        BY <2>1, <3>1, <4>2 DEF GenericRead, SmallRead, z
      <4> HIDE DEF v
      <4>5. HasLoaded(f, v, z, m, had)
        BY <2>1, <4>2, <4>3, <4>4, LoadedIs
      <4> QED BY <4>2, <4>5
    <3>2. CASE ~(m <= BufferSize)
      <4>1. v = Loaded(f, f.os, m, m, had)
        BY <2>1, <2>4, <3>2 DEF GenericRead, BigRead
      <4> HIDE DEF v
      <4>2. m <= m
        BY <2>1
      <4>3. HasLoaded(f, v, m, m, had)
        BY <2>1, <2>4, <4>1, <4>2, LoadedIs
      <4> QED BY <2>1, <4>2, <4>3
    <3> QED BY <3>1, <3>2
  <2>6. PICK size \in Nat : m <= size /\ HasLoaded(f, v, size, m, had)
    BY <2>5
  <2> HIDE DEF v, k
  <2>7. k \in Nat /\ m \in Nat /\ f.absPtr + k = f.os
    BY <1>1, <2>1
  <2> QED BY <1>5, <2>3, <2>6, <2>7, LoadedHolds
<1> QED BY <1>10, <1>11

\* A file that is read is in sync and has its size, nothing was read of one that is written,
\* and one that was closed is in sync.
ModeHolds(f) ==
  /\ f.mode \in {"READ", "WRITE", "closed"}
  /\ f.mode = "READ" => ReadHolds(f)
  /\ f.mode = "WRITE" => f.got = <<>> /\ f.gotAt = 0
  /\ f.mode = "closed" => f.inSync

\* The inductive invariant of a file.
FileInv == FileHolds(file) /\ GotRight(file) /\ ModeHolds(file)

\* Nothing read is what any file has.
LEMMA GotNothing ==
  ASSUME NEW f, FileHolds(f), f.got = <<>>, f.gotAt = 0
  PROVE  GotRight(f)
<1> DEFINE s == f.ideal
           t == Slice(s, 0, 0)
<1>1. s \in Seq(Byte)
  BY DEF FileHolds, FileShape
<1> HIDE DEF s
<1>2. 0 \in Nat /\ 0 + 0 <= Len(s)
  BY <1>1
<1>3. t \in Seq(Byte) /\ Len(t) = 0
  BY <1>1, <1>2, SliceIs
<1>4. Len(<<>>) = 0
  OBVIOUS
<1> HIDE DEF t
<1>5. t = <<>>
  BY <1>3
<1>6. Len(f.got) = 0
  BY <1>4
<1> QED BY <1>5, <1>6 DEF GotRight, s, t

\* The same bytes n times.
LEMMA BytesOfOne ==
  ASSUME NEW n \in Nat, NEW byte \in Byte
  PROVE  [i \in 1..n |-> byte] \in Seq(Byte) /\ Len([i \in 1..n |-> byte]) = n
<1> DEFINE s == [i \in 1..n |-> byte]
<1>1. s \in [1..n -> Byte]
  OBVIOUS
<1> HIDE DEF s
<1>2. s \in Seq(Byte) /\ Len(s) = n
  BY <1>1, SequenceIs
<1> QED BY <1>2 DEF s

\* A write where a careful caller writes.
LEMMA WriteIs ==
  ASSUME FileHolds(file), NEW bytes \in Seq(Byte), CarefulWrite(Len(bytes)), NEW g, g = Write(file, bytes)
  PROVE  FileHolds(g) /\ Wrote(file, g, bytes) /\ g.absPtr <= g.absSize
<1>1. CASE InBuffer(file, Len(bytes))
  BY <1>1, WriteInBuffer
<1>2. CASE ~InBuffer(file, Len(bytes))
  <2>1. file.absPtr = BufferEnd(file) /\ file.absPtr <= file.absSize
    BY <1>2 DEF CarefulWrite
  <2> QED BY <1>2, <2>1, WritePastBuffer
<1> QED BY <1>1, <1>2

\* What a file that is written must be after a step.
LEMMA StillWritten ==
  ASSUME FileInv, file.mode = "WRITE", FileHolds(file'), file'.mode = file.mode, file'.got = file.got, file'.gotAt = file.gotAt
  PROVE  FileInv'
<1>1. file'.got = <<>> /\ file'.gotAt = 0 /\ file'.mode = "WRITE"
  BY DEF FileInv, ModeHolds
<1>2. GotRight(file')
  BY <1>1, GotNothing
<1>3. ModeHolds(file')
  BY <1>1 DEF ModeHolds
<1> QED BY <1>2, <1>3 DEF FileInv

\* read_to_bytes keeps the file as it should be, where a careful caller reads.
LEMMA FileReadInv ==
  ASSUME FileInv, ~AnyRead, NEW n \in Nat, FileRead(n)
  PROVE  FileInv'
<1>1. file.mode = "READ" /\ file' = Read(file, n) /\ file.absPtr + n <= file.absSize /\ CarefulRead(n)
  BY DEF FileRead
<1>2. FileHolds(file) /\ ReadHolds(file) /\ ReadsCarefully(file, n)
  BY <1>1 DEF FileInv, ModeHolds, CarefulRead, ReadsCarefully
<1>3. ReadFrom(file, file')
  BY <1>1, <1>2, ReadIs
<1>4. file'.mode = "READ" /\ FileHolds(file') /\ GotRight(file') /\ ReadHolds(file')
  BY <1>1, <1>3 DEF ReadFrom
<1>5. ModeHolds(file')
  BY <1>4 DEF ModeHolds
<1> QED BY <1>4, <1>5 DEF FileInv

\* write_bytes does.
LEMMA FileWriteInv ==
  ASSUME FileInv, NEW bytes \in Seq(Byte), FileWrite(bytes)
  PROVE  FileInv'
<1>1. file.mode = "WRITE" /\ CarefulWrite(Len(bytes)) /\ file' = Write(file, bytes)
  BY DEF FileWrite
<1>2. FileHolds(file') /\ Wrote(file, file', bytes)
  BY <1>1, WriteIs DEF FileInv
<1> QED BY <1>1, <1>2, StillWritten DEF Wrote

\* write_padding_bytes does.
LEMMA FilePadInv ==
  ASSUME FileInv, NEW byte \in Byte, NEW n \in Nat, n <= BufferSize, FilePad(byte, n)
  PROVE  FileInv'
<1>1. file.mode = "WRITE" /\ file.absPtr <= file.absSize /\ file' = Pad(file, byte, n)
  BY DEF FilePad
<1>2. FileHolds(file') /\ file'.mode = file.mode /\ file'.got = file.got /\ file'.gotAt = file.gotAt
  BY <1>1, PadIs DEF FileInv
<1> QED BY <1>1, <1>2, StillWritten

\* write_aligned_bytes does: after the bytes come those up to the next multiple of align.
LEMMA FileWriteAlignedInv ==
  ASSUME FileInv, NEW bytes \in Seq(Byte), NEW align \in 1..BufferSize + 1, FileWriteAligned(bytes, align)
  PROVE  FileInv'
<1> DEFINE w == Write(file, bytes)
           rest == Len(bytes) % align
<1>1. file.mode = "WRITE" /\ CarefulWrite(Len(bytes)) /\ file' = WriteAligned(file, bytes, align)
  BY DEF FileWriteAligned
<1>2. FileHolds(w) /\ Wrote(file, w, bytes) /\ w.absPtr <= w.absSize
  BY <1>1, WriteIs DEF FileInv
<1>3. w.mode = file.mode /\ w.got = file.got /\ w.gotAt = file.gotAt
  BY <1>2 DEF Wrote
<1>4. align - rest \in Nat /\ (rest # 0 => align - rest <= BufferSize)
  <2>1. Len(bytes) \in Nat /\ align \in Nat \ {0} /\ BufferSize \in Nat
    BY FileAssumption
  <2>2. rest \in 0..align - 1
    BY <2>1, PlaceIs
  <2> HIDE DEF rest
  <2> QED BY <2>1, <2>2
<1>5. file' = IF rest = 0 THEN w ELSE Pad(w, 0, align - rest)
  BY <1>1 DEF WriteAligned
<1> HIDE DEF w, rest
<1>6. CASE rest = 0
  <2>1. file' = w
    BY <1>5, <1>6
  <2> QED BY <1>1, <1>2, <1>3, <2>1, StillWritten
<1>7. CASE rest # 0
  <2>1. file' = Pad(w, 0, align - rest) /\ 0 \in Byte /\ align - rest <= BufferSize
    BY <1>4, <1>5, <1>7, ByteIs
  <2>2. FileHolds(file') /\ file'.mode = w.mode /\ file'.got = w.got /\ file'.gotAt = w.gotAt
    BY <1>2, <1>4, <2>1, PadIs
  <2> QED BY <1>1, <1>3, <2>2, StillWritten
<1> QED BY <1>6, <1>7

\* seek_from_start does, in the buffer.
LEMMA FileSeekInv ==
  ASSUME FileInv, NEW location \in Nat, FileSeek(location)
  PROVE  FileInv'
<1>1. /\ file' = [file EXCEPT !.absPtr = location] /\ DOMAIN file = Fields
      /\ location \in file.bufPtr..BufferEnd(file)
  BY DEF FileSeek, CarefulSeek, FileInv, FileHolds, FileShape
<1>2. /\ DOMAIN file' = Fields /\ file'.mode = file.mode /\ file'.failed = file.failed /\ file'.ideal = file.ideal
      /\ file'.got = file.got /\ file'.gotAt = file.gotAt /\ file'.absPtr = location /\ file'.absSize = file.absSize
      /\ file'.disk = file.disk /\ file'.realSize = file.realSize /\ file'.inSync = file.inSync
      /\ file'.os = file.os /\ file'.realPtr = file.realPtr /\ file'.bufPtr = file.bufPtr /\ file'.buf = file.buf
  BY <1>1 DEF Fields
<1>3. file.bufPtr <= location /\ location <= BufferEnd(file)
  <2>1. file.bufPtr \in Nat /\ file.buf \in Seq(Byte)
    BY DEF FileInv, FileHolds, FileShape
  <2> QED BY <1>1, <2>1 DEF BufferEnd
<1>4. FileShape(file')
  <2>1. FileShape(file)
    BY DEF FileInv, FileHolds
  <2> QED BY <1>2, <2>1 DEF FileShape
<1>5. FileHolds(file')
  <2>1. BufferEnd(file') = BufferEnd(file)
    BY <1>2 DEF BufferEnd
  <2> QED BY <1>2, <1>3, <1>4, <2>1 DEF FileInv, FileHolds
<1>6. GotRight(file')
  BY <1>2 DEF FileInv, GotRight
<1>7. ModeHolds(file')
  BY <1>2 DEF FileInv, ModeHolds, ReadHolds
<1> QED BY <1>5, <1>6, <1>7 DEF FileInv

\* sync_buffer by the caller, and by the destructor, does.
LEMMA FileFlushInv ==
  ASSUME FileInv, FileFlush \/ FileClose
  PROVE  FileInv'
<1> DEFINE g == SyncBuffer(file)
<1>1. FileHolds(g) /\ SameCaller(file, g) /\ g.inSync /\ (file.inSync => g = file)
  BY SyncIs DEF FileInv
<1> HIDE DEF g
<1>2. GotRight(g)
  BY <1>1 DEF FileInv, GotRight, SameCaller
<1>3. CASE FileFlush
  <2>1. file' = g
    BY <1>3 DEF FileFlush, g
  <2>2. ModeHolds(g)
    <3>1. CASE file.inSync
      BY <1>1, <3>1 DEF FileInv
    <3>2. CASE ~file.inSync
      <4>1. file.mode # "READ" /\ file.mode # "closed"
        BY <3>2 DEF FileInv, ModeHolds, ReadHolds
      <4> QED BY <1>1, <4>1 DEF FileInv, ModeHolds, SameCaller
    <3> QED BY <3>1, <3>2
  <2> QED BY <1>1, <1>2, <2>1, <2>2 DEF FileInv
<1>4. CASE FileClose
  <2>1. file' = [g EXCEPT !.mode = "closed"] /\ DOMAIN g = Fields
    BY <1>1, <1>4 DEF FileClose, g, FileHolds, FileShape
  <2>2. /\ DOMAIN file' = Fields /\ file'.mode = "closed" /\ file'.failed = g.failed /\ file'.ideal = g.ideal
        /\ file'.got = g.got /\ file'.gotAt = g.gotAt /\ file'.absPtr = g.absPtr /\ file'.absSize = g.absSize
        /\ file'.disk = g.disk /\ file'.realSize = g.realSize /\ file'.inSync = g.inSync
        /\ file'.os = g.os /\ file'.realPtr = g.realPtr /\ file'.bufPtr = g.bufPtr /\ file'.buf = g.buf
    BY <2>1 DEF Fields
  <2>3. FileHolds(file')
    <3>1. FileShape(file')
      BY <1>1, <2>2 DEF FileHolds, FileShape
    <3>2. BufferEnd(file') = BufferEnd(g)
      BY <2>2 DEF BufferEnd
    <3> QED BY <1>1, <2>2, <3>1, <3>2 DEF FileHolds
  <2>4. GotRight(file')
    BY <1>2, <2>2 DEF GotRight
  <2>5. ModeHolds(file')
    BY <1>1, <2>2 DEF ModeHolds
  <2> QED BY <2>3, <2>4, <2>5 DEF FileInv
<1> QED BY <1>3, <1>4

\* FileData: nothing is loaded.
LEMMA OpenedHolds ==
  ASSUME NEW mode, NEW content \in Seq(Byte), NEW f, f = Opened(mode, content)
  PROVE  FileHolds(f) /\ ReadHolds(f) /\ f.mode = mode /\ f.got = <<>> /\ f.gotAt = 0
<1>1. DOMAIN f = Fields /\ f.failed = ""
  BY DEF Opened, Fields
<1>2. /\ f.mode = mode /\ f.ideal = content
      /\ f.got = <<>> /\ f.gotAt = 0 /\ f.absPtr = 0 /\ f.absSize = Len(content)
      /\ f.disk = content /\ f.realSize = Len(content) /\ f.inSync = TRUE
      /\ f.os = 0 /\ f.realPtr = 0 /\ f.bufPtr = 0 /\ f.buf = <<>>
  BY DEF Opened
<1>3. <<>> \in Seq(Byte) /\ Len(<<>>) = 0 /\ Len(content) \in Nat
  OBVIOUS
<1>4. Overlaid(content, 0, <<>>) = content
  <2>1. 0 + Len(<<>>) <= Len(content) /\ \A i \in 1..Len(<<>>) : content[0 + i] = <<>>[i]
    BY <1>3
  <2> QED BY <1>3, <2>1, OverlaidSame, 0 \in Nat
<1>5. /\ f.os \in Nat /\ f.realPtr \in Nat /\ f.realSize \in Nat /\ f.absPtr \in Nat /\ f.absSize \in Nat /\ f.bufPtr \in Nat
      /\ f.disk \in Seq(Byte) /\ f.ideal \in Seq(Byte) /\ f.buf \in Seq(Byte)
  BY <1>2, <1>3, 0 \in Nat
<1>6. f.inSync \in BOOLEAN
  BY <1>2
<1>7. FileShape(f)
  <2>1. Len(f.buf) <= BufferSize
    BY <1>2, <1>3, FileAssumption
  <2> QED BY <1>1, <1>5, <1>6, <2>1 DEF FileShape
<1>8. BufferEnd(f) = 0
  BY <1>2, <1>3 DEF BufferEnd
<1>9. f.bufPtr <= f.absPtr /\ f.absPtr <= BufferEnd(f)
  BY <1>2, <1>8
<1>10. FileHolds(f)
  <2>1. f.ideal = Overlaid(f.disk, f.bufPtr, f.buf) /\ f.realPtr = f.os /\ f.disk = f.ideal /\ f.os = BufferEnd(f)
    BY <1>2, <1>4, <1>8
  <2> QED BY <1>7, <1>9, <2>1 DEF FileHolds
<1> QED BY <1>2, <1>10 DEF ReadHolds

\* open: what is read is what there is.
LEMMA FileInitInv == FileInit => FileInv
<1> SUFFICES ASSUME FileInit PROVE FileInv
  OBVIOUS
<1>1. PICK mode \in {"READ", "WRITE"}, size \in FileSizes \union {0} : file = Opened(mode, [i \in 1..size |-> i])
  BY DEF FileInit
<1> DEFINE content == [i \in 1..size |-> i]
<1>2. size \in Nat
  BY FileAssumption
<1>3. content \in Seq(Byte)
  <2>1. content \in [1..size -> Byte]
    BY <1>2 DEF Byte
  <2> HIDE DEF content
  <2> QED BY <1>2, <2>1, SequenceIs
<1> HIDE DEF content
<1>4. FileHolds(file) /\ ReadHolds(file) /\ file.mode = mode /\ file.got = <<>> /\ file.gotAt = 0
  BY <1>1, <1>3, OpenedHolds DEF content
<1>5. ModeHolds(file)
  BY <1>1, <1>4 DEF ModeHolds
<1> QED BY <1>4, <1>5, GotNothing DEF FileInv

\* Every step of a careful caller keeps the file as it should be.
LEMMA FileInductive == ~AnyRead /\ FileInv /\ [FileNext]_fileVars => FileInv'
<1> SUFFICES ASSUME ~AnyRead, FileInv, [FileNext]_fileVars PROVE FileInv'
  OBVIOUS
<1>0. BufferSize \in Nat /\ BufferSize + 1 \in Nat \ {0}
  BY FileAssumption
<1>1. ASSUME NEW n \in 1..BufferSize + 1, FileRead(n) PROVE FileInv'
  <2>1. n \in Nat
    BY <1>0
  <2> QED BY <1>1, <2>1, FileReadInv
<1>2. ASSUME NEW n \in 1..BufferSize + 1, NEW byte \in 1..2, FileWrite([i \in 1..n |-> byte]) PROVE FileInv'
  <2>1. n \in Nat /\ byte \in Byte
    <3>1. n \in Nat /\ byte \in {1, 2}
      BY <1>0
    <3> QED BY <3>1, ByteIs
  <2>2. [i \in 1..n |-> byte] \in Seq(Byte)
    BY <2>1, BytesOfOne
  <2> QED BY <1>2, <2>2, FileWriteInv
<1>3. ASSUME NEW n \in 1..BufferSize, FilePad(0, n) PROVE FileInv'
  <2>1. n \in Nat /\ n <= BufferSize
    BY <1>0
  <2> QED BY <1>3, <2>1, ByteIs, FilePadInv
<1>4. ASSUME NEW n \in 1..BufferSize, FileWriteAligned([i \in 1..n |-> 1], BufferSize + 1) PROVE FileInv'
  <2>1. n \in Nat /\ 1 \in Byte /\ BufferSize + 1 \in 1..BufferSize + 1
    BY <1>0, ByteIs
  <2>2. [i \in 1..n |-> 1] \in Seq(Byte)
    BY <2>1, BytesOfOne
  <2> QED BY <1>4, <2>1, <2>2, FileWriteAlignedInv
<1>5. ASSUME NEW location \in 0..FileMax, FileSeek(location) PROVE FileInv'
  <2>1. location \in Nat
    BY FileAssumption
  <2> QED BY <1>5, <2>1, FileSeekInv
<1>6. CASE FileFlush \/ FileClose
  BY <1>6, FileFlushInv
<1>7. CASE UNCHANGED fileVars
  BY <1>7 DEF fileVars, FileInv
<1> QED BY <1>1, <1>2, <1>3, <1>4, <1>5, <1>6, <1>7 DEF FileNext

\* What the invariant says of the types.
LEMMA FileInvTyped == FileInv => FileTypeOK
<1> SUFFICES ASSUME FileInv PROVE FileTypeOK
  OBVIOUS
<1>1. FileShape(file) /\ GotRight(file) /\ ModeHolds(file)
  BY DEF FileInv, FileHolds
<1>2. file.failed = "" /\ file.mode \in {"READ", "WRITE", "closed"} /\ file.inSync \in BOOLEAN
  BY <1>1 DEF FileShape, ModeHolds
<1>3. /\ file.disk \in Seq(Byte) /\ file.ideal \in Seq(Byte) /\ file.got \in Seq(Byte) /\ file.buf \in Seq(Byte)
      /\ Len(file.buf) <= BufferSize
      /\ {file.os, file.realPtr, file.realSize, file.absPtr, file.absSize, file.bufPtr, file.gotAt} \subseteq Nat
  BY <1>1 DEF FileShape, GotRight
<1> QED BY <1>2, <1>3 DEF FileTypeOK

\* So a file is what the caller wrote and read.
LEMMA FileInvAgrees == FileInv => FileAgrees
<1> SUFFICES ASSUME FileInv PROVE FileAgrees
  OBVIOUS
<1>1. FileHolds(file) /\ FileShape(file)
  BY DEF FileInv, FileHolds
<1>2. file.failed = "" /\ file.realPtr = file.os /\ file.inSync \in BOOLEAN
  BY <1>1 DEF FileHolds, FileShape
<1>3. CASE file.inSync
  <2>1. file.disk = file.ideal /\ Slice(file.disk, file.bufPtr, Len(file.buf)) = file.buf
    BY <1>1, <1>3, SyncedEnds DEF FileHolds
  <2> QED BY <1>2, <1>3, <2>1 DEF FileAgrees, FileInv, GotRight
<1>4. CASE ~file.inSync
  <2>1. Overlaid(file.disk, file.bufPtr, file.buf) = file.ideal /\ file.mode # "closed"
    BY <1>1, <1>4 DEF FileHolds, FileInv, ModeHolds
  <2> QED BY <1>2, <1>4, <2>1 DEF FileAgrees, FileInv, GotRight
<1> QED BY <1>3, <1>4

-----------------------------------------------------------------------------
(* Serialization *)

\* Dividing by w, then by b, is dividing by their product.
LEMMA NextDigit ==
  ASSUME NEW u \in Nat, NEW w \in Nat \ {0}, NEW b \in Nat \ {0}
  PROVE  u % (b * w) = (u % w) + ((u \div w) % b) * w
<1> DEFINE q == u \div w
           r == u % w
           p == q \div b
           s == q % b
           m == b * w
           t == r + s * w
<1>1. q \in Nat /\ r \in 0..w - 1 /\ u = q * w + r
  OBVIOUS
<1>2. p \in Nat /\ s \in 0..b - 1 /\ q = p * b + s
  BY <1>1
<1> HIDE DEF q, r, p, s
<1>3. m \in Nat \ {0}
  OBVIOUS
<1>4. u = p * m + t
  BY <1>1, <1>2
<1>5. t \in 0..m - 1
  <2>1. s * w <= (b - 1) * w
    BY <1>2
  <2>2. s * w \in Nat /\ (b - 1) * w = m - w
    BY <1>2
  <2> QED BY <1>1, <1>3, <2>1, <2>2
<1> HIDE DEF m, t
<1>6. u % m = t
  BY <1>2, <1>3, <1>4, <1>5
<1> QED BY <1>6 DEF m, t, q, r, s

\* The weights are the powers of Base.
LEMMA WeightIs ==
  /\ Weight \in [Nat -> Nat \ {0}] /\ Weight[0] = 1
  /\ \A n \in Nat : Weight[n + 1] = Base * Weight[n]
<1> DEFINE F(f) == [n \in Nat |-> IF n = 0 THEN 1 ELSE Base * f[n - 1]]
           P == Nat \ {0}
           G == [n \in Nat |-> [x \in P |-> Base * x]]
           W == Weight
<1>1. Base \in Nat /\ Base # 0
  BY SerialAssumption
<1>2. \E f : IsIteration(f, 1, G, P)
  <2>1. G \in [Nat -> [P -> P]] /\ 1 \in P
    BY <1>1
  <2> HIDE DEF G, P
  <2> QED BY <2>1, Iterates
<1>3. PICK f : f \in [Nat -> P] /\ f[0] = 1 /\ \A n \in Nat : f[n + 1] = Base * f[n]
  <2>1. PICK f : IsIteration(f, 1, G, P)
    BY <1>2
  <2>2. \A n \in Nat : G[n][f[n]] = Base * f[n]
    BY <2>1 DEF IsIteration
  <2> QED BY <2>1, <2>2 DEF IsIteration
<1>4. f = F(f)
  <2>1. ASSUME NEW n \in Nat, n # 0 PROVE f[n] = Base * f[n - 1]
    <3>1. n - 1 \in Nat /\ (n - 1) + 1 = n
      BY <2>1
    <3>2. f[(n - 1) + 1] = Base * f[n - 1]
      BY <1>3, <3>1
    <3> QED BY <3>1, <3>2
  <2>2. \A n \in Nat : f[n] = F(f)[n]
    BY <1>3, <2>1
  <2> QED BY <1>3, <2>2
<1>5. W = CHOOSE g : g = F(g)
  BY DEF Weight
<1>6. W = F(W)
  <2> HIDE DEF F, W
  <2> QED BY <1>4, <1>5
<1>7. W[0] = 1 /\ DOMAIN W = Nat
  <2> HIDE DEF W
  <2> QED BY <1>6
<1>8. ASSUME NEW n \in Nat PROVE W[n + 1] = Base * W[n]
  <2>1. n + 1 \in Nat /\ n + 1 # 0 /\ (n + 1) - 1 = n
    OBVIOUS
  <2>2. F(W)[n + 1] = Base * W[n]
    BY <2>1
  <2> HIDE DEF F, W
  <2> QED BY <1>6, <2>2
<1> HIDE DEF W
<1>9. \A n \in Nat : W[n] \in P
  <2> DEFINE T == {n \in Nat : W[n] \in P}
  <2>1. 0 \in T
    BY <1>7
  <2>2. ASSUME NEW n \in Nat, n \in T PROVE n + 1 \in T
    <3>1. Base * W[n] \in P
      BY <1>1, <2>2
    <3> QED BY <1>8, <2>2, <3>1
  <2>3. Nat \subseteq T
    <3> HIDE DEF T
    <3> QED BY <2>1, <2>2, SetInduction
  <2> QED BY <2>3
<1>10. W = [n \in Nat |-> W[n]]
  BY <1>6
<1>11. W \in [Nat -> P]
  BY <1>9, <1>10
<1> QED BY <1>7, <1>8, <1>11 DEF W

\* bytes are those of u, the least first.
BytesOfInteger(bytes, u, k) ==
  bytes \in Seq(Nat) /\ Len(bytes) = k /\ \A i \in 1..k : bytes[i] = (u \div Weight[i - 1]) % Base

\* Put together they are u.
LEMMA JointIs ==
  ASSUME NEW k \in Nat, NEW u \in Nat, u < Weight[k], NEW bytes, BytesOfInteger(bytes, u, k)
  PROVE  Joint(bytes) = u
<1> DEFINE F(f) == [n \in 0..k |-> IF n = 0 THEN 0 ELSE f[n - 1] + bytes[n] * Weight[n - 1]]
           W == [n \in 0..k |-> u % Weight[n]]
           V == CHOOSE f : f = F(f)
<1>1. Weight \in [Nat -> Nat \ {0}] /\ Weight[0] = 1 /\ Base \in Nat \ {0}
  BY WeightIs, SerialAssumption
<1>2. Joint(bytes) = V[k]
  BY DEF Joint, BytesOfInteger
<1>3. ASSUME NEW n \in 1..k
      PROVE  u % Weight[n] = (u % Weight[n - 1]) + bytes[n] * Weight[n - 1]
  <2>1. n - 1 \in Nat /\ (n - 1) + 1 = n
    OBVIOUS
  <2>2. Weight[(n - 1) + 1] = Base * Weight[n - 1]
    BY <2>1, WeightIs
  <2>3. Weight[n - 1] \in Nat \ {0}
    BY <1>1, <2>1
  <2>4. u % (Base * Weight[n - 1]) = (u % Weight[n - 1]) + ((u \div Weight[n - 1]) % Base) * Weight[n - 1]
    BY <1>1, <2>3, NextDigit
  <2>5. bytes[n] = (u \div Weight[n - 1]) % Base
    BY DEF BytesOfInteger
  <2> QED BY <2>1, <2>2, <2>4, <2>5
<1>4. u % Weight[0] = 0
  BY <1>1
<1>5. W = F(W)
  <2>1. ASSUME NEW n \in 0..k PROVE W[n] = F(W)[n]
    <3>1. CASE n = 0
      BY <1>4, <3>1
    <3>2. CASE n # 0
      <4>1. n \in 1..k /\ n - 1 \in 0..k
        BY <3>2
      <4>2. W[n] = u % Weight[n] /\ W[n - 1] = u % Weight[n - 1]
        BY <4>1
      <4>3. F(W)[n] = W[n - 1] + bytes[n] * Weight[n - 1]
        BY <3>2
      <4> QED BY <1>3, <4>1, <4>2, <4>3
    <3> QED BY <3>1, <3>2
  <2> QED BY <2>1
<1>6. V = F(V)
  <2> HIDE DEF F, W
  <2> QED BY <1>5
<1>7. V[0] = 0
  <2> HIDE DEF V
  <2> QED BY <1>6
<1>8. ASSUME NEW n \in 0..k, n + 1 \in 0..k PROVE V[n + 1] = V[n] + bytes[n + 1] * Weight[n]
  <2>1. n + 1 # 0 /\ (n + 1) - 1 = n
    OBVIOUS
  <2>2. F(V)[n + 1] = V[n] + bytes[n + 1] * Weight[n]
    BY <1>8, <2>1
  <2> HIDE DEF V
  <2> QED BY <1>6, <2>2
<1> HIDE DEF V, F, W
<1>9. \A n \in Nat : n <= k => V[n] = u % Weight[n]
  <2> DEFINE T == {n \in Nat : n <= k => V[n] = u % Weight[n]}
  <2>1. 0 \in T
    BY <1>4, <1>7
  <2>2. ASSUME NEW n \in Nat, n \in T PROVE n + 1 \in T
    <3> SUFFICES ASSUME n + 1 <= k PROVE V[n + 1] = u % Weight[n + 1]
      OBVIOUS
    <3>1. n \in 0..k /\ n + 1 \in 0..k /\ n + 1 \in 1..k /\ (n + 1) - 1 = n
      OBVIOUS
    <3>2. V[n] = u % Weight[n]
      BY <2>2, <3>1
    <3>3. u % Weight[n + 1] = (u % Weight[(n + 1) - 1]) + bytes[n + 1] * Weight[(n + 1) - 1]
      BY <1>3, <3>1
    <3>4. V[n + 1] = V[n] + bytes[n + 1] * Weight[n]
      BY <1>8, <3>1
    <3> QED BY <3>1, <3>2, <3>3, <3>4
  <2>3. Nat \subseteq T
    <3> HIDE DEF T
    <3> QED BY <2>1, <2>2, SetInduction
  <2> QED BY <2>3
<1>10. u % Weight[k] = u
  <2>1. Weight[k] \in Nat \ {0}
    BY <1>1
  <2> QED BY <2>1
<1> QED BY <1>2, <1>9, <1>10

Octet == 0..Base - 1

\* A sequence turned around, twice.
LEMMA ReverseIs ==
  ASSUME NEW S, NEW s \in Seq(S)
  PROVE  /\ Reverse(s) \in Seq(S) /\ Len(Reverse(s)) = Len(s)
         /\ \A i \in 1..Len(s) : Reverse(s)[i] = s[Len(s) - i + 1]
         /\ Reverse(Reverse(s)) = s
<1> DEFINE n == Len(s)
           r == Reverse(s)
           t == Reverse(r)
<1>1. n \in Nat /\ s \in [1..n -> S]
  BY LenProperties
<1>2. \A i \in 1..n : n - i + 1 \in 1..n
  BY <1>1
<1>3. r \in [1..n -> S] /\ \A i \in 1..n : r[i] = s[n - i + 1]
  BY <1>1, <1>2 DEF Reverse
<1> HIDE DEF n, r
<1>4. r \in Seq(S) /\ Len(r) = n
  BY <1>1, <1>3, SequenceIs
<1>5. t \in [1..n -> S] /\ \A i \in 1..n : t[i] = r[n - i + 1]
  BY <1>1, <1>2, <1>3, <1>4 DEF Reverse
<1> HIDE DEF t
<1>6. ASSUME NEW i \in 1..n PROVE t[i] = s[i]
  <2>1. n - i + 1 \in 1..n /\ n - (n - i + 1) + 1 = i
    BY <1>1
  <2> QED BY <1>3, <1>5, <2>1
<1>7. t = s
  BY <1>1, <1>5, <1>6
<1> QED BY <1>3, <1>4, <1>7 DEF n, r, t

\* The bytes of an integer below the weight of the next one are its own, in either order.
LEMMA IntegerBack ==
  ASSUME NEW k \in Nat, NEW u \in Nat, u < Weight[k]
  PROVE  /\ ToBytes(u, k) \in Seq(Octet) /\ Len(ToBytes(u, k)) = k
         /\ FromBytes(ToBytes(u, k)) = u
<1> DEFINE b == [i \in 1..k |-> (u \div Weight[i - 1]) % Base]
<1>1. ASSUME NEW i \in 1..k PROVE (u \div Weight[i - 1]) % Base \in Octet
  <2>1. i - 1 \in Nat
    OBVIOUS
  <2>2. Weight[i - 1] \in Nat \ {0}
    BY <2>1, WeightIs
  <2>3. u \div Weight[i - 1] \in Nat
    BY <2>2
  <2>4. Base \in Nat \ {0}
    BY SerialAssumption
  <2> HIDE DEF b
  <2> QED BY <2>3, <2>4 DEF Octet
<1>2. b \in [1..k -> Octet] /\ \A i \in 1..k : b[i] = (u \div Weight[i - 1]) % Base
  BY <1>1
<1> HIDE DEF b
<1>3. b \in Seq(Octet) /\ Len(b) = k
  BY <1>2, SequenceIs
<1>4. b \in Seq(Nat)
  <2>1. Octet \subseteq Nat
    BY SerialAssumption DEF Octet
  <2> QED BY <1>3, <2>1, SeqMonotonic
<1>5. Joint(b) = u
  <2>1. BytesOfInteger(b, u, k)
    BY <1>2, <1>3, <1>4 DEF BytesOfInteger
  <2> QED BY <2>1, JointIs
<1>6. ToBytes(u, k) = InOrder(b)
  BY DEF ToBytes, b
<1>7. InOrder(b) \in Seq(Octet) /\ Len(InOrder(b)) = k /\ InOrder(InOrder(b)) = b
  <2>1. Reverse(b) \in Seq(Octet) /\ Len(Reverse(b)) = k /\ Reverse(Reverse(b)) = b
    BY <1>3, ReverseIs
  <2> QED BY <1>3, <2>1 DEF InOrder
<1> QED BY <1>5, <1>6, <1>7 DEF FromBytes

\* The types of integers, and the others.
LEMMA UnsignedType ==
  ASSUME NEW t \in DOMAIN Unsigned
  PROVE  Unsigned[t] \in Nat \ {0} /\ SizeOf(t) = Unsigned[t] /\ t \notin DOMAIN Zeros
BY DEF Unsigned, SizeOf, Zeros

\* A signed type goes through the unsigned one of its size.
LEMMA SignedType ==
  ASSUME NEW t \in DOMAIN Signed
  PROVE  /\ Signed[t] \in DOMAIN Unsigned /\ t \notin DOMAIN Unsigned
         /\ SizeOf(t) = Unsigned[Signed[t]] /\ t \notin DOMAIN Zeros
BY DEF Unsigned, Signed, SizeOf, Zeros

\* A view of bytes is as long as its type says.
LEMMA ViewType ==
  ASSUME NEW t \in DOMAIN Views
  PROVE  /\ t \notin DOMAIN Unsigned /\ t \notin DOMAIN Signed /\ t \notin DOMAIN Zeros
         /\ SizeOf(t) = Views[t] /\ Views[t] \in Nat \ {0}
BY DEF Unsigned, Signed, SizeOf, Zeros, Views

\* So is a run of zeros.
LEMMA ZerosType ==
  ASSUME NEW t \in DOMAIN Zeros
  PROVE  /\ t \notin DOMAIN Unsigned /\ t \notin DOMAIN Signed
         /\ SizeOf(t) = Zeros[t] /\ Zeros[t] \in Nat \ {0}
BY DEF Unsigned, Signed, SizeOf, Zeros, Views

\* The modulus of a type is even.
LEMMA ModulusIs ==
  ASSUME NEW t \in DOMAIN Unsigned
  PROVE  \E h \in Nat \ {0} : Modulus(t) = 2 * h
<1> DEFINE k == Unsigned[t]
<1>1. k \in Nat \ {0}
  BY UnsignedType
<1> HIDE DEF k
<1>2. k - 1 \in Nat /\ (k - 1) + 1 = k
  BY <1>1
<1>3. Weight[(k - 1) + 1] = Base * Weight[k - 1] /\ Weight[k - 1] \in Nat \ {0}
  BY <1>2, WeightIs
<1>4. Base \in Nat \ {0} /\ Base % 2 = 0
  BY SerialAssumption
<1>5. PICK c \in Nat \ {0} : Base = 2 * c
  <2> DEFINE c == Base \div 2
  <2>1. c \in Nat /\ Base = 2 * c
    BY <1>4
  <2>2. c # 0
    BY <1>4, <2>1
  <2> QED BY <2>1, <2>2
<1> DEFINE w == Weight[k - 1]
<1>6. w \in Nat \ {0} /\ Weight[k] = Base * w
  BY <1>2, <1>3
<1> HIDE DEF w
<1>7. c * w \in Nat \ {0} /\ Weight[k] = 2 * (c * w)
  BY <1>5, <1>6
<1> QED BY <1>7 DEF Modulus, k

\* What an item is, with the bytes that are written of it: as many as its type has, from
\* which it is read back.
ReadsBack(item) ==
  /\ item = [type |-> item.type, value |-> item.value]
  /\ SizeOf(item.type) \in Nat \ {0}
  /\ Serialized(item) \in Seq(Octet) /\ Len(Serialized(item)) = SizeOf(item.type)
  /\ Deserialized(item.type, Serialized(item)) = item.value
  /\ item.type \in DOMAIN Zeros => Serialized(item) = [i \in 1..SizeOf(item.type) |-> 0]

\* An unsigned integer.
LEMMA UnsignedBack ==
  ASSUME NEW t \in DOMAIN Unsigned, NEW v \in Samples(Modulus(t)), NEW item, item = [type |-> t, value |-> v]
  PROVE  ReadsBack(item)
<1>1. v \in Nat /\ v < Weight[Unsigned[t]]
  <2>1. PICK h \in Nat \ {0} : Modulus(t) = 2 * h
    BY ModulusIs
  <2>2. v \in 0..2 * h - 1
    BY <2>1 DEF Samples
  <2>3. v \in Nat /\ v < 2 * h
    BY <2>2
  <2> QED BY <2>1, <2>3 DEF Modulus
<1>2. Unsigned[t] \in Nat \ {0} /\ SizeOf(t) = Unsigned[t] /\ t \notin DOMAIN Zeros
  BY UnsignedType
<1>3. item.type = t /\ item.value = v
  OBVIOUS
<1>4. Serialized(item) = ToBytes(v, Unsigned[t])
  BY <1>3 DEF Serialized
<1>5. Deserialized(t, Serialized(item)) = FromBytes(ToBytes(v, Unsigned[t]))
  BY <1>4 DEF Deserialized
<1>6. /\ ToBytes(v, Unsigned[t]) \in Seq(Octet) /\ Len(ToBytes(v, Unsigned[t])) = Unsigned[t]
      /\ FromBytes(ToBytes(v, Unsigned[t])) = v
  BY <1>1, <1>2, IntegerBack
<1>7. item = [type |-> item.type, value |-> item.value]
  BY <1>3
<1> QED BY <1>2, <1>3, <1>4, <1>5, <1>6, <1>7 DEF ReadsBack

\* A signed one is the remainder of its modulus, and comes back from it.
LEMMA CastBack ==
  ASSUME NEW h \in Nat \ {0}, NEW v \in 0..2 * h - 1
  PROVE  /\ (v - h) % (2 * h) \in 0..2 * h - 1
         /\ (2 * h) \div 2 = h
         /\ (IF (v - h) % (2 * h) < h THEN (v - h) % (2 * h) ELSE ((v - h) % (2 * h)) - 2 * h) = v - h
<1>1. (2 * h) \div 2 = h
  OBVIOUS
<1>2. CASE v < h
  <2>1. (v - h) % (2 * h) = v + h
    <3> DEFINE x == v + h
               m == 2 * h
    <3>1. x \in 0..m - 1 /\ m \in Nat \ {0} /\ v - h = (-1) * m + x
      BY <1>2
    <3> HIDE DEF x, m
    <3>2. ((-1) * m + x) % m = x
      BY <3>1
    <3> QED BY <3>1, <3>2 DEF x, m
  <2> QED BY <1>1, <1>2, <2>1
<1>3. CASE v >= h
  <2>1. v - h \in 0..2 * h - 1
    BY <1>3
  <2>2. (v - h) % (2 * h) = v - h
    BY <2>1
  <2> QED BY <1>1, <1>3, <2>1, <2>2
<1> QED BY <1>2, <1>3

\* A signed integer.
LEMMA SignedBack ==
  ASSUME NEW t \in DOMAIN Signed, NEW v \in Samples(Modulus(Signed[t])),
         NEW item, item = [type |-> t, value |-> v - Modulus(Signed[t]) \div 2]
  PROVE  ReadsBack(item)
<1> DEFINE s == Signed[t]
           k == Unsigned[s]
           M == Modulus(s)
           x == item.value
           u == x % M
<1>1. s \in DOMAIN Unsigned /\ t \notin DOMAIN Unsigned /\ SizeOf(t) = k /\ t \notin DOMAIN Zeros
  BY SignedType
<1>2. k \in Nat \ {0}
  BY <1>1, UnsignedType
<1>3. PICK h \in Nat \ {0} : M = 2 * h
  BY <1>1, ModulusIs
<1>4. v \in 0..2 * h - 1
  BY <1>3 DEF Samples
<1>5. item.type = t /\ x = v - M \div 2
  OBVIOUS
<1>6. x = v - h
  <2>1. (2 * h) \div 2 = h
    OBVIOUS
  <2> QED BY <1>3, <1>5, <2>1
<1>7. u \in 0..2 * h - 1 /\ M \div 2 = h /\ (IF u < M \div 2 THEN u ELSE u - M) = x
  <2> HIDE DEF M, x
  <2> QED BY <1>3, <1>4, <1>6, CastBack
<1>8. u \in Nat /\ u < Weight[k]
  <2>1. Weight[k] = 2 * h
    BY <1>3 DEF Modulus
  <2> HIDE DEF u, k
  <2> QED BY <1>7, <2>1
<1>9. Serialized(item) = ToBytes(u, k)
  BY <1>1, <1>5 DEF Serialized
<1>10. /\ ToBytes(u, k) \in Seq(Octet) /\ Len(ToBytes(u, k)) = k
       /\ FromBytes(ToBytes(u, k)) = u
  <2> HIDE DEF u, k
  <2> QED BY <1>2, <1>8, IntegerBack
<1>11. Deserialized(t, Serialized(item)) = IF u < M \div 2 THEN u ELSE u - M
  <2> HIDE DEF u, k
  <2> QED BY <1>1, <1>9, <1>10 DEF Deserialized
<1>12. item = [type |-> item.type, value |-> item.value]
  BY <1>5
<1> HIDE DEF u, k, M
<1> QED BY <1>1, <1>2, <1>5, <1>7, <1>9, <1>10, <1>11, <1>12 DEF ReadsBack

\* A view.
LEMMA ViewBack ==
  ASSUME NEW t \in DOMAIN Views, NEW v \in [1..Views[t] -> Octet], NEW item, item.type = t, item.value = v,
         item = [type |-> t, value |-> v]
  PROVE  ReadsBack(item)
<1>1. /\ t \notin DOMAIN Unsigned /\ t \notin DOMAIN Signed /\ t \notin DOMAIN Zeros
      /\ SizeOf(t) = Views[t] /\ Views[t] \in Nat \ {0}
  BY ViewType
<1>2. v \in Seq(Octet) /\ Len(v) = Views[t]
  BY <1>1, SequenceIs
<1>3. Serialized(item) = v /\ Deserialized(t, v) = v
  BY <1>1 DEF Serialized, Deserialized
<1> QED BY <1>1, <1>2, <1>3 DEF ReadsBack

\* A run of zeros.
LEMMA ZerosBack ==
  ASSUME NEW t \in DOMAIN Zeros, NEW item, item.type = t, item.value = [i \in 1..Zeros[t] |-> 0],
         item = [type |-> t, value |-> [i \in 1..Zeros[t] |-> 0]]
  PROVE  ReadsBack(item)
<1> DEFINE v == [i \in 1..Zeros[t] |-> 0]
<1>1. /\ t \notin DOMAIN Unsigned /\ t \notin DOMAIN Signed
      /\ SizeOf(t) = Zeros[t] /\ Zeros[t] \in Nat \ {0}
  BY ZerosType
<1>2. v \in [1..Zeros[t] -> Octet]
  BY SerialAssumption DEF Octet
<1>3. item.value = v
  OBVIOUS
<1> HIDE DEF v
<1>4. v \in Seq(Octet) /\ Len(v) = Zeros[t]
  BY <1>1, <1>2, SequenceIs
<1>5. Serialized(item) = v /\ Deserialized(t, v) = v
  BY <1>1, <1>3 DEF Serialized, Deserialized
<1>6. SizeOf(item.type) = Zeros[t]
  BY <1>1
<1> QED BY <1>1, <1>3, <1>4, <1>5, <1>6 DEF ReadsBack, v

\* Every item.
LEMMA ItemIs == ASSUME NEW item \in Items PROVE ReadsBack(item)
<1>1. CASE item \in UNION {{[type |-> t, value |-> v] : v \in Samples(Modulus(t))} : t \in DOMAIN Unsigned}
  <2>1. PICK t \in DOMAIN Unsigned : item \in {[type |-> t, value |-> v] : v \in Samples(Modulus(t))}
    BY <1>1
  <2>2. PICK v \in Samples(Modulus(t)) : item = [type |-> t, value |-> v]
    BY <2>1
  <2> QED BY <2>2, UnsignedBack
<1>2. CASE item \in UNION {{[type |-> t, value |-> v - Modulus(Signed[t]) \div 2] : v \in Samples(Modulus(Signed[t]))} : t \in DOMAIN Signed}
  <2>1. PICK t \in DOMAIN Signed :
          item \in {[type |-> t, value |-> v - Modulus(Signed[t]) \div 2] : v \in Samples(Modulus(Signed[t]))}
    BY <1>2
  <2>2. PICK v \in Samples(Modulus(Signed[t])) : item = [type |-> t, value |-> v - Modulus(Signed[t]) \div 2]
    BY <2>1
  <2> QED BY <2>2, SignedBack
<1>3. CASE item \in UNION {[type : {t}, value : [1..Views[t] -> 0..Base - 1]] : t \in DOMAIN Views}
  <2>1. PICK t \in DOMAIN Views : item \in [type : {t}, value : [1..Views[t] -> 0..Base - 1]]
    BY <1>3
  <2>2. /\ item.type = t /\ item.value \in [1..Views[t] -> Octet]
        /\ item = [type |-> t, value |-> item.value]
    BY <2>1 DEF Octet
  <2> QED BY <2>2, ViewBack
<1>4. CASE item \in {[type |-> t, value |-> [i \in 1..Zeros[t] |-> 0]] : t \in DOMAIN Zeros}
  <2>1. PICK t \in DOMAIN Zeros : item = [type |-> t, value |-> [i \in 1..Zeros[t] |-> 0]]
    BY <1>4
  <2>2. item.type = t /\ item.value = [i \in 1..Zeros[t] |-> 0]
    BY <2>1
  <2> QED BY <2>1, <2>2, ZerosBack
<1> QED BY <1>1, <1>2, <1>3, <1>4 DEF Items

\* Two runs of zeros are one.
LEMMA ZerosJoined ==
  ASSUME NEW a \in Nat, NEW b \in Nat, NEW view \in Seq(Octet)
  PROVE  (view \o [i \in 1..a |-> 0]) \o [i \in 1..b |-> 0] = view \o [i \in 1..(a + b) |-> 0]
<1> DEFINE zeros(k) == [i \in 1..k |-> 0]
<1>1. \A k \in Nat : zeros(k) \in Seq(Octet) /\ Len(zeros(k)) = k /\ \A i \in 1..k : zeros(k)[i] = 0
  <2>1. ASSUME NEW k \in Nat PROVE zeros(k) \in [1..k -> Octet]
    BY SerialAssumption DEF Octet
  <2> QED BY <2>1, SequenceIs
<1> HIDE DEF zeros
<1>2. a + b \in Nat /\ Len(view) \in Nat
  BY LenProperties
<1>3. zeros(a) \in Seq(Octet) /\ zeros(b) \in Seq(Octet) /\ zeros(a + b) \in Seq(Octet)
  BY <1>1, <1>2
<1>4. Len(zeros(a)) = a /\ Len(zeros(b)) = b /\ Len(zeros(a + b)) = a + b
  BY <1>1, <1>2
<1> DEFINE x == view \o zeros(a)
           y == x \o zeros(b)
           z == view \o zeros(a + b)
<1>5. /\ x \in Seq(Octet) /\ Len(x) = Len(view) + a
      /\ \A i \in 1..Len(view) + a : x[i] = IF i <= Len(view) THEN view[i] ELSE zeros(a)[i - Len(view)]
  <2> HIDE DEF y, z
  <2>1. /\ x \in Seq(Octet) /\ Len(x) = Len(view) + Len(zeros(a))
        /\ \A i \in 1..Len(view) + Len(zeros(a)) : x[i] = IF i <= Len(view) THEN view[i] ELSE zeros(a)[i - Len(view)]
    BY <1>3, ConcatProperties
  <2> HIDE DEF x
  <2> QED BY <1>4, <2>1
<1> HIDE DEF x
<1>6. /\ y \in Seq(Octet) /\ Len(y) = Len(view) + a + b
      /\ \A i \in 1..Len(view) + a + b : y[i] = IF i <= Len(view) + a THEN x[i] ELSE zeros(b)[i - (Len(view) + a)]
  <2> HIDE DEF z
  <2>1. /\ y \in Seq(Octet) /\ Len(y) = Len(x) + Len(zeros(b))
        /\ \A i \in 1..Len(x) + Len(zeros(b)) : y[i] = IF i <= Len(x) THEN x[i] ELSE zeros(b)[i - Len(x)]
    BY <1>3, <1>5, ConcatProperties
  <2> HIDE DEF y
  <2> QED BY <1>4, <1>5, <2>1
<1>7. /\ z \in Seq(Octet) /\ Len(z) = Len(view) + (a + b)
      /\ \A i \in 1..Len(view) + (a + b) : z[i] = IF i <= Len(view) THEN view[i] ELSE zeros(a + b)[i - Len(view)]
  <2> HIDE DEF y
  <2>1. /\ z \in Seq(Octet) /\ Len(z) = Len(view) + Len(zeros(a + b))
        /\ \A i \in 1..Len(view) + Len(zeros(a + b)) : z[i] = IF i <= Len(view) THEN view[i] ELSE zeros(a + b)[i - Len(view)]
    BY <1>3, ConcatProperties
  <2> HIDE DEF z
  <2> QED BY <1>4, <2>1
<1> HIDE DEF y, z
<1>8. ASSUME NEW i \in 1..Len(y) PROVE y[i] = z[i]
  <2>1. i \in 1..Len(view) + a + b /\ i \in 1..Len(view) + (a + b)
    BY <1>2, <1>6
  <2>2. CASE i <= Len(view)
    <3>1. i \in 1..Len(view) + a /\ i <= Len(view) + a
      BY <1>2, <2>1, <2>2
    <3> QED BY <1>5, <1>6, <1>7, <2>1, <2>2, <3>1
  <2>3. CASE Len(view) < i /\ i <= Len(view) + a
    <3>1. i \in 1..Len(view) + a /\ ~(i <= Len(view)) /\ i - Len(view) \in 1..a /\ i - Len(view) \in 1..(a + b)
      BY <1>2, <2>1, <2>3
    <3>2. y[i] = zeros(a)[i - Len(view)] /\ z[i] = zeros(a + b)[i - Len(view)]
      BY <1>5, <1>6, <1>7, <2>1, <2>3, <3>1
    <3> QED BY <1>1, <1>2, <3>1, <3>2
  <2>4. CASE i > Len(view) + a
    <3>1. ~(i <= Len(view)) /\ ~(i <= Len(view) + a) /\ i - (Len(view) + a) \in 1..b /\ i - Len(view) \in 1..(a + b)
      BY <1>2, <2>1, <2>4
    <3>2. y[i] = zeros(b)[i - (Len(view) + a)] /\ z[i] = zeros(a + b)[i - Len(view)]
      BY <1>6, <1>7, <2>1, <3>1
    <3> QED BY <1>1, <1>2, <3>1, <3>2
  <2> QED BY <1>2, <2>2, <2>3, <2>4
<1>9. y = z
  <2>1. Len(y) = Len(z)
    BY <1>2, <1>6, <1>7
  <2> QED BY <1>6, <1>7, <1>8, <2>1, SeqEqual
<1> QED BY <1>9 DEF y, x, z, zeros

\* SerializeZeros writes as many zeros as it is asked for.
LEMMA ZerosWritten ==
  ASSUME NEW n \in Nat, NEW view \in Seq(Octet)
  PROVE  WriteZeros(view, n) = view \o [i \in 1..n |-> 0]
<1> DEFINE Z == ZerosAtOnce
           q == n \div Z
           r == n % Z
           zeros(k) == [i \in 1..k |-> 0]
           F(f) == [i \in 0..q |-> IF i = 0 THEN view ELSE f[i - 1] \o zeros(Z)]
           V == CHOOSE f : f = F(f)
           W == [i \in 0..q |-> view \o zeros(i * Z)]
<1>1. Z \in Nat \ {0}
  BY SerialAssumption
<1> HIDE DEF Z
<1>2. q \in Nat /\ r \in Nat /\ n = q * Z + r
  BY <1>1
<1>3. WriteZeros(view, n) = V[q] \o zeros(r)
  BY DEF WriteZeros, WriteBytes, Z
<1> HIDE DEF q, r, V
<1>4. view \o zeros(0) = view
  <2>1. zeros(0) = << >>
    OBVIOUS
  <2> HIDE DEF zeros
  <2> QED BY <2>1
<1>5. ASSUME NEW i \in 0..q, i # 0 PROVE view \o zeros(i * Z) = (view \o zeros((i - 1) * Z)) \o zeros(Z)
  <2>1. (i - 1) * Z \in Nat /\ (i - 1) * Z + Z = i * Z
    BY <1>1, <1>2, <1>5
  <2>2. (view \o zeros((i - 1) * Z)) \o zeros(Z) = view \o zeros((i - 1) * Z + Z)
    BY <1>1, <2>1, ZerosJoined
  <2> HIDE DEF zeros
  <2> QED BY <2>1, <2>2
<1> HIDE DEF zeros
<1>6. W = F(W)
  <2>1. ASSUME NEW i \in 0..q PROVE W[i] = F(W)[i]
    <3>1. CASE i = 0
      <4>1. 0 * Z = 0
        BY <1>1
      <4>2. W[0] = view \o zeros(0 * Z)
        BY <1>2
      <4>3. F(W)[0] = view
        BY <1>2
      <4> HIDE DEF W, F
      <4> QED BY <1>4, <3>1, <4>1, <4>2, <4>3
    <3>2. CASE i # 0
      <4>1. i - 1 \in 0..q
        BY <1>2, <3>2
      <4>2. W[i] = view \o zeros(i * Z) /\ W[i - 1] = view \o zeros((i - 1) * Z)
        BY <4>1
      <4>3. F(W)[i] = W[i - 1] \o zeros(Z)
        BY <3>2
      <4> HIDE DEF W, F
      <4> QED BY <1>5, <3>2, <4>2, <4>3
    <3> QED BY <3>1, <3>2
  <2> QED BY <2>1
<1>7. V = F(V)
  <2> HIDE DEF F, W
  <2> QED BY <1>6 DEF V
<1>8. V[0] = view
  BY <1>2, <1>7
<1>9. ASSUME NEW i \in 0..q, i + 1 \in 0..q PROVE V[i + 1] = V[i] \o zeros(Z)
  <2>1. i + 1 # 0 /\ (i + 1) - 1 = i
    OBVIOUS
  <2>2. F(V)[i + 1] = V[i] \o zeros(Z)
    BY <1>9, <2>1
  <2> HIDE DEF F
  <2> QED BY <1>7, <2>2
<1> HIDE DEF F, W
<1>10. \A i \in Nat : i <= q => V[i] = view \o zeros(i * Z)
  <2> DEFINE T == {i \in Nat : i <= q => V[i] = view \o zeros(i * Z)}
  <2>1. 0 \in T
    <3>1. 0 * Z = 0
      BY <1>1
    <3> QED BY <1>4, <1>8, <3>1
  <2>2. ASSUME NEW i \in Nat, i \in T PROVE i + 1 \in T
    <3> SUFFICES ASSUME i + 1 <= q PROVE V[i + 1] = view \o zeros((i + 1) * Z)
      OBVIOUS
    <3>1. i \in 0..q /\ i + 1 \in 0..q /\ i + 1 # 0 /\ (i + 1) - 1 = i
      BY <1>2
    <3>2. V[i] = view \o zeros(i * Z)
      BY <2>2, <3>1
    <3>3. V[i + 1] = V[i] \o zeros(Z)
      BY <1>9, <3>1
    <3>4. view \o zeros((i + 1) * Z) = (view \o zeros(((i + 1) - 1) * Z)) \o zeros(Z)
      BY <1>5, <3>1
    <3> QED BY <3>1, <3>2, <3>3, <3>4
  <2>3. Nat \subseteq T
    <3> HIDE DEF T
    <3> QED BY <2>1, <2>2, SetInduction
  <2> QED BY <2>3
<1>11. V[q] = view \o zeros(q * Z)
  BY <1>2, <1>10
<1>12. q * Z \in Nat
  BY <1>1, <1>2
<1>13. (view \o zeros(q * Z)) \o zeros(r) = view \o zeros(n)
  <2>1. (view \o zeros(q * Z)) \o zeros(r) = view \o zeros(q * Z + r)
    BY <1>2, <1>12, ZerosJoined DEF zeros
  <2> QED BY <1>2, <2>1
<1> QED BY <1>3, <1>11, <1>13 DEF zeros

\* The bytes of an item lie behind the first at bytes.
LiesAt(bytes, at, b) == \A k \in 1..Len(b) : bytes[at + k] = b[k]

\* n items were written, and at is where each ends and the next begins; r were read.
SerHolds(n, r, at) ==
  /\ serOrder \in {"LittleEndian", "BigEndian"}
  /\ n \in Nat /\ r \in 0..n /\ serItems \in [1..n -> Items]
  /\ at \in [0..n -> Nat] /\ at[0] = 0 /\ at[n] <= SerialSize
  /\ serBytes \in [1..at[n] -> Octet]
  /\ \A i \in 0..n : at[i] <= at[n]
  /\ \A i \in 1..n : at[i] = at[i - 1] + SizeOf(serItems[i].type)
  /\ \A i \in 1..n : LiesAt(serBytes, at[i - 1], Serialized(serItems[i]))
  /\ serRead = [i \in 1..r |-> serItems[i]]
  /\ serRest = [k \in 1..at[n] - at[r] |-> serBytes[at[r] + k]]

SerInv == \E n, r, at : SerHolds(n, r, at)

\* Nothing is written at first.
LEMMA SerInitInv == SerialInit => SerInv
<1> SUFFICES ASSUME SerialInit PROVE SerHolds(0, 0, [i \in 0..0 |-> 0])
  BY DEF SerInv
<1> DEFINE at == [i \in 0..0 |-> 0]
<1>1. at \in [0..0 -> Nat] /\ at[0] = 0 /\ \A i \in 0..0 : at[i] <= at[0]
  OBVIOUS
<1> HIDE DEF at
<1>2. 1..0 = {} /\ 1..at[0] = {} /\ 1..at[0] - at[0] = {} /\ 0 <= SerialSize
  BY <1>1, SerialAssumption
<1>3. serBytes \in [1..at[0] -> Octet] /\ serItems \in [1..0 -> Items]
  BY <1>2 DEF SerialInit
<1>4. serRead = [i \in 1..0 |-> serItems[i]] /\ serRest = [k \in 1..at[0] - at[0] |-> serBytes[at[0] + k]]
  BY <1>2 DEF SerialInit
<1>5. SerHolds(0, 0, at)
  BY <1>1, <1>2, <1>3, <1>4 DEF SerialInit, SerHolds
<1> QED BY <1>5 DEF at

\* The bytes of an item are written behind the others, a run of zeros too.
LEMMA SerialWritten ==
  ASSUME NEW item \in Items, NEW m \in Nat, serBytes \in [1..m -> Octet], SerialWrite(item)
  PROVE  /\ serBytes' \in [1..m + SizeOf(item.type) -> Octet]
         /\ \A k \in 1..m : serBytes'[k] = serBytes[k]
         /\ LiesAt(serBytes', m, Serialized(item))
<1> DEFINE b == Serialized(item)
           size == SizeOf(item.type)
           c == serBytes \o b
<1>1. b \in Seq(Octet) /\ Len(b) = size /\ size \in Nat
  BY ItemIs DEF ReadsBack
<1>2. serBytes \in Seq(Octet) /\ Len(serBytes) = m
  BY SequenceIs
<1>3. serBytes' = c
  <2>1. CASE item.type \in DOMAIN Zeros
    <3>1. b = [i \in 1..size |-> 0]
      BY <2>1, ItemIs DEF ReadsBack
    <3>2. serBytes' = WriteZeros(serBytes, size)
      BY <2>1 DEF SerialWrite
    <3> HIDE DEF b, size
    <3> QED BY <1>1, <1>2, <3>1, <3>2, ZerosWritten
  <2>2. CASE item.type \notin DOMAIN Zeros
    BY <2>2 DEF SerialWrite, WriteBytes
  <2> QED BY <2>1, <2>2
<1> HIDE DEF b, size
<1>4. /\ c \in Seq(Octet) /\ Len(c) = Len(serBytes) + Len(b)
      /\ \A i \in 1..Len(serBytes) + Len(b) : c[i] = IF i <= Len(serBytes) THEN serBytes[i] ELSE b[i - Len(serBytes)]
  BY <1>1, <1>2, ConcatProperties
<1> HIDE DEF c
<1>5. c \in [1..m + size -> Octet]
  <2>1. Len(c) = m + size /\ m + size \in Nat
    BY <1>1, <1>2, <1>4
  <2> QED BY <1>4, <2>1, SequenceIs
<1>6. ASSUME NEW k \in 1..m PROVE c[k] = serBytes[k]
  <2>1. k \in 1..m + size /\ k <= m
    BY <1>1
  <2> QED BY <1>1, <1>2, <1>4, <2>1
<1>7. ASSUME NEW k \in 1..size PROVE c[m + k] = b[k]
  <2>1. m + k \in 1..m + size /\ ~(m + k <= m) /\ (m + k) - m = k
    BY <1>1
  <2> QED BY <1>1, <1>2, <1>4, <2>1
<1> QED BY <1>1, <1>3, <1>5, <1>6, <1>7 DEF LiesAt, b, size

\* A write.
LEMMA SerialWriteInv ==
  ASSUME SerInv, NEW item \in Items, SerialWrite(item)
  PROVE  SerInv'
<1>1. PICK n, r, at : SerHolds(n, r, at)
  BY DEF SerInv
<1>2. /\ n \in Nat /\ r \in 0..n /\ at \in [0..n -> Nat] /\ at[0] = 0 /\ \A i \in 0..n : at[i] <= at[n]
      /\ serItems \in [1..n -> Items] /\ serBytes \in [1..at[n] -> Octet]
  BY <1>1 DEF SerHolds
<1>3. serOrder' = serOrder /\ serRest' = serBytes' /\ serRead' = serRead /\ serItems' = Append(serItems, item)
  BY DEF SerialWrite
<1>4. r = 0
  <2>1. serRead = [i \in 1..r |-> serItems[i]] /\ serRead = <<>>
    BY <1>1 DEF SerHolds, SerialWrite
  <2>2. DOMAIN serRead = 1..r /\ DOMAIN serRead = {}
    BY <2>1
  <2> QED BY <1>2, <2>2
<1> DEFINE size == SizeOf(item.type)
           m == at[n]
           at2 == [i \in 0..n + 1 |-> IF i <= n THEN at[i] ELSE m + size]
<1>5. size \in Nat /\ m \in Nat
  BY <1>2, ItemIs DEF ReadsBack
<1>6. m + size <= SerialSize
  <2>1. serBytes \in Seq(Octet) /\ Len(serBytes) = m
    BY <1>2, <1>5, SequenceIs
  <2> QED BY <2>1 DEF SerialWrite
<1>7. /\ serBytes' \in [1..m + size -> Octet] /\ \A k \in 1..m : serBytes'[k] = serBytes[k]
      /\ LiesAt(serBytes', m, Serialized(item))
  BY <1>2, <1>5, SerialWritten
<1>8. /\ serItems' \in [1..n + 1 -> Items] /\ serItems'[n + 1] = item
      /\ \A i \in 1..n : serItems'[i] = serItems[i]
  <2>1. serItems \in Seq(Items) /\ Len(serItems) = n
    BY <1>2, SequenceIs
  <2>2. n + 1 \in Nat
    BY <1>2
  <2>3. /\ serItems' \in Seq(Items) /\ Len(serItems') = n + 1 /\ serItems'[n + 1] = item
        /\ \A i \in 1..n : serItems'[i] = serItems[i]
    BY <1>3, <2>1, AppendProperties
  <2> QED BY <2>2, <2>3, SequenceIs
<1> HIDE DEF size, m
<1>9. /\ at2 \in [0..n + 1 -> Nat] /\ at2[0] = 0 /\ at2[n + 1] = m + size
      /\ \A i \in 0..n : at2[i] = at[i]
  <2>1. \A i \in 0..n + 1 : (IF i <= n THEN at[i] ELSE m + size) \in Nat
    BY <1>2, <1>5
  <2> QED BY <1>2, <1>5, <2>1
<1> HIDE DEF at2
<1>10. \A i \in 0..n + 1 : at2[i] <= at2[n + 1]
  BY <1>2, <1>5, <1>9 DEF m
<1>11. ASSUME NEW i \in 1..n + 1
       PROVE  /\ at2[i] = at2[i - 1] + SizeOf(serItems'[i].type)
              /\ LiesAt(serBytes, at2[i - 1], Serialized(serItems[i]))'
  <2>1. i - 1 \in 0..n
    BY <1>2
  <2>2. CASE i = n + 1
    <3>1. i - 1 = n /\ at2[i - 1] = m
      BY <1>2, <1>9, <2>2 DEF m
    <3>2. Serialized(serItems[i])' = Serialized(item)
      BY <1>3, <1>8, <2>2 DEF Serialized, ToBytes, InOrder
    <3> QED BY <1>7, <1>8, <1>9, <2>2, <3>1, <3>2 DEF size
  <2>3. CASE i \in 1..n
    <3>1. serItems'[i] = serItems[i] /\ i \in 0..n /\ at2[i] = at[i] /\ at2[i - 1] = at[i - 1]
      BY <1>8, <1>9, <2>1, <2>3
    <3>2. at[i] = at[i - 1] + SizeOf(serItems[i].type) /\ LiesAt(serBytes, at[i - 1], Serialized(serItems[i]))
      BY <1>1, <2>3 DEF SerHolds
    <3>3. Serialized(serItems[i])' = Serialized(serItems[i])
      BY <1>3, <3>1 DEF Serialized, ToBytes, InOrder
    <3> DEFINE b == Serialized(serItems[i])
               a == at[i - 1]
    <3>4. b \in Seq(Octet) /\ Len(b) = SizeOf(serItems[i].type) /\ Len(b) \in Nat
      BY <1>2, <2>3, ItemIs DEF ReadsBack
    <3>5. a \in Nat /\ a + Len(b) <= m
      BY <1>2, <2>1, <3>1, <3>2, <3>4 DEF m
    <3>6. LiesAt(serBytes, a, b)
      BY <3>2
    <3> HIDE DEF b, a
    <3>7. ASSUME NEW k \in 1..Len(b) PROVE serBytes'[a + k] = b[k]
      <4>1. a + k \in 1..m
        BY <1>5, <3>4, <3>5
      <4> QED BY <1>7, <3>6, <4>1 DEF LiesAt
    <3>8. LiesAt(serBytes', a, b)
      BY <3>7 DEF LiesAt
    <3> QED BY <3>1, <3>2, <3>3, <3>8 DEF a, b
  <2> QED BY <1>2, <2>2, <2>3
<1>12. serRead' = [i \in 1..0 |-> serItems'[i]]
  <2>1. 1..0 = {}
    OBVIOUS
  <2> QED BY <1>3, <2>1 DEF SerialWrite
<1>13. serRest' = [k \in 1..at2[n + 1] - at2[0] |-> serBytes'[at2[0] + k]]
  <2>1. at2[n + 1] - at2[0] = m + size /\ \A k \in 1..m + size : at2[0] + k = k
    BY <1>5, <1>9
  <2>2. serBytes' = [k \in 1..m + size |-> serBytes'[k]]
    BY <1>7
  <2> QED BY <1>3, <2>1, <2>2
<1>14. serOrder' \in {"LittleEndian", "BigEndian"}
  BY <1>1, <1>3 DEF SerHolds
<1>15. n + 1 \in Nat /\ 0 \in 0..n + 1
  BY <1>2
<1>16. SerHolds(n + 1, 0, at2)'
  BY <1>6, <1>7, <1>8, <1>9, <1>10, <1>11, <1>12, <1>13, <1>14, <1>15 DEF SerHolds
<1> QED BY <1>16 DEF SerInv

\* A read, by the type of the next item or by one too large.
LEMMA SerialReadInv ==
  ASSUME SerInv, NEW other \in Items, SerialRead(other.type)
  PROVE  SerInv'
<1>1. PICK n, r, at : SerHolds(n, r, at)
  BY DEF SerInv
<1>2. /\ n \in Nat /\ r \in 0..n /\ at \in [0..n -> Nat] /\ \A i \in 0..n : at[i] <= at[n]
      /\ serItems \in [1..n -> Items] /\ serBytes \in [1..at[n] -> Octet]
  BY <1>1 DEF SerHolds
<1>3. serOrder' = serOrder /\ serBytes' = serBytes /\ serItems' = serItems
  BY DEF SerialRead
<1>4. serRead = [i \in 1..r |-> serItems[i]] /\ serRest = [k \in 1..at[n] - at[r] |-> serBytes[at[r] + k]]
  BY <1>1 DEF SerHolds
<1> DEFINE l == at[n] - at[r]
           a == at[r]
<1>5. l \in Nat /\ a \in Nat /\ a + l = at[n]
  BY <1>2
<1>6. serRest \in [1..l -> Octet]
  <2>1. \A k \in 1..l : a + k \in 1..at[n]
    BY <1>5
  <2>2. serRest = [k \in 1..l |-> serBytes[a + k]]
    BY <1>4
  <2> HIDE DEF l, a
  <2> QED BY <1>2, <2>1, <2>2
<1>7. serRead \in [1..r -> Items]
  <2>1. \A i \in 1..r : i \in 1..n
    BY <1>2
  <2> QED BY <1>2, <1>4, <2>1
<1>8. Len(serItems) = n /\ Len(serRead) = r /\ serRead \in Seq(Items) /\ serRest \in Seq(Octet) /\ Len(serRest) = l
  <2>1. r \in Nat
    BY <1>2
  <2> HIDE DEF l, a
  <2> QED BY <1>2, <1>5, <1>6, <1>7, <2>1, SequenceIs
<1>9. r < n /\ r + 1 \in 1..n /\ r + 1 \in 0..n /\ (r + 1) - 1 = r
  BY <1>2, <1>8 DEF SerialRead
<1> DEFINE item == serItems[r + 1]
           b == Serialized(item)
           type == other.type
           size == SizeOf(type)
<1>10. item \in Items /\ ReadsBack(item) /\ ReadsBack(other)
  BY <1>2, <1>9, ItemIs
<1>11. size \in Nat \ {0} /\ b \in Seq(Octet) /\ Len(b) = SizeOf(item.type)
  BY <1>10 DEF ReadsBack
<1>12. at[r + 1] = a + SizeOf(item.type) /\ at[r + 1] <= a + l /\ LiesAt(serBytes, a, b)
  BY <1>1, <1>5, <1>9 DEF SerHolds
<1>13. CASE size > l
  <2>1. serRest' = serRest /\ serRead' = serRead
    BY <1>8, <1>13 DEF SerialRead, SerialDeserialize
  <2>2. \A i \in 1..n : Serialized(serItems[i])' = Serialized(serItems[i])
    BY <1>3 DEF Serialized, ToBytes, InOrder
  <2>3. SerHolds(n, r, at)'
    BY <1>1, <1>3, <2>1, <2>2 DEF SerHolds
  <2> QED BY <2>3 DEF SerInv
<1>14. CASE size <= l
  <2>1. type = item.type
    <3>1. type = item.type \/ size > l
      BY <1>8 DEF SerialRead
    <3> HIDE DEF type, item, size, l
    <3> QED BY <1>5, <1>11, <1>14, <3>1
  <2>2. size = SizeOf(item.type) /\ Len(b) = size
    BY <1>11, <2>1
  <2>3. ~(l < size)
    BY <1>5, <1>11, <1>14
  <2>4. /\ serRest' = SubSeq(serRest, size + 1, l)
        /\ serRead' = Append(serRead, [type |-> type, value |-> Deserialized(type, SubSeq(serRest, 1, size))])
    BY <1>8, <2>3 DEF SerialRead, SerialDeserialize
  <2> DEFINE part == SubSeq(serRest, 1, size)
             rest == SubSeq(serRest, size + 1, l)
  <2>5. /\ part \in Seq(Octet) /\ Len(part) = size
        /\ \A i \in 1..size : part[i] = serRest[i]
    <3> HIDE DEF l, size
    <3>1. \A i \in 1..size : serRest[i] \in Octet
      BY <1>5, <1>6, <1>11, <1>14
    <3>2. 1 \in Int /\ size \in Int /\ 1 <= size /\ size - 1 + 1 = size /\ \A i \in 1..size : 1 + i - 1 = i
      BY <1>11
    <3>3. /\ part \in Seq(Octet) /\ Len(part) = IF 1 <= size THEN size - 1 + 1 ELSE 0
          /\ \A i \in 1..size - 1 + 1 : part[i] = serRest[1 + i - 1]
      BY <3>1, <3>2, SubSeqProperties
    <3> HIDE DEF part
    <3> QED BY <3>2, <3>3
  <2>6. /\ rest \in Seq(Octet) /\ Len(rest) = l - size
        /\ \A i \in 1..l - size : rest[i] = serRest[size + i]
    <3> HIDE DEF l, size
    <3>1. \A i \in size + 1..l : serRest[i] \in Octet
      BY <1>5, <1>6, <1>11, <1>14
    <3>2. size + 1 \in Int /\ l \in Int /\ l - (size + 1) + 1 = l - size /\ \A i \in 1..l - size : (size + 1) + i - 1 = size + i
      BY <1>5, <1>11
    <3>3. /\ rest \in Seq(Octet) /\ Len(rest) = IF size + 1 <= l THEN l - (size + 1) + 1 ELSE 0
          /\ \A i \in 1..l - (size + 1) + 1 : rest[i] = serRest[(size + 1) + i - 1]
      BY <3>1, <3>2, SubSeqProperties
    <3> HIDE DEF rest
    <3> QED BY <1>5, <1>11, <1>14, <3>2, <3>3
  <2> HIDE DEF part, rest
  <2>7. \A k \in 1..l : serRest[k] = serBytes[a + k]
    BY <1>4
  <2>8. part = b
    <3>1. ASSUME NEW i \in 1..Len(part) PROVE part[i] = b[i]
      <4> HIDE DEF l, size, a, b
      <4>1. i \in 1..size /\ i \in 1..l /\ i \in 1..Len(b)
        BY <1>5, <1>11, <1>14, <2>2, <2>5
      <4> QED BY <1>12, <2>5, <2>7, <4>1 DEF LiesAt
    <3> HIDE DEF b, size
    <3> QED BY <1>11, <2>2, <2>5, <3>1, SeqEqual
  <2>9. serRead' = Append(serRead, item)
    <3>1. Deserialized(item.type, b) = item.value /\ item = [type |-> item.type, value |-> item.value]
      BY <1>10 DEF ReadsBack
    <3>2. [type |-> type, value |-> Deserialized(type, part)] = item
      <4> HIDE DEF b, item, type
      <4> QED BY <2>1, <2>8, <3>1
    <3> QED BY <2>4, <3>2 DEF part
  <2>10. serRead' = [i \in 1..r + 1 |-> serItems[i]]
    <3>1. /\ serRead' \in Seq(Items) /\ Len(serRead') = r + 1 /\ serRead'[r + 1] = item
          /\ \A i \in 1..r : serRead'[i] = serRead[i]
      <4> HIDE DEF item
      <4> QED BY <1>8, <1>10, <2>9, AppendProperties
    <3>2. serRead' \in [1..r + 1 -> Items]
      BY <1>2, <3>1, SequenceIs
    <3>3. ASSUME NEW i \in 1..r + 1 PROVE serRead'[i] = serItems[i]
      <4>1. CASE i = r + 1
        BY <3>1, <4>1
      <4>2. CASE i \in 1..r
        <5>1. serRead[i] = serItems[i]
          BY <1>4, <4>2
        <5> HIDE DEF item
        <5> QED BY <3>1, <4>2, <5>1
      <4>3. i = r + 1 \/ i \in 1..r
        BY <1>2
      <4> QED BY <4>1, <4>2, <4>3
    <3> QED BY <3>2, <3>3
  <2>11. at[r + 1] = a + size /\ at[n] - at[r + 1] = l - size /\ l - size \in Nat
    <3>1. at[r + 1] = a + size
      BY <1>12, <2>2
    <3> HIDE DEF size, l, a
    <3> QED BY <1>5, <1>11, <1>14, <3>1
  <2>12. serRest' = [k \in 1..l - size |-> serBytes[at[r + 1] + k]]
    <3> HIDE DEF size, l, a
    <3>1. serRest' = rest
      BY <2>4 DEF rest
    <3>2. rest \in [1..l - size -> Octet]
      BY <2>6, <2>11, SequenceIs
    <3>3. ASSUME NEW k \in 1..l - size PROVE rest[k] = serBytes[at[r + 1] + k]
      <4>1. size + k \in 1..l /\ a + (size + k) = (a + size) + k
        BY <1>5, <1>11, <1>14
      <4> QED BY <2>6, <2>7, <2>11, <4>1
    <3> QED BY <3>1, <3>2, <3>3
  <2>13. \A i \in 1..n : Serialized(serItems[i])' = Serialized(serItems[i])
    BY <1>3 DEF Serialized, ToBytes, InOrder
  <2>14. serRest' = [k \in 1..at[n] - at[r + 1] |-> serBytes'[at[r + 1] + k]]
    BY <1>3, <2>11, <2>12
  <2>15. serRead' = [i \in 1..r + 1 |-> serItems'[i]]
    BY <1>3, <2>10
  <2>16. SerHolds(n, r + 1, at)'
    <3> HIDE DEF size, l, a
    <3> QED BY <1>1, <1>3, <1>9, <2>13, <2>14, <2>15 DEF SerHolds
  <2> QED BY <2>16 DEF SerInv
<1> QED BY <1>5, <1>11, <1>13, <1>14

\* Every step of the serializers keeps what was written.
LEMMA SerialInductive == SerInv /\ [SerialNext]_serVars => SerInv'
<1> SUFFICES ASSUME SerInv, [SerialNext]_serVars PROVE SerInv'
  OBVIOUS
<1>1. CASE UNCHANGED serVars
  <2>1. PICK n, r, at : SerHolds(n, r, at)
    BY DEF SerInv
  <2>2. UNCHANGED <<serOrder, serBytes, serItems, serRest, serRead>>
    BY <1>1 DEF serVars
  <2>3. \A i \in 1..n : Serialized(serItems[i])' = Serialized(serItems[i])
    BY <2>2 DEF Serialized, ToBytes, InOrder
  <2>4. SerHolds(n, r, at)'
    BY <2>1, <2>2, <2>3 DEF SerHolds
  <2> QED BY <2>4 DEF SerInv
<1>2. ASSUME NEW item \in Items, SerialWrite(item) PROVE SerInv'
  BY <1>2, SerialWriteInv
<1>3. ASSUME NEW item \in Items, SerialRead(item.type) PROVE SerInv'
  BY <1>3, SerialReadInv
<1> QED BY <1>1, <1>2, <1>3 DEF SerialNext

\* So what is read is what was written.
LEMMA SerInvBack == SerInv => SerialTypeOK /\ RoundTrip
<1> SUFFICES ASSUME SerInv PROVE SerialTypeOK /\ RoundTrip
  OBVIOUS
<1>1. PICK n, r, at : SerHolds(n, r, at)
  BY DEF SerInv
<1>2. /\ n \in Nat /\ r \in 0..n /\ at \in [0..n -> Nat] /\ \A i \in 0..n : at[i] <= at[n]
      /\ serItems \in [1..n -> Items] /\ serBytes \in [1..at[n] -> Octet] /\ at[n] <= SerialSize
  BY <1>1 DEF SerHolds
<1>3. serRead = [i \in 1..r |-> serItems[i]] /\ serRest = [k \in 1..at[n] - at[r] |-> serBytes[at[r] + k]]
  BY <1>1 DEF SerHolds
<1> DEFINE m == at[n]
           a == at[r]
           l == m - a
<1>4. l \in Nat /\ a \in Nat /\ m \in Nat /\ a + l = m
  BY <1>2
<1>5. serRest \in [1..l -> Octet] /\ \A k \in 1..l : serRest[k] = serBytes[a + k]
  <2>1. serRest = [k \in 1..l |-> serBytes[a + k]] /\ serBytes \in [1..m -> Octet]
    BY <1>2, <1>3
  <2> HIDE DEF l, a, m
  <2>2. \A k \in 1..l : a + k \in 1..m
    BY <1>4
  <2> QED BY <2>1, <2>2
<1>6. serRead \in [1..r -> Items]
  <2>1. \A i \in 1..r : i \in 1..n
    BY <1>2
  <2> QED BY <1>2, <1>3, <2>1
<1>7. /\ serItems \in Seq(Items) /\ Len(serItems) = n /\ serBytes \in Seq(Octet) /\ Len(serBytes) = m
      /\ serRead \in Seq(Items) /\ Len(serRead) = r /\ serRest \in Seq(Octet) /\ Len(serRest) = l
  <2>1. r \in Nat /\ serBytes \in [1..m -> Octet]
    BY <1>2
  <2> HIDE DEF l, a, m
  <2> QED BY <1>2, <1>4, <1>5, <1>6, <2>1, SequenceIs
<1>8. IsPrefix(serRead, serItems)
  <2>1. SubSeq(serRead, 1, r) = SubSeq(serItems, 1, r)
    <3>1. \A i \in 1..r : serRead[i] = serItems[i]
      BY <1>3
    <3> QED BY <1>2, <3>1
  <2> QED BY <1>2, <1>7, <2>1 DEF IsPrefix
<1>9. ASSUME r = n PROVE serRest = <<>>
  <2>1. l = 0
    BY <1>4, <1>9
  <2>2. Len(serRest) = 0
    BY <1>7, <2>1
  <2> QED BY <1>7, <2>2
<1>10. IsSuffix(serRest, serBytes)
  <2> DEFINE s == Reverse(serRest)
             t == Reverse(serBytes)
  <2>1. /\ s \in Seq(Octet) /\ Len(s) = l /\ \A i \in 1..l : s[i] = serRest[l - i + 1]
        /\ t \in Seq(Octet) /\ Len(t) = m /\ \A i \in 1..m : t[i] = serBytes[m - i + 1]
    <3> HIDE DEF l, m
    <3> QED BY <1>7, ReverseIs
  <2> HIDE DEF s, t
  <2>2. ASSUME NEW i \in 1..l PROVE s[i] = t[i]
    <3> HIDE DEF l, m, a
    <3>1. i \in 1..m /\ l - i + 1 \in 1..l /\ a + (l - i + 1) = m - i + 1
      BY <1>4
    <3> QED BY <1>5, <2>1, <3>1
  <2>3. SubSeq(s, 1, l) = SubSeq(t, 1, l)
    <3> HIDE DEF l, m
    <3> QED BY <2>2, <1>4
  <2>4. l <= m
    BY <1>4
  <2>5. IsPrefix(s, t)
    <3> HIDE DEF l, m
    <3> QED BY <2>1, <2>3, <2>4 DEF IsPrefix
  <2> QED BY <2>5 DEF IsSuffix, s, t
<1>11. r <= n
  BY <1>2
<1> QED BY <1>1, <1>2, <1>7, <1>8, <1>9, <1>10, <1>11 DEF SerHolds, SerialTypeOK, RoundTrip, Octet

-----------------------------------------------------------------------------
(* Bit sets *)

\* Enough groups for l.
LEMMA CeilDivIs ==
  ASSUME NEW b \in Nat \ {0}, NEW l \in Nat
  PROVE  /\ CeilDiv(l, b) \in Nat /\ l <= b * CeilDiv(l, b)
         /\ l % b # 0 => CeilDiv(l, b) = l \div b + 1
         /\ l > 0 => CeilDiv(l, b) > 0
         /\ CeilDiv(0, b) = 0
<1> DEFINE q == l \div b
           r == l % b
<1>1. q \in Nat /\ r \in 0..b - 1 /\ l = b * q + r
  BY PlaceIs
<1>2. 0 \div b = 0 /\ 0 % b = 0
  OBVIOUS
<1>3. CeilDiv(0, b) = 0
  BY <1>2 DEF CeilDiv
<1>4. CeilDiv(l, b) = q + (IF r = 0 THEN 0 ELSE 1)
  BY DEF CeilDiv
<1> HIDE DEF q, r
<1>5. CASE r = 0
  <2>1. l > 0 => q > 0
    BY <1>1, <1>5
  <2> QED BY <1>1, <1>3, <1>4, <1>5, <2>1 DEF r
<1>6. CASE r # 0
  <2>1. b * (q + 1) = b * q + b
    BY <1>1
  <2> QED BY <1>1, <1>3, <1>4, <1>6, <2>1 DEF q
<1> QED BY <1>5, <1>6

\* The byte and the offset of a bit.
HasBit(data, n) == n % ByteBits \in data[n \div ByteBits + 1]
\* m bytes have the bits of a set.
Stored(data, m, bits) ==
  /\ data \in [1..m -> SUBSET (0..ByteBits - 1)]
  /\ \A n \in 0..ByteBits * m - 1 : HasBit(data, n) <=> n \in bits

\* A bit lies in one of the bytes, and in its place there alone.
LEMMA BitPlace ==
  ASSUME NEW m \in Nat, NEW n \in 0..ByteBits * m - 1
  PROVE  n % ByteBits \in 0..ByteBits - 1 /\ n \div ByteBits + 1 \in 1..m
<1> DEFINE B == ByteBits
<1>1. B \in Nat \ {0}
  BY BitAssumption
<1> HIDE DEF B
<1>2. n \in 0..B * m - 1
  BY DEF B
<1>3. n \div B \in 0..m - 1 /\ n \in Nat
  <2>1. n \in Nat
    BY <1>1, <1>2
  <2>2. n \div B \in 0..m - 1
    BY <1>1, <1>2, PlaceIn
  <2> QED BY <2>1, <2>2
<1>4. n % B \in 0..B - 1
  BY <1>1, <1>3, PlaceIs
<1>5. n \div B + 1 \in 1..m
  BY <1>3
<1> QED BY <1>4, <1>5 DEF B

\* Two bits in the same place are one.
LEMMA SamePlace ==
  ASSUME NEW n \in Nat, NEW k \in Nat, n % ByteBits = k % ByteBits, n \div ByteBits + 1 = k \div ByteBits + 1
  PROVE  n = k
<1> DEFINE B == ByteBits
<1>1. B \in Nat \ {0}
  BY BitAssumption
<1> HIDE DEF B
<1>2. n % B = k % B /\ n \div B + 1 = k \div B + 1
  BY DEF B
<1>3. n = B * (n \div B) + (n % B) /\ k = B * (k \div B) + (k % B) /\ n \div B \in Nat /\ k \div B \in Nat
  BY <1>1, PlaceIs
<1> QED BY <1>2, <1>3

\* A bit more.
LEMMA BitSet ==
  ASSUME NEW m \in Nat, NEW data, NEW bits, Stored(data, m, bits), NEW n \in 0..ByteBits * m - 1
  PROVE  Stored(WithBit(data, n), m, bits \union {n})
<1> DEFINE at == n \div ByteBits + 1
           o == n % ByteBits
           new == WithBit(data, n)
<1>1. at \in 1..m /\ o \in 0..ByteBits - 1
  BY BitPlace
<1>2. new = [data EXCEPT ![at] = @ \union {o}]
  BY DEF WithBit
<1>3. data \in [1..m -> SUBSET (0..ByteBits - 1)]
  BY DEF Stored
<1> HIDE DEF new
<1>4. new \in [1..m -> SUBSET (0..ByteBits - 1)]
  <2> HIDE DEF at, o
  <2> QED BY <1>1, <1>2, <1>3
<1>5. ASSUME NEW k \in 0..ByteBits * m - 1 PROVE HasBit(new, k) <=> k \in bits \union {n}
  <2> DEFINE a == k \div ByteBits + 1
             p == k % ByteBits
  <2>1. a \in 1..m /\ p \in 0..ByteBits - 1
    BY BitPlace
  <2>2. p \in data[a] <=> k \in bits
    BY DEF Stored, HasBit
  <2>3. HasBit(new, k) <=> p \in new[a]
    BY DEF HasBit
  <2>4. p = o /\ a = at => k = n
    <3>1. n \in Nat /\ k \in Nat
      OBVIOUS
    <3> QED BY <3>1, SamePlace
  <2>5. k = n => p = o /\ a = at
    OBVIOUS
  <2> HIDE DEF a, p, at, o
  <2>6. p \in new[a] <=> (p \in data[a] \/ (a = at /\ p = o))
    BY <1>1, <1>2, <1>3, <2>1
  <2> QED BY <2>2, <2>3, <2>4, <2>5, <2>6
<1> QED BY <1>4, <1>5 DEF Stored, new

\* A bit less.
LEMMA BitUnset ==
  ASSUME NEW m \in Nat, NEW data, NEW bits, Stored(data, m, bits), NEW n \in 0..ByteBits * m - 1
  PROVE  Stored(WithoutBit(data, n), m, bits \ {n})
<1> DEFINE at == n \div ByteBits + 1
           o == n % ByteBits
           new == WithoutBit(data, n)
<1>1. at \in 1..m /\ o \in 0..ByteBits - 1
  BY BitPlace
<1>2. new = [data EXCEPT ![at] = @ \ {o}]
  BY DEF WithoutBit
<1>3. data \in [1..m -> SUBSET (0..ByteBits - 1)]
  BY DEF Stored
<1> HIDE DEF new
<1>4. new \in [1..m -> SUBSET (0..ByteBits - 1)]
  <2> HIDE DEF at, o
  <2> QED BY <1>1, <1>2, <1>3
<1>5. ASSUME NEW k \in 0..ByteBits * m - 1 PROVE HasBit(new, k) <=> k \in bits \ {n}
  <2> DEFINE a == k \div ByteBits + 1
             p == k % ByteBits
  <2>1. a \in 1..m /\ p \in 0..ByteBits - 1
    BY BitPlace
  <2>2. p \in data[a] <=> k \in bits
    BY DEF Stored, HasBit
  <2>3. HasBit(new, k) <=> p \in new[a]
    BY DEF HasBit
  <2>4. p = o /\ a = at => k = n
    <3>1. n \in Nat /\ k \in Nat
      OBVIOUS
    <3> QED BY <3>1, SamePlace
  <2>5. k = n => p = o /\ a = at
    OBVIOUS
  <2> HIDE DEF a, p, at, o
  <2>6. p \in new[a] <=> (p \in data[a] /\ ~(a = at /\ p = o))
    BY <1>1, <1>2, <1>3, <2>1
  <2> QED BY <2>2, <2>3, <2>4, <2>5, <2>6
<1> QED BY <1>4, <1>5 DEF Stored, new

\* Bytes of zeros have no bit.
LEMMA NoBits ==
  ASSUME NEW m \in Nat
  PROVE  Stored(ZeroBytes(m), m, {})
<1> DEFINE z == ZeroBytes(m)
<1>1. z \in [1..m -> SUBSET (0..ByteBits - 1)] /\ \A i \in 1..m : z[i] = {}
  BY DEF ZeroBytes
<1> HIDE DEF z
<1>2. ASSUME NEW k \in 0..ByteBits * m - 1 PROVE HasBit(z, k) <=> k \in {}
  <2>1. k \div ByteBits + 1 \in 1..m
    BY BitPlace
  <2> QED BY <1>1, <2>1 DEF HasBit
<1> QED BY <1>1, <1>2 DEF Stored, z

\* reserve_at_least: room for n bits, and the bits there are stay.
LEMMA ReservedIs ==
  ASSUME NEW m \in Nat, NEW bits, bits \subseteq 0..ByteBits * m - 1, Stored(bitData, m, bits), NEW n \in Nat
  PROVE  \E k \in Nat : Stored(Reserved(n), k, bits) /\ n <= ByteBits * k /\ m <= k
<1> DEFINE B == ByteBits
           room == {b \in {PowersOf2[k] : k \in 0..n} : b * B >= n}
           bytes == Min(room)
           d == bytes - m
           new == bitData \o ZeroBytes(d)
           ByteValue == SUBSET (0..B - 1)
<1>1. B \in Nat \ {0}
  BY BitAssumption
<1>2. bitData \in [1..m -> ByteValue]
  BY DEF Stored
<1>3. bitData \in Seq(ByteValue) /\ Len(bitData) = m
  BY <1>2, SequenceIs
<1>4. CASE n <= B * m
  <2>1. Reserved(n) = bitData
    BY <1>3, <1>4 DEF Reserved
  <2> QED BY <1>4, <2>1
<1>5. CASE ~(n <= B * m)
  <2>1. Reserved(n) = new
    BY <1>3, <1>5 DEF Reserved
  <2>2. room \subseteq Nat /\ room # {}
    <3>1. PowersOf2[n] \in Nat /\ PowersOf2[n] >= n /\ PowersOf2[n] \in {PowersOf2[k] : k \in 0..n}
      BY PowersGrow
    <3> DEFINE w == PowersOf2[n]
    <3>2. w * B >= n
      <4>1. w \in Nat /\ w >= n
        BY <3>1
      <4> HIDE DEF w, B
      <4>2. w * B >= w
        BY <1>1, <4>1
      <4>3. w * B \in Nat
        BY <1>1, <4>1
      <4> QED BY <4>1, <4>2, <4>3
    <3>3. w \in room
      BY <3>1, <3>2
    <3>4. \A k \in 0..n : PowersOf2[k] \in Nat
      BY PowersGrow
    <3> QED BY <3>3, <3>4
  <2>3. bytes \in room
    <3> HIDE DEF room
    <3> QED BY <2>2, LeastIsMin
  <2>4. bytes \in Nat /\ bytes * B >= n
    <3> HIDE DEF bytes
    <3> QED BY <2>2, <2>3
  <2> HIDE DEF bytes, room
  <2>5. bytes > m
    <3> HIDE DEF B
    <3>1. ASSUME bytes <= m PROVE FALSE
      <4>1. PICK e \in Nat : m = bytes + e
        <5>1. m - bytes \in Nat /\ m = bytes + (m - bytes)
          BY <2>4, <3>1
        <5> QED BY <5>1
      <4>2. B * m = bytes * B + B * e /\ B * e \in Nat /\ bytes * B \in Nat /\ B * m \in Nat
        BY <1>1, <2>4, <4>1
      <4> QED BY <1>5, <2>4, <4>2
    <3> QED BY <2>4, <3>1
  <2>6. d \in Nat /\ m + d = bytes
    BY <2>4, <2>5
  <2> HIDE DEF d
  <2> DEFINE z == ZeroBytes(d)
  <2>7. z \in [1..d -> ByteValue] /\ \A i \in 1..d : z[i] = {}
    BY DEF ZeroBytes
  <2> HIDE DEF z
  <2>8. z \in Seq(ByteValue) /\ Len(z) = d
    BY <2>6, <2>7, SequenceIs
  <2>9. /\ new \in Seq(ByteValue) /\ Len(new) = m + d
        /\ \A i \in 1..m + d : new[i] = IF i <= m THEN bitData[i] ELSE z[i - m]
    <3>1. new = bitData \o z
      BY DEF z
    <3> HIDE DEF new, ByteValue
    <3>2. /\ new \in Seq(ByteValue) /\ Len(new) = Len(bitData) + Len(z)
          /\ \A i \in 1..Len(bitData) + Len(z) : new[i] = IF i <= Len(bitData) THEN bitData[i] ELSE z[i - Len(bitData)]
      BY <1>3, <2>8, <3>1, ConcatProperties
    <3> QED BY <1>3, <2>8, <3>2
  <2> HIDE DEF new
  <2>10. new \in [1..bytes -> ByteValue]
    BY <2>4, <2>6, <2>9, SequenceIs
  <2>11. ASSUME NEW k \in 0..B * bytes - 1 PROVE HasBit(new, k) <=> k \in bits
    <3> DEFINE a == k \div B + 1
               p == k % B
    <3>1. a \in 1..bytes
      BY <2>4, BitPlace
    <3>2. CASE k \in 0..B * m - 1
      <4>1. a \in 1..m
        BY <3>2, BitPlace
      <4>2. p \in bitData[a] <=> k \in bits
        BY <3>2 DEF Stored, HasBit
      <4>3. HasBit(new, k) <=> p \in new[a]
        BY DEF HasBit
      <4> HIDE DEF a, p, B
      <4>4. new[a] = bitData[a]
        BY <2>6, <2>9, <4>1
      <4> QED BY <4>2, <4>3, <4>4
    <3>3. CASE k \notin 0..B * m - 1
      <4>1. a > m
        <5> DEFINE q == k \div B
                   r == k % B
        <5>1. q \in Nat /\ r \in 0..B - 1 /\ k = B * q + r
          BY <1>1, PlaceIs
        <5>2. a = q + 1
          OBVIOUS
        <5> HIDE DEF q, r, a, B
        <5>3. ASSUME q \in 0..m - 1 PROVE FALSE
          <6>1. B * q + r \in 0..B * m - 1
            BY <1>1, <5>1, <5>3, Below
          <6> QED BY <3>3, <5>1, <6>1
        <5> QED BY <5>1, <5>2, <5>3
      <4>2. k \notin bits
        BY <3>3
      <4>3. HasBit(new, k) <=> p \in new[a]
        BY DEF HasBit
      <4> HIDE DEF a, p, B
      <4>4. new[a] = {}
        <5>1. a - m \in 1..d /\ a \in 1..m + d /\ ~(a <= m)
          BY <2>4, <2>6, <3>1, <4>1
        <5> QED BY <2>7, <2>9, <5>1
      <4> QED BY <4>2, <4>3, <4>4
    <3> QED BY <3>2, <3>3
  <2>12. Stored(new, bytes, bits)
    BY <2>10, <2>11 DEF Stored
  <2>13. n <= B * bytes
    <3> HIDE DEF B
    <3> QED BY <1>1, <2>4
  <2> QED BY <2>1, <2>4, <2>5, <2>12, <2>13
<1> QED BY <1>4, <1>5

\* The arrays of a fixed length, and two of the kinds.
IsFixed == bitKind \in {"SetBitArray", "ConstBitArray"}
IsSet == bitKind = "SetBitArray"
IsMatrix == bitKind = "SquareBitMatrix"

\* highest_set is the highest, and 0 when there is none.
Highest(bits, highest) == highest \in bits \union {0} /\ \A n \in bits : n <= highest

\* What holds of each kind.
KindHolds(m) ==
  /\ IsFixed => bitLength > 0 /\ m = CeilDiv(bitLength, ByteBits)
  /\ ~IsMatrix => bitTrue \subseteq 0..bitLength - 1
  /\ IsMatrix => bitLength <= ByteBits /\ (m = ByteBits \/ (m = 0 /\ bitLength = 0))
  /\ IsSet => Highest(bitTrue, bitHighest)
  /\ ~IsSet => bitHighest = 0

\* The bits of m bytes are those that are set, and lie in the array.
BitHolds(m) ==
  /\ bitKind \in Kinds /\ m \in Nat /\ bitLength \in Nat
  /\ bitTrue \subseteq 0..ByteBits * m - 1 /\ bitLength <= ByteBits * m
  /\ Stored(bitData, m, bitTrue) /\ KindHolds(m)

BitInv == \E m : BitHolds(m)

\* Nothing is set at first.
LEMMA BitInitInv == BitInit => BitInv
<1> SUFFICES ASSUME BitInit PROVE BitInv
  OBVIOUS
<1> DEFINE m == CeilDiv(bitLength, ByteBits)
<1>1. bitLength \in Nat /\ (IsFixed => bitLength > 0) /\ (~IsFixed => bitLength = 0)
  BY BitAssumption DEF BitInit, IsFixed
<1>2. m \in Nat /\ bitLength <= ByteBits * m /\ (bitLength = 0 => m = 0)
  BY <1>1, BitAssumption, CeilDivIs
<1>3. bitData = ZeroBytes(m) /\ bitTrue = {} /\ bitHighest = 0 /\ bitKind \in Kinds
  BY DEF BitInit
<1> HIDE DEF m
<1>4. Stored(bitData, m, bitTrue)
  BY <1>2, <1>3, NoBits
<1>5. IsMatrix => ~IsFixed
  BY DEF IsMatrix, IsFixed
<1>6. ByteBits \in Nat
  BY BitAssumption
<1>7. KindHolds(m)
  BY <1>1, <1>2, <1>3, <1>5, <1>6 DEF KindHolds, Highest, m
<1>8. BitHolds(m)
  BY <1>1, <1>2, <1>3, <1>4, <1>7 DEF BitHolds
<1> QED BY <1>8 DEF BitInv

\* The kinds exclude each other.
LEMMA KindsAre == /\ (IsSet => IsFixed) /\ (IsFixed => ~IsMatrix)
                  /\ (bitKind = "BitArray" => ~IsFixed /\ ~IsMatrix)
                  /\ (bitKind # "SquareBitMatrix" <=> ~IsMatrix)
BY DEF IsSet, IsFixed, IsMatrix

\* The kind stays.
LEMMA KindStays ==
  ASSUME bitKind' = bitKind
  PROVE  (IsSet' <=> IsSet) /\ (IsFixed' <=> IsFixed) /\ (IsMatrix' <=> IsMatrix)
BY DEF IsSet, IsFixed, IsMatrix

\* A bit of the array is set.
LEMMA SetBitInv ==
  ASSUME BitInv, NEW n \in 0..bitLength - 1, SetBit(n)
  PROVE  BitInv'
<1>1. PICK m : BitHolds(m)
  BY DEF BitInv
<1>2. bitKind \in Kinds /\ m \in Nat /\ bitLength \in Nat /\ Stored(bitData, m, bitTrue) /\ KindHolds(m)
  BY <1>1 DEF BitHolds
<1>3. bitTrue \subseteq 0..ByteBits * m - 1 /\ bitLength <= ByteBits * m /\ ByteBits * m \in Nat
  BY <1>1, BitAssumption DEF BitHolds
<1>4. /\ bitData' = WithBit(bitData, n) /\ bitTrue' = bitTrue \union {n} /\ bitKind' = bitKind
      /\ bitLength' = bitLength /\ ~IsMatrix
  BY DEF SetBit, IsMatrix
<1>5. bitHighest' = IF IsSet THEN Max({bitHighest, n}) ELSE bitHighest
  BY DEF SetBit, IsSet
<1>6. n \in 0..ByteBits * m - 1 /\ n \in Nat
  BY <1>2, <1>3
<1>7. Stored(bitData', m, bitTrue')
  BY <1>2, <1>4, <1>6, BitSet
<1>8. bitTrue' \subseteq 0..ByteBits * m - 1 /\ bitTrue \subseteq 0..bitLength - 1 /\ bitTrue' \subseteq 0..bitLength - 1
  BY <1>2, <1>3, <1>4, <1>6 DEF KindHolds
<1>9. ASSUME IsSet PROVE Highest(bitTrue', bitHighest')
  <2>1. bitHighest \in bitTrue \union {0} /\ \A k \in bitTrue : k <= bitHighest
    BY <1>2, <1>9 DEF KindHolds, Highest
  <2>2. bitHighest \in Nat
    BY <1>8, <2>1
  <2> DEFINE h == Max({bitHighest, n})
  <2>3. h \in {bitHighest, n} /\ \A y \in {bitHighest, n} : y <= h
    <3> DEFINE T == {bitHighest, n}
               top == bitHighest + n
    <3>1. top \in Nat /\ T \subseteq 0..top /\ T # {}
      BY <1>6, <2>2
    <3> HIDE DEF T, top
    <3> QED BY <3>1, GreatestIsMax DEF T
  <2>4. bitHighest' = h
    BY <1>5, <1>9
  <2> HIDE DEF h
  <2>5. h \in bitTrue' \union {0}
    BY <1>4, <2>1, <2>3
  <2>6. ASSUME NEW k \in bitTrue' PROVE k <= h
    <3>1. CASE k = n
      BY <2>3, <3>1
    <3>2. CASE k \in bitTrue
      <4>1. k <= bitHighest /\ bitHighest <= h /\ k \in Nat /\ h \in Nat
        BY <1>6, <1>8, <2>1, <2>2, <2>3, <3>2
      <4> QED BY <2>2, <4>1
    <3> QED BY <1>4, <3>1, <3>2
  <2> QED BY <2>4, <2>5, <2>6 DEF Highest
<1>10. ~IsSet => bitHighest' = 0
  BY <1>2, <1>5 DEF KindHolds
<1>11. (IsSet' <=> IsSet) /\ (IsFixed' <=> IsFixed) /\ (IsMatrix' <=> IsMatrix)
  BY <1>4, KindStays
<1>12. IsFixed => bitLength > 0 /\ m = CeilDiv(bitLength, ByteBits)
  BY <1>2 DEF KindHolds
<1>13. KindHolds(m)'
  BY <1>4, <1>8, <1>9, <1>10, <1>11, <1>12 DEF KindHolds
<1>14. BitHolds(m)'
  BY <1>2, <1>3, <1>4, <1>7, <1>8, <1>13 DEF BitHolds
<1> QED BY <1>14 DEF BitInv

\* A bit of an array or of a row is unset, and what is set besides stays.
LEMMA LessSet ==
  ASSUME NEW m, BitHolds(m), ~IsSet, bitKind' = bitKind, bitLength' = bitLength, bitHighest' = bitHighest,
         NEW n \in 0..ByteBits * m - 1, bitData' = WithoutBit(bitData, n), bitTrue' = bitTrue \ {n}
  PROVE  BitInv'
<1>1. bitKind \in Kinds /\ m \in Nat /\ bitLength \in Nat /\ Stored(bitData, m, bitTrue) /\ KindHolds(m)
  BY DEF BitHolds
<1>2. Stored(bitData', m, bitTrue')
  BY <1>1, BitUnset
<1>3. (IsSet' <=> IsSet) /\ (IsFixed' <=> IsFixed) /\ (IsMatrix' <=> IsMatrix)
  BY KindStays
<1>4. KindHolds(m)'
  <2>1. bitTrue' \subseteq bitTrue
    OBVIOUS
  <2> QED BY <1>1, <1>3, <2>1 DEF KindHolds
<1>5. bitTrue' \subseteq 0..ByteBits * m - 1
  BY DEF BitHolds
<1>6. bitLength <= ByteBits * m
  BY DEF BitHolds
<1>7. BitHolds(m)'
  BY <1>1, <1>2, <1>4, <1>5, <1>6 DEF BitHolds
<1> QED BY <1>7 DEF BitInv

\* unset of an array.
LEMMA UnsetBitInv ==
  ASSUME BitInv, NEW n \in 0..bitLength - 1, UnsetBit(n)
  PROVE  BitInv'
<1>1. PICK m : BitHolds(m)
  BY DEF BitInv
<1>2. bitLength \in Nat /\ bitLength <= ByteBits * m /\ ByteBits * m \in Nat
  BY <1>1, BitAssumption DEF BitHolds
<1>3. n \in 0..ByteBits * m - 1
  BY <1>2
<1>4. ~IsSet
  BY DEF UnsetBit, IsSet
<1> QED BY <1>1, <1>3, <1>4, LessSet DEF UnsetBit

\* A pair of a matrix whose rows fit in a byte is a bit.
LEMMA PairPlace ==
  ASSUME NEW m, BitHolds(m), IsMatrix, NEW a \in 0..bitLength - 1, NEW b \in 0..bitLength - 1
  PROVE  ByteBits * a + b \in 0..ByteBits * m - 1
<1>1. bitLength \in Nat /\ bitLength <= ByteBits /\ (m = ByteBits \/ (m = 0 /\ bitLength = 0))
  BY DEF BitHolds, KindHolds
<1>2. ByteBits \in Nat \ {0}
  BY BitAssumption
<1>3. m = ByteBits /\ a \in 0..ByteBits - 1 /\ b \in 0..ByteBits - 1
  BY <1>1, <1>2
<1> QED BY <1>2, <1>3, Below

\* set_a_intersects_b.
LEMMA IntersectInv ==
  ASSUME BitInv, NEW a \in 0..bitLength - 1, NEW b \in 0..bitLength - 1, Intersect(a, b)
  PROVE  BitInv'
<1>1. PICK m : BitHolds(m)
  BY DEF BitInv
<1> DEFINE n == ByteBits * a + b
<1>2. IsMatrix /\ bitData' = WithBit(bitData, n) /\ bitTrue' = bitTrue \union {n}
  BY DEF Intersect, IsMatrix
<1>3. bitKind' = bitKind /\ bitLength' = bitLength /\ bitHighest' = bitHighest
  BY DEF Intersect
<1>4. n \in 0..ByteBits * m - 1
  BY <1>1, <1>2, PairPlace
<1> HIDE DEF n
<1>5. bitKind \in Kinds /\ m \in Nat /\ bitLength \in Nat /\ Stored(bitData, m, bitTrue) /\ KindHolds(m)
  BY <1>1 DEF BitHolds
<1>6. Stored(bitData', m, bitTrue')
  BY <1>2, <1>4, <1>5, BitSet
<1>7. (IsSet' <=> IsSet) /\ (IsFixed' <=> IsFixed) /\ (IsMatrix' <=> IsMatrix)
  BY <1>3, KindStays
<1>8. ~IsSet /\ ~IsFixed
  BY <1>2, KindsAre
<1>9. KindHolds(m)'
  BY <1>2, <1>3, <1>5, <1>7, <1>8 DEF KindHolds
<1>10. bitTrue' \subseteq 0..ByteBits * m - 1 /\ bitLength <= ByteBits * m
  BY <1>1, <1>2, <1>4 DEF BitHolds
<1>11. BitHolds(m)'
  BY <1>3, <1>5, <1>6, <1>9, <1>10 DEF BitHolds
<1> QED BY <1>11 DEF BitInv

\* remove_a_intersects_b.
LEMMA SeparateInv ==
  ASSUME BitInv, NEW a \in 0..bitLength - 1, NEW b \in 0..bitLength - 1, Separate(a, b)
  PROVE  BitInv'
<1>1. PICK m : BitHolds(m)
  BY DEF BitInv
<1>2. IsMatrix /\ ~IsSet
  BY KindsAre DEF Separate, IsMatrix
<1>3. ByteBits * a + b \in 0..ByteBits * m - 1
  BY <1>1, <1>2, PairPlace
<1> QED BY <1>1, <1>2, <1>3, LessSet DEF Separate

\* clear of SetBitArray reaches every bit that is set.
LEMMA ClearSetInv ==
  ASSUME BitInv, ClearSet
  PROVE  BitInv'
<1>1. PICK m : BitHolds(m)
  BY DEF BitInv
<1>2. bitKind \in Kinds /\ m \in Nat /\ bitLength \in Nat /\ Stored(bitData, m, bitTrue) /\ KindHolds(m)
  BY <1>1 DEF BitHolds
<1>3. IsSet /\ IsFixed /\ ~IsMatrix
  BY KindsAre DEF ClearSet, IsSet
<1> DEFINE h == bitHighest
           B == ByteBits
           c == CeilDiv(h, B)
<1>4. B \in Nat \ {0}
  BY BitAssumption
<1>5. h \in Nat /\ \A n \in bitTrue : n <= h /\ n \in 0..B * m - 1
  <2>1. h \in bitTrue \union {0} /\ \A n \in bitTrue : n <= h
    BY <1>2, <1>3 DEF KindHolds, Highest
  <2>2. bitTrue \subseteq 0..bitLength - 1
    BY <1>2, <1>3 DEF KindHolds
  <2>3. bitTrue \subseteq 0..B * m - 1
    BY <1>1 DEF BitHolds
  <2> QED BY <1>2, <2>1, <2>2, <2>3
<1>6. bitData' = [i \in DOMAIN bitData |-> IF i <= c THEN {} ELSE bitData[i]]
  BY DEF ClearSet
<1>7. bitHighest' = 0 /\ bitTrue' = {} /\ bitKind' = bitKind /\ bitLength' = bitLength
  BY DEF ClearSet
<1>8. ASSUME NEW n \in bitTrue PROVE n \div B + 1 <= c
  <2>1. h % B # 0
    BY <1>8 DEF ClearSet
  <2>2. c = h \div B + 1
    BY <1>4, <1>5, <2>1, CeilDivIs
  <2> DEFINE q == n \div B
             p == h \div B
  <2>3. /\ q \in Nat /\ n % B \in 0..B - 1 /\ n = B * q + (n % B)
        /\ p \in Nat /\ h % B \in 0..B - 1 /\ h = B * p + (h % B)
    <3>1. n \in Nat /\ h \in Nat
      BY <1>2, <1>4, <1>5
    <3> HIDE DEF h, B
    <3> QED BY <1>4, <3>1, PlaceIs
  <2>4. n <= h
    BY <1>5
  <2> DEFINE r == n % B
             s == h % B
  <2>5. c = p + 1
    BY <2>2
  <2> HIDE DEF q, p, r, s, B, h, c
  <2>6. ASSUME q > p PROVE FALSE
    <3>1. PICK d \in Nat : q = p + 1 + d
      <4>1. q - p - 1 \in Nat /\ q = p + 1 + (q - p - 1)
        BY <2>3, <2>6
      <4> QED BY <4>1
    <3>2. B * q = B * p + B + B * d /\ B * d \in Nat /\ B * p \in Nat
      BY <1>4, <2>3, <3>1
    <3>3. r \in 0..B - 1 /\ s \in 0..B - 1 /\ n = B * q + r /\ h = B * p + s
      BY <2>3 DEF r, s
    <3> QED BY <1>4, <2>4, <3>2, <3>3
  <2> QED BY <2>3, <2>5, <2>6 DEF q
<1>9. bitData \in [1..m -> SUBSET (0..B - 1)] /\ \A n \in 0..B * m - 1 : HasBit(bitData, n) <=> n \in bitTrue
  BY <1>2 DEF Stored
<1>10. bitData' \in [1..m -> SUBSET (0..B - 1)]
  <2> HIDE DEF c, B
  <2> QED BY <1>6, <1>9
<1>11. ASSUME NEW n \in 0..B * m - 1 PROVE ~HasBit(bitData', n)
  <2> DEFINE a == n \div B + 1
  <2>1. a \in 1..m
    BY <1>2, BitPlace
  <2>2. a <= c => bitData'[a] = {}
    BY <1>6, <1>9, <2>1
  <2>3. ~(a <= c) => bitData'[a] = bitData[a] /\ n \notin bitTrue
    BY <1>6, <1>8, <1>9, <2>1
  <2>4. n % B \in bitData[a] <=> n \in bitTrue
    BY <1>9 DEF HasBit
  <2>5. HasBit(bitData', n) <=> n % B \in bitData'[a]
    BY DEF HasBit
  <2> HIDE DEF a, B, c
  <2> QED BY <2>2, <2>3, <2>4, <2>5
<1>12. Stored(bitData', m, bitTrue')
  BY <1>7, <1>10, <1>11 DEF Stored
<1>13. (IsSet' <=> IsSet) /\ (IsFixed' <=> IsFixed) /\ (IsMatrix' <=> IsMatrix)
  BY <1>7, KindStays
<1>14. KindHolds(m)'
  BY <1>2, <1>3, <1>7, <1>13 DEF KindHolds, Highest
<1>15. bitLength <= ByteBits * m
  BY <1>1 DEF BitHolds
<1>16. BitHolds(m)'
  BY <1>2, <1>7, <1>12, <1>14, <1>15 DEF BitHolds
<1> QED BY <1>16 DEF BitInv

\* clear of ConstBitArray sets every byte to zero.
LEMMA ClearConstInv ==
  ASSUME BitInv, ClearConst
  PROVE  BitInv'
<1>1. PICK m : BitHolds(m)
  BY DEF BitInv
<1>2. bitKind \in Kinds /\ m \in Nat /\ bitLength \in Nat /\ Stored(bitData, m, bitTrue) /\ KindHolds(m)
  BY <1>1 DEF BitHolds
<1>3. bitTrue' = {} /\ bitKind' = bitKind /\ bitLength' = bitLength /\ bitHighest' = bitHighest
  BY DEF ClearConst
<1>4. IsFixed /\ ~IsMatrix /\ ~IsSet
  BY KindsAre DEF ClearConst, IsFixed, IsSet
<1>5. Len(bitData) = m
  BY <1>2, SequenceIs DEF Stored
<1>6. Stored(bitData', m, bitTrue')
  BY <1>2, <1>3, <1>5, NoBits DEF ClearConst
<1>7. (IsSet' <=> IsSet) /\ (IsFixed' <=> IsFixed) /\ (IsMatrix' <=> IsMatrix)
  BY <1>3, KindStays
<1>8. KindHolds(m)'
  BY <1>2, <1>3, <1>4, <1>7 DEF KindHolds
<1>9. bitLength <= ByteBits * m
  BY <1>1 DEF BitHolds
<1>10. BitHolds(m)'
  BY <1>2, <1>3, <1>6, <1>8, <1>9 DEF BitHolds
<1> QED BY <1>10 DEF BitInv

\* An array that grows.
LEMMA InsertBitInv ==
  ASSUME BitInv, NEW value \in BOOLEAN, InsertBit(value)
  PROVE  BitInv'
<1>1. PICK m : BitHolds(m)
  BY DEF BitInv
<1>2. bitKind \in Kinds /\ m \in Nat /\ bitLength \in Nat /\ Stored(bitData, m, bitTrue) /\ KindHolds(m)
  BY <1>1 DEF BitHolds
<1> DEFINE L == bitLength
           data == Reserved(L + 1)
<1>3. bitKind' = bitKind /\ bitLength' = L + 1 /\ bitHighest' = bitHighest
  BY DEF InsertBit
<1>4. bitData' = IF value THEN WithBit(data, L) ELSE WithoutBit(data, L)
  BY DEF InsertBit
<1>5. bitTrue' = IF value THEN bitTrue \union {L} ELSE bitTrue
  BY DEF InsertBit
<1>6. ~IsFixed /\ ~IsMatrix /\ ~IsSet
  BY KindsAre DEF InsertBit
<1>7. L + 1 \in Nat /\ bitTrue \subseteq 0..ByteBits * m - 1
  BY <1>1, <1>2 DEF BitHolds
<1>8. PICK k \in Nat : Stored(data, k, bitTrue) /\ L + 1 <= ByteBits * k /\ m <= k
  BY <1>2, <1>7, ReservedIs
<1> HIDE DEF data
<1>9. ByteBits * k \in Nat /\ L \in 0..ByteBits * k - 1
  <2>1. ByteBits * k \in Nat
    BY <1>8, BitAssumption
  <2> HIDE DEF L
  <2> QED BY <1>2, <1>8, <2>1 DEF L
<1>10. bitTrue \subseteq 0..L - 1
  BY <1>2, <1>6 DEF KindHolds
<1>11. L \notin bitTrue
  BY <1>2, <1>10
<1>12. Stored(bitData', k, bitTrue')
  <2>1. CASE value
    BY <1>4, <1>5, <1>8, <1>9, <2>1, BitSet
  <2>2. CASE ~value
    <3>1. bitTrue \ {L} = bitTrue
      BY <1>11
    <3> QED BY <1>4, <1>5, <1>8, <1>9, <2>2, <3>1, BitUnset
  <2> QED BY <2>1, <2>2
<1>13. bitTrue' \subseteq 0..bitLength' - 1
  BY <1>2, <1>3, <1>5, <1>10
<1>14. bitTrue' \subseteq 0..ByteBits * k - 1 /\ bitLength' <= ByteBits * k /\ bitLength' \in Nat
  BY <1>2, <1>3, <1>8, <1>9, <1>13
<1>15. (IsSet' <=> IsSet) /\ (IsFixed' <=> IsFixed) /\ (IsMatrix' <=> IsMatrix)
  BY <1>3, KindStays
<1>16. KindHolds(k)'
  BY <1>2, <1>3, <1>6, <1>13, <1>15 DEF KindHolds
<1>17. BitHolds(k)'
  BY <1>2, <1>3, <1>8, <1>12, <1>14, <1>16 DEF BitHolds
<1> QED BY <1>17 DEF BitInv

\* clear of BitArray gives every byte back.
LEMMA ClearListInv ==
  ASSUME BitInv, ClearList
  PROVE  BitInv'
<1>1. PICK m : BitHolds(m)
  BY DEF BitInv
<1>2. bitKind \in Kinds /\ KindHolds(m)
  BY <1>1 DEF BitHolds
<1>3. bitData' = <<>> /\ bitLength' = 0 /\ bitTrue' = {} /\ bitKind' = bitKind /\ bitHighest' = bitHighest
  BY DEF ClearList
<1>4. ~IsFixed /\ ~IsMatrix /\ ~IsSet
  BY KindsAre DEF ClearList
<1>5. ByteBits * 0 = 0 /\ 0 \in Nat
  BY BitAssumption
<1>6. Stored(bitData', 0, bitTrue')
  <2>1. ZeroBytes(0) = <<>>
    BY DEF ZeroBytes
  <2> QED BY <1>3, <1>5, <2>1, NoBits
<1>7. (IsSet' <=> IsSet) /\ (IsFixed' <=> IsFixed) /\ (IsMatrix' <=> IsMatrix)
  BY <1>3, KindStays
<1>8. KindHolds(0)'
  BY <1>2, <1>3, <1>4, <1>7 DEF KindHolds
<1>9. BitHolds(0)'
  BY <1>2, <1>3, <1>5, <1>6, <1>8 DEF BitHolds
<1> QED BY <1>9 DEF BitInv

\* A matrix that grows, which has its bytes from the first row on.
LEMMA NewValueInv ==
  ASSUME BitInv, NewValue
  PROVE  BitInv'
<1>1. PICK m : BitHolds(m)
  BY DEF BitInv
<1>2. bitKind \in Kinds /\ m \in Nat /\ bitLength \in Nat /\ Stored(bitData, m, bitTrue) /\ KindHolds(m)
  BY <1>1 DEF BitHolds
<1> DEFINE B == ByteBits
<1>3. /\ bitLength < B /\ bitLength' = bitLength + 1 /\ bitKind' = bitKind /\ bitHighest' = bitHighest
      /\ bitTrue' = bitTrue
  BY DEF NewValue
<1>4. bitData' = IF bitData = <<>> THEN ZeroBytes(B) ELSE bitData
  BY DEF NewValue
<1>5. IsMatrix /\ ~IsFixed /\ ~IsSet
  BY KindsAre DEF NewValue, IsMatrix
<1>6. m = B \/ m = 0
  BY <1>2, <1>5 DEF KindHolds
<1>7. B \in Nat \ {0}
  BY BitAssumption
<1>8. bitTrue \subseteq 0..B * m - 1
  BY <1>1 DEF BitHolds
<1>9. bitData \in Seq(SUBSET (0..B - 1)) /\ Len(bitData) = m
  BY <1>2, SequenceIs DEF Stored
<1>10. Stored(bitData', B, bitTrue') /\ bitTrue' \subseteq 0..B * B - 1
  <2>1. CASE m = 0
    <3>1. bitData = <<>>
      BY <1>9, <2>1
    <3>2. B * m - 1 = -1
      BY <1>7, <2>1
    <3>3. bitTrue = {}
      BY <1>8, <3>2
    <3>4. Stored(ZeroBytes(B), B, {})
      BY <1>7, NoBits
    <3> QED BY <1>3, <1>4, <3>1, <3>3, <3>4
  <2>2. CASE m = B
    <3>1. bitData # <<>>
      <4> HIDE DEF B
      <4> QED BY <1>7, <1>9, <2>2
    <3> QED BY <1>2, <1>3, <1>4, <1>8, <2>2, <3>1
  <2> QED BY <1>6, <2>1, <2>2
<1>11. (IsSet' <=> IsSet) /\ (IsFixed' <=> IsFixed) /\ (IsMatrix' <=> IsMatrix)
  BY <1>3, KindStays
<1>12. bitLength' \in Nat /\ bitLength' <= B
  BY <1>2, <1>3, <1>7
<1>13. KindHolds(B)'
  BY <1>2, <1>3, <1>5, <1>11, <1>12 DEF KindHolds
<1>14. bitLength' <= B * B
  <2>1. B <= B * B /\ B * B \in Nat
    <3> HIDE DEF B
    <3> QED BY <1>7
  <2> HIDE DEF B
  <2> QED BY <1>7, <1>12, <2>1
<1>15. BitHolds(B)'
  BY <1>2, <1>3, <1>7, <1>10, <1>12, <1>13, <1>14 DEF BitHolds
<1> QED BY <1>15 DEF BitInv

\* Every step keeps the bits right.
LEMMA BitInductive == BitInv /\ [BitNext]_bitVars => BitInv'
<1> SUFFICES ASSUME BitInv, [BitNext]_bitVars PROVE BitInv'
  OBVIOUS
<1>1. ASSUME NEW n \in 0..bitLength - 1, SetBit(n) \/ UnsetBit(n) PROVE BitInv'
  BY <1>1, SetBitInv, UnsetBitInv
<1>2. CASE ClearSet \/ ClearConst \/ ClearList \/ NewValue
  BY <1>2, ClearSetInv, ClearConstInv, ClearListInv, NewValueInv
<1>3. ASSUME NEW value \in BOOLEAN, InsertBit(value) PROVE BitInv'
  BY <1>3, InsertBitInv
<1>4. ASSUME NEW a \in 0..bitLength - 1, NEW b \in 0..bitLength - 1, Intersect(a, b) \/ Separate(a, b) PROVE BitInv'
  BY <1>4, IntersectInv, SeparateInv
<1>5. CASE UNCHANGED bitVars
  BY <1>5 DEF bitVars, BitInv, BitHolds, KindHolds, IsFixed, IsSet, IsMatrix
<1> QED BY <1>1, <1>2, <1>3, <1>4, <1>5 DEF BitNext

\* What an iterator has gone past when it is at x: only bits that are set.
NextFrom(index, x) ==
  /\ x \in index..bitLength /\ (x = bitLength \/ x \notin bitTrue)
  /\ \A n \in index..bitLength - 1 : n < x => n \in bitTrue

\* The iterator goes to the next bit that is not set: a byte it passes over is full.
LEMMA NextUnsetIs ==
  ASSUME NEW m, BitHolds(m), NEW index \in 0..bitLength
  PROVE  NextFrom(index, NextUnset(index))
<1> DEFINE B == ByteBits
           L == bitLength
           whole == L \div B
           first == index \div B
           bytes == {i \in first..whole : i \in {first, whole} \/ IsNotFull(i)}
           unset == {n \in index..L - 1 : n \div B \in bytes /\ ~TestBit(n)}
           free == {n \in index..L - 1 : n \notin bitTrue}
<1>1. B \in Nat \ {0} /\ m \in Nat /\ L \in Nat /\ index \in Nat
  BY BitAssumption DEF BitHolds
<1>2. L <= B * m /\ B * m \in Nat
  BY <1>1 DEF BitHolds
<1>3. ASSUME NEW n \in index..L - 1 PROVE (n \div B \in bytes /\ ~TestBit(n)) <=> n \notin bitTrue
  <2> DEFINE q == n \div B
             o == n % B
  <2>1. n \in Nat /\ n \in 0..B * m - 1 /\ n <= L
    BY <1>1, <1>2
  <2>2. o \in 0..B - 1 /\ q + 1 \in 1..m
    BY <1>1, <2>1, BitPlace
  <2>3. TestBit(n) <=> n \in bitTrue
    BY <2>1 DEF BitHolds, Stored, HasBit, TestBit
  <2>4. TestBit(n) <=> o \in bitData[q + 1]
    BY DEF TestBit
  <2>5. q \in first..whole
    <3>1. /\ q \in Nat /\ o \in 0..B - 1 /\ n = B * q + o
      BY <1>1, <2>1, PlaceIs
    <3> DEFINE r == index % B
               s == L % B
    <3>2. first \in Nat /\ r \in 0..B - 1 /\ index = B * first + r
      BY <1>1, PlaceIs
    <3>3. whole \in Nat /\ s \in 0..B - 1 /\ L = B * whole + s
      BY <1>1, PlaceIs
    <3>4. index <= n
      BY <1>1
    <3> HIDE DEF q, o, r, s, first, whole, L, B
    <3>5. first <= q
      <4>1. ASSUME first > q PROVE FALSE
        <5>1. PICK d \in Nat : first = q + 1 + d
          <6>1. first - q - 1 \in Nat /\ first = q + 1 + (first - q - 1)
            BY <3>1, <3>2, <4>1
          <6> QED BY <6>1
        <5>2. B * first = B * q + B + B * d /\ B * d \in Nat /\ B * q \in Nat
          BY <1>1, <3>1, <5>1
        <5> QED BY <1>1, <2>1, <3>1, <3>2, <3>4, <5>2
      <4> QED BY <3>1, <3>2, <4>1
    <3>6. q <= whole
      <4>1. ASSUME q > whole PROVE FALSE
        <5>1. PICK d \in Nat : q = whole + 1 + d
          <6>1. q - whole - 1 \in Nat /\ q = whole + 1 + (q - whole - 1)
            BY <3>1, <3>3, <4>1
          <6> QED BY <6>1
        <5>2. B * q = B * whole + B + B * d /\ B * d \in Nat /\ B * whole \in Nat
          BY <1>1, <3>3, <5>1
        <5> QED BY <1>1, <2>1, <3>1, <3>3, <5>2
      <4> QED BY <3>1, <3>3, <4>1
    <3> QED BY <3>1, <3>2, <3>3, <3>5, <3>6
  <2>6. ASSUME ~IsNotFull(q) PROVE TestBit(n)
    <3> DEFINE byte == bitData[q + 1]
    <3>1. byte \in SUBSET (0..B - 1)
      BY <2>2 DEF BitHolds, Stored
    <3>2. Cardinality(byte) = B
      BY <2>6 DEF IsNotFull
    <3> HIDE DEF byte
    <3>3. IsFiniteSet(0..B - 1) /\ Cardinality(0..B - 1) = B
      <4> HIDE DEF B
      <4>1. 0 \in Int /\ B - 1 \in Int /\ ~(0 > B - 1) /\ (B - 1) - 0 + 1 = B
        BY <1>1
      <4> QED BY <4>1, FS_Interval
    <3>4. 0..B - 1 = byte
      <4> HIDE DEF B
      <4> QED BY <3>1, <3>2, <3>3, FS_Subset
    <3> QED BY <2>2, <2>4, <3>4 DEF byte
  <2> QED BY <2>3, <2>5, <2>6
<1>4. unset = free
  <2> HIDE DEF bytes, B
  <2> QED BY <1>3
<1>5. NextUnset(index) = IF unset = {} THEN L ELSE Min(unset)
  BY DEF NextUnset
<1> DEFINE x == NextUnset(index)
<1>6. x = IF free = {} THEN L ELSE Min(free)
  BY <1>4, <1>5
<1> HIDE DEF x, unset, bytes, B
<1>7. CASE free = {}
  <2>1. x = L
    BY <1>6, <1>7
  <2>2. \A n \in index..L - 1 : n \in bitTrue
    BY <1>7
  <2> QED BY <1>1, <2>1, <2>2 DEF NextFrom, x
<1>8. CASE free # {}
  <2>1. x \in free /\ \A y \in free : x <= y
    <3>1. x = Min(free) /\ free \subseteq Nat
      BY <1>1, <1>6, <1>8
    <3> HIDE DEF free
    <3> QED BY <1>8, <3>1, LeastIsMin
  <2>2. x \in index..L - 1 /\ x \notin bitTrue
    BY <2>1
  <2>3. ASSUME NEW n \in index..L - 1, n < x PROVE n \in bitTrue
    <3>1. ASSUME n \notin bitTrue PROVE FALSE
      <4>1. n \in free
        BY <3>1
      <4>2. x <= n
        BY <2>1, <4>1
      <4> QED BY <1>1, <2>2, <2>3, <4>2
    <3> QED BY <3>1
  <2>4. x \in index..L
    BY <1>1, <2>2
  <2> QED BY <2>2, <2>3, <2>4 DEF NextFrom, x
<1> QED BY <1>7, <1>8

\* The lesser of two numbers.
LEMMA LesserIs ==
  ASSUME NEW a \in Nat, NEW b \in Nat
  PROVE  Min({a, b}) = IF a <= b THEN a ELSE b
<1> DEFINE T == {a, b}
<1>1. T \subseteq Nat /\ T # {}
  OBVIOUS
<1>2. Min(T) \in T /\ \A y \in T : Min(T) <= y
  <2> HIDE DEF T
  <2> QED BY <1>1, LeastIsMin
<1>3. Min(T) \in {a, b} /\ Min(T) <= a /\ Min(T) <= b
  BY <1>2
<1> HIDE DEF T
<1> QED BY <1>3 DEF T

\* Where an iterator is after k calls.
VisitsAt(f) ==
  /\ f \in [0..bitLength -> 0..bitLength]
  /\ \A k \in 0..bitLength : f[k] = bitLength \/ f[k] \notin bitTrue
  /\ \A k \in 0..bitLength : f[k] >= k
  /\ \A k \in 1..bitLength : f[k] = bitLength \/ f[k - 1] < f[k]
  /\ \A k \in 0..bitLength : \A n \in 0..bitLength - 1 :
       n < f[k] /\ n \notin bitTrue => \E j \in 0..bitLength : f[j] = n

\* The iterator gives out every bit that is not set, in order.
LEMMA UnsetVisitedIs ==
  ASSUME NEW m, BitHolds(m)
  PROVE  VisitsAt(UnsetVisited)
<1> DEFINE L == bitLength
           step(x) == NextUnset(Min({x + 1, L}))
           F(f) == [k \in 0..L |-> NextUnset(IF k = 0 THEN 0 ELSE Min({f[k - 1] + 1, L}))]
           V == UnsetVisited
           G == [n \in Nat |-> [x \in 0..L |-> step(x)]]
           base == NextUnset(0)
<1>1. L \in Nat /\ bitTrue \subseteq Nat
  <2>1. ByteBits * m \in Nat /\ bitTrue \subseteq 0..ByteBits * m - 1 /\ L \in Nat
    BY BitAssumption DEF BitHolds
  <2> QED BY <2>1
<1>2. base \in 0..L /\ (base = L \/ base \notin bitTrue) /\ \A n \in 0..L - 1 : n < base => n \in bitTrue
  <2>1. NextFrom(0, base)
    <3>1. 0 \in 0..L
      BY <1>1
    <3> QED BY <3>1, NextUnsetIs
  <2> HIDE DEF base
  <2> QED BY <2>1 DEF NextFrom
<1>3. ASSUME NEW x \in 0..L
      PROVE  /\ step(x) \in 0..L /\ (step(x) = L \/ step(x) \notin bitTrue)
             /\ step(x) = L \/ x < step(x)
             /\ \A n \in 0..L - 1 : x < n /\ n < step(x) => n \in bitTrue
  <2> DEFINE i == Min({x + 1, L})
             y == NextUnset(i)
  <2>1. x \in Nat /\ x <= L /\ x + 1 \in Nat
    BY <1>1
  <2>2. i = IF x + 1 <= L THEN x + 1 ELSE L
    <3> HIDE DEF L
    <3> QED BY <1>1, <2>1, LesserIs
  <2> HIDE DEF i
  <2>3. i \in 0..L
    BY <1>1, <2>1, <2>2
  <2>4. NextFrom(i, y)
    BY <2>3, NextUnsetIs
  <2>5. y \in i..L /\ (y = L \/ y \notin bitTrue) /\ \A n \in i..L - 1 : n < y => n \in bitTrue
    <3> HIDE DEF y
    <3> QED BY <2>4 DEF NextFrom
  <2>6. step(x) = y
    BY DEF i
  <2> HIDE DEF y, step
  <2>7. y \in 0..L /\ (y = L \/ x < y)
    BY <1>1, <2>1, <2>2, <2>3, <2>5
  <2>8. ASSUME NEW n \in 0..L - 1, x < n, n < y PROVE n \in bitTrue
    <3>1. n \in i..L - 1
      BY <1>1, <2>1, <2>2, <2>8
    <3> QED BY <2>5, <2>8, <3>1
  <2> QED BY <2>5, <2>6, <2>7, <2>8
<1> HIDE DEF base, step
<1>4. \E f : IsIteration(f, base, G, 0..L)
  <2>1. G \in [Nat -> [0..L -> 0..L]]
    BY <1>3
  <2> HIDE DEF G, L
  <2> QED BY <1>2, <2>1, Iterates
<1>5. PICK w : w \in [Nat -> 0..L] /\ w[0] = base /\ \A n \in Nat : w[n + 1] = step(w[n])
  <2>1. PICK f : IsIteration(f, base, G, 0..L)
    BY <1>4
  <2>2. f \in [Nat -> 0..L] /\ f[0] = base /\ \A n \in Nat : f[n + 1] = G[n][f[n]]
    <3> HIDE DEF G, L
    <3> QED BY <2>1 DEF IsIteration
  <2>3. ASSUME NEW n \in Nat PROVE G[n][f[n]] = step(f[n])
    BY <2>2
  <2> HIDE DEF G
  <2> QED BY <2>2, <2>3
<1> DEFINE W == [k \in 0..L |-> w[k]]
<1>6. W = F(W)
  <2>1. ASSUME NEW k \in 0..L PROVE W[k] = F(W)[k]
    <3>1. CASE k = 0
      <4>1. F(W)[k] = NextUnset(0)
        BY <3>1
      <4>2. W[k] = w[k]
        OBVIOUS
      <4> HIDE DEF F, W
      <4> QED BY <1>5, <3>1, <4>1, <4>2 DEF base
    <3>2. CASE k # 0
      <4>1. k - 1 \in Nat /\ k - 1 \in 0..L /\ (k - 1) + 1 = k
        BY <1>1, <3>2
      <4>2. w[(k - 1) + 1] = step(w[k - 1])
        BY <1>5, <4>1
      <4>3. W[k] = w[k] /\ W[k - 1] = w[k - 1]
        BY <4>1
      <4>4. F(W)[k] = step(W[k - 1])
        BY <3>2 DEF step
      <4> HIDE DEF F, W
      <4> QED BY <4>1, <4>2, <4>3, <4>4
    <3> QED BY <3>1, <3>2
  <2> QED BY <2>1
<1>7. V = CHOOSE f : f = F(f)
  BY DEF UnsetVisited
<1>8. V = F(V)
  <2> HIDE DEF F, V, W
  <2> QED BY <1>6, <1>7
<1>9. DOMAIN V = 0..L /\ V[0] = base
  <2>1. DOMAIN F(V) = 0..L /\ F(V)[0] = base
    BY <1>1 DEF base
  <2> HIDE DEF F, V
  <2> QED BY <1>8, <2>1
<1>10. ASSUME NEW k \in 0..L, k + 1 \in 0..L PROVE V[k + 1] = step(V[k])
  <2>1. k + 1 # 0 /\ (k + 1) - 1 = k
    OBVIOUS
  <2>2. F(V)[k + 1] = step(V[k])
    BY <1>10, <2>1 DEF step
  <2> HIDE DEF F, V
  <2> QED BY <1>8, <2>2
<1> HIDE DEF V, F, W, G, L
<1> DEFINE Reached(k) == V[k] \in 0..L /\ V[k] >= k /\ (V[k] = L \/ V[k] \notin bitTrue)
           Passed(k) == \A n \in 0..L - 1 : n < V[k] /\ n \notin bitTrue => \E j \in 0..L : V[j] = n
           T == {k \in Nat : k <= L => Reached(k) /\ Passed(k)}
<1>11. 0 \in T
  <2>1. Reached(0)
    BY <1>1, <1>2, <1>9
  <2>2. Passed(0)
    BY <1>2, <1>9
  <2> QED BY <2>1, <2>2
<1>12. ASSUME NEW k \in Nat, k \in T PROVE k + 1 \in T
  <2> SUFFICES ASSUME k + 1 <= L PROVE Reached(k + 1) /\ Passed(k + 1)
    OBVIOUS
  <2>1. k \in 0..L /\ k + 1 \in 0..L /\ k <= L
    BY <1>1
  <2>2. Reached(k) /\ Passed(k)
    BY <1>12, <2>1
  <2> DEFINE x == V[k]
             y == V[k + 1]
  <2>3. y = step(x)
    BY <1>10, <2>1
  <2>4. x \in 0..L /\ x >= k /\ (x = L \/ x \notin bitTrue)
    BY <2>2
  <2> HIDE DEF x, y
  <2>5. /\ y \in 0..L /\ (y = L \/ y \notin bitTrue) /\ (y = L \/ x < y)
        /\ \A n \in 0..L - 1 : x < n /\ n < y => n \in bitTrue
    BY <1>3, <2>3, <2>4
  <2>6. Reached(k + 1)
    <3>1. y >= k + 1
      BY <1>1, <2>1, <2>4, <2>5
    <3> QED BY <2>5, <3>1 DEF y
  <2>7. Passed(k + 1)
    <3> SUFFICES ASSUME NEW n \in 0..L - 1, n < y, n \notin bitTrue PROVE \E j \in 0..L : V[j] = n
      BY DEF y
    <3>1. n \in Nat /\ x \in Nat
      BY <1>1, <2>4
    <3>2. CASE n < x
      BY <2>2, <3>2 DEF x
    <3>3. CASE n = x
      BY <2>1, <3>3 DEF x
    <3>4. CASE x < n
      BY <2>5, <3>4
    <3> QED BY <3>1, <3>2, <3>3, <3>4
  <2> QED BY <2>6, <2>7
<1>13. \A k \in 0..L : Reached(k) /\ Passed(k)
  <2>1. Nat \subseteq T
    <3> HIDE DEF T
    <3> QED BY <1>11, <1>12, SetInduction
  <2> HIDE DEF Reached, Passed
  <2> QED BY <1>1, <2>1
<1>14. V \in [0..L -> 0..L]
  <2>1. V = [k \in 0..L |-> V[k]]
    BY <1>8, <1>9 DEF F
  <2> QED BY <1>13, <2>1
<1>15. ASSUME NEW k \in 1..L PROVE V[k] = L \/ V[k - 1] < V[k]
  <2>1. k - 1 \in 0..L /\ (k - 1) + 1 = k /\ (k - 1) + 1 \in 0..L
    BY <1>1
  <2>2. V[(k - 1) + 1] = step(V[k - 1])
    BY <1>10, <2>1
  <2>3. V[k - 1] \in 0..L
    BY <1>14, <2>1
  <2> QED BY <1>3, <2>1, <2>2, <2>3
<1>16. VisitsAt(V)
  BY <1>13, <1>14, <1>15 DEF VisitsAt, L
<1> QED BY <1>16 DEF V

\* The bits of a byte are as many as the set has there.
LEMMA ByteHas ==
  ASSUME NEW m, BitHolds(m), NEW i \in 0..m - 1
  PROVE  /\ IsFiniteSet(bitTrue \intersect (ByteBits * i..ByteBits * i + ByteBits - 1))
         /\ Cardinality(bitTrue \intersect (ByteBits * i..ByteBits * i + ByteBits - 1)) = Cardinality(bitData[i + 1])
<1> DEFINE B == ByteBits
           group == bitTrue \intersect (B * i..B * i + B - 1)
           byte == bitData[i + 1]
           f == [o \in byte |-> B * i + o]
<1>1. B \in Nat \ {0} /\ m \in Nat /\ i \in Nat /\ B * i \in Nat /\ B * m \in Nat
  BY BitAssumption DEF BitHolds
<1>2. byte \subseteq 0..B - 1
  BY <1>1 DEF BitHolds, Stored
<1>3. ASSUME NEW o \in 0..B - 1 PROVE B * i + o \in 0..B * m - 1 /\ (B * i + o \in bitTrue <=> o \in byte)
  <2> DEFINE n == B * i + o
  <2>1. n \in 0..B * m - 1
    <3> HIDE DEF B
    <3> QED BY <1>1, Below
  <2>2. n \div B = i /\ n % B = o
    <3> HIDE DEF B
    <3> QED BY <1>1, PlaceOf
  <2> HIDE DEF n
  <2>3. n \in bitTrue <=> n % B \in bitData[n \div B + 1]
    BY <2>1 DEF BitHolds, Stored, HasBit
  <2>4. n \in bitTrue <=> o \in byte
    <3> HIDE DEF B
    <3> QED BY <2>2, <2>3
  <2> QED BY <2>1, <2>4 DEF n
<1>4. IsFiniteSet(byte)
  <2> HIDE DEF byte, B
  <2>1. 0 \in Int /\ B - 1 \in Int
    BY <1>1
  <2>2. IsFiniteSet(0..B - 1)
    BY <2>1, FS_Interval
  <2> QED BY <1>2, <2>2, FS_Subset
<1>5. f \in Bijection(byte, group)
  <2> HIDE DEF byte, B
  <2>1. f \in [byte -> group]
    <3>1. ASSUME NEW o \in byte PROVE B * i + o \in group
      <4>1. o \in 0..B - 1 /\ B * i + o \in bitTrue
        BY <1>2, <1>3
      <4>2. B * i + o \in B * i..B * i + B - 1
        BY <1>1, <4>1
      <4> QED BY <4>1, <4>2
    <3> QED BY <3>1
  <2>2. IsInjective(f)
    <3>1. ASSUME NEW o \in byte, NEW p \in byte, f[o] = f[p] PROVE o = p
      <4>1. B * i + o = B * i + p /\ o \in 0..B - 1 /\ p \in 0..B - 1
        BY <1>2, <3>1
      <4> QED BY <1>1, <4>1
    <3>2. DOMAIN f = byte
      OBVIOUS
    <3> HIDE DEF f
    <3> QED BY <3>1, <3>2 DEF IsInjective
  <2>3. ASSUME NEW n \in group PROVE \E o \in byte : f[o] = n
    <3> DEFINE o == n - B * i
    <3>1. n \in B * i..B * i + B - 1 /\ n \in bitTrue
      OBVIOUS
    <3>2. o \in 0..B - 1 /\ B * i + o = n
      BY <1>1, <3>1
    <3>3. o \in byte
      BY <1>3, <3>1, <3>2
    <3>4. f[o] = n
      BY <3>2, <3>3
    <3> QED BY <3>3, <3>4
  <2> HIDE DEF f, group
  <2> QED BY <2>1, <2>2, <2>3 DEF Bijection, Injection, Surjection
<1>6. ExistsBijection(byte, group)
  BY <1>5 DEF ExistsBijection
<1>7. IsFiniteSet(group) /\ Cardinality(group) = Cardinality(byte)
  <2> HIDE DEF byte, group
  <2> QED BY <1>4, <1>6, FS_Bijection
<1> QED BY <1>7 DEF group, byte, B

\* count_set counts the bits that are set.
LEMMA PopcountIs ==
  ASSUME NEW m, BitHolds(m)
  PROVE  Popcount = Cardinality(bitTrue)
<1> DEFINE B == ByteBits
           F(f) == [i \in 0..m |-> IF i = 0 THEN 0 ELSE f[i - 1] + Cardinality(bitData[i])]
           V == CHOOSE f : f = F(f)
           under(i) == bitTrue \intersect (0..B * i - 1)
           W == [i \in 0..m |-> Cardinality(under(i))]
<1>1. B \in Nat \ {0} /\ m \in Nat /\ B * 0 = 0
  BY BitAssumption DEF BitHolds
<1>2. Len(bitData) = m
  BY <1>1, SequenceIs DEF BitHolds, Stored
<1>3. Popcount = V[m]
  BY <1>2 DEF Popcount
<1>4. \A i \in 0..m : IsFiniteSet(under(i))
  <2>1. ASSUME NEW i \in 0..m PROVE IsFiniteSet(under(i))
    <3>1. 0 \in Int /\ B * i - 1 \in Int
      BY <1>1
    <3>2. IsFiniteSet(0..B * i - 1)
      <4> HIDE DEF B
      <4> QED BY <3>1, FS_Interval
    <3>3. under(i) \subseteq 0..B * i - 1
      OBVIOUS
    <3> HIDE DEF under
    <3> QED BY <3>2, <3>3, FS_Subset
  <2> QED BY <2>1
<1>5. ASSUME NEW i \in 0..m, i # 0
      PROVE  Cardinality(under(i)) = Cardinality(under(i - 1)) + Cardinality(bitData[i])
  <2> DEFINE j == i - 1
             group == bitTrue \intersect (B * j..B * j + B - 1)
  <2>1. j \in 0..m - 1 /\ j \in 0..m /\ j + 1 = i
    BY <1>1, <1>5
  <2>2. IsFiniteSet(group) /\ Cardinality(group) = Cardinality(bitData[i])
    <3>1. IsFiniteSet(group) /\ Cardinality(group) = Cardinality(bitData[j + 1])
      <4> HIDE DEF j
      <4> QED BY <2>1, ByteHas
    <3> QED BY <2>1, <3>1
  <2>3. under(i) = under(j) \union group /\ under(j) \intersect group = {}
    <3>1. B * i = B * j + B /\ B * j \in Nat
      BY <1>1, <2>1
    <3> HIDE DEF B, j
    <3>2. (0..B * i - 1) = (0..B * j - 1) \union (B * j..B * j + B - 1)
      BY <1>1, <3>1
    <3>3. (0..B * j - 1) \intersect (B * j..B * j + B - 1) = {}
      BY <1>1, <3>1
    <3> QED BY <3>2, <3>3
  <2>4. IsFiniteSet(under(j))
    BY <1>4, <2>1
  <2> HIDE DEF under, group, j
  <2>5. Cardinality(under(i)) = Cardinality(under(j)) + Cardinality(group) - Cardinality({})
    BY <2>2, <2>3, <2>4, FS_Union
  <2>6. Cardinality({}) = 0
    BY FS_EmptySet
  <2>7. Cardinality(under(j)) \in Nat /\ Cardinality(group) \in Nat
    BY <2>2, <2>4, FS_CardinalityType
  <2>8. Cardinality(under(i)) = Cardinality(under(j)) + Cardinality(group)
    BY <2>5, <2>6, <2>7
  <2> QED BY <2>2, <2>8 DEF j
<1>6. under(0) = {}
  BY <1>1
<1>7. under(m) = bitTrue
  BY DEF BitHolds
<1> HIDE DEF under, B
<1>8. Cardinality(under(0)) = 0
  BY <1>6, FS_EmptySet
<1>9. W = F(W)
  <2>1. ASSUME NEW i \in 0..m PROVE W[i] = F(W)[i]
    <3>1. CASE i = 0
      BY <1>8, <3>1
    <3>2. CASE i # 0
      <4>1. i - 1 \in 0..m
        BY <1>1, <3>2
      <4>2. W[i] = Cardinality(under(i)) /\ W[i - 1] = Cardinality(under(i - 1))
        BY <4>1
      <4>3. F(W)[i] = W[i - 1] + Cardinality(bitData[i])
        BY <3>2
      <4> HIDE DEF F, W
      <4> QED BY <1>5, <3>2, <4>2, <4>3
    <3> QED BY <3>1, <3>2
  <2> QED BY <2>1
<1>10. V = F(V)
  <2> HIDE DEF F, W
  <2> QED BY <1>9
<1> HIDE DEF V
<1>11. V[0] = 0
  BY <1>1, <1>10
<1>12. ASSUME NEW i \in 0..m, i + 1 \in 0..m PROVE V[i + 1] = V[i] + Cardinality(bitData[i + 1])
  <2>1. i + 1 # 0 /\ (i + 1) - 1 = i
    OBVIOUS
  <2>2. F(V)[i + 1] = V[i] + Cardinality(bitData[i + 1])
    BY <1>12, <2>1
  <2> HIDE DEF F
  <2> QED BY <1>10, <2>2
<1> HIDE DEF F, W
<1> DEFINE T == {i \in Nat : i <= m => V[i] = Cardinality(under(i))}
<1>13. 0 \in T
  BY <1>8, <1>11
<1>14. ASSUME NEW i \in Nat, i \in T PROVE i + 1 \in T
  <2> SUFFICES ASSUME i + 1 <= m PROVE V[i + 1] = Cardinality(under(i + 1))
    OBVIOUS
  <2>1. i \in 0..m /\ i + 1 \in 0..m /\ i + 1 # 0 /\ (i + 1) - 1 = i
    BY <1>1
  <2>2. V[i] = Cardinality(under(i))
    BY <1>14, <2>1
  <2>3. V[i + 1] = V[i] + Cardinality(bitData[i + 1])
    BY <1>12, <2>1
  <2>4. Cardinality(under(i + 1)) = Cardinality(under((i + 1) - 1)) + Cardinality(bitData[i + 1])
    BY <1>5, <2>1
  <2> QED BY <2>1, <2>2, <2>3, <2>4
<1>15. V[m] = Cardinality(under(m))
  <2>1. Nat \subseteq T
    <3> HIDE DEF T
    <3> QED BY <1>13, <1>14, SetInduction
  <2> QED BY <1>1, <2>1
<1> QED BY <1>3, <1>7, <1>15

\* test_all finds whether every bit is set, when the last byte is not whole.
LEMMA TestAllIs ==
  ASSUME NEW m, BitHolds(m), IsFixed, bitLength % ByteBits # 0
  PROVE  TestAll <=> bitTrue = 0..bitLength - 1
<1> DEFINE B == ByteBits
           L == bitLength
           q == L \div B
           r == L % B
           last == CeilDiv(L, B)
<1>1. B \in Nat \ {0} /\ m \in Nat /\ L \in Nat /\ L > 0 /\ m = last
  BY BitAssumption DEF BitHolds, KindHolds
<1>2. last = q + 1
  <2> HIDE DEF L, B
  <2> QED BY <1>1, CeilDivIs DEF L, B
<1>3. q \in Nat /\ r \in 0..B - 1 /\ L = B * q + r
  BY <1>1, PlaceIs
<1>4. bitTrue \subseteq 0..L - 1
  BY KindsAre DEF BitHolds, KindHolds
<1>5. bitData \in [1..m -> SUBSET (0..B - 1)]
  BY DEF BitHolds, Stored
<1>6. ASSUME NEW i \in 0..q, NEW o \in 0..B - 1 PROVE B * i + o \in bitTrue <=> o \in bitData[i + 1]
  <2> DEFINE n == B * i + o
  <2>1. i \in Nat /\ i \in 0..m - 1
    BY <1>1, <1>2, <1>3
  <2>2. n \in 0..B * m - 1
    <3> HIDE DEF B
    <3> QED BY <1>1, <2>1, Below
  <2>3. n \div B = i /\ n % B = o
    <3> HIDE DEF B
    <3> QED BY <1>1, <2>1, PlaceOf
  <2> HIDE DEF n
  <2>4. n \in bitTrue <=> n % B \in bitData[n \div B + 1]
    BY <2>2 DEF BitHolds, Stored, HasBit
  <2> HIDE DEF B
  <2> QED BY <2>3, <2>4 DEF n
<1>7. TestAll <=> /\ IsSet => bitHighest = L - 1
                  /\ \A i \in 1..last - 1 : bitData[i] = 0..B - 1
                  /\ bitData[last] = 0..r - 1
  BY DEF TestAll, IsSet
<1> HIDE DEF B, L, q, r, last
<1>8. ASSUME bitTrue = 0..L - 1 PROVE TestAll
  <2>1. IsSet => bitHighest = L - 1
    <3> SUFFICES ASSUME IsSet PROVE bitHighest = L - 1
      OBVIOUS
    <3>1. bitHighest \in bitTrue \union {0} /\ \A n \in bitTrue : n <= bitHighest
      BY DEF BitHolds, KindHolds, Highest
    <3>2. L - 1 \in bitTrue
      BY <1>1, <1>8
    <3>3. L - 1 <= bitHighest /\ bitHighest \in 0..L - 1
      BY <1>1, <1>8, <3>1, <3>2
    <3> QED BY <1>1, <3>3
  <2>2. ASSUME NEW i \in 1..last - 1 PROVE bitData[i] = 0..B - 1
    <3>1. i - 1 \in 0..q - 1 /\ i - 1 \in 0..q /\ (i - 1) + 1 = i /\ i \in 1..m
      BY <1>1, <1>2, <1>3
    <3> DEFINE j == i - 1
    <3>2. ASSUME NEW o \in 0..B - 1 PROVE o \in bitData[i]
      <4>1. B * j + o \in 0..B * q - 1 /\ B * q \in Nat
        <5> HIDE DEF j
        <5> QED BY <1>1, <1>3, <3>1, Below DEF j
      <4>2. B * j + o \in 0..L - 1
        <5>1. B * j + o \in Nat
          BY <4>1
        <5> DEFINE n == B * j + o
                   k == B * q
        <5>2. n \in 0..k - 1 /\ k \in Nat /\ L = k + r
          BY <1>3, <4>1
        <5> HIDE DEF n, k
        <5>3. n \in 0..L - 1
          BY <1>3, <5>2
        <5> QED BY <5>3 DEF n
      <4>3. B * j + o \in bitTrue
        BY <1>8, <4>2
      <4>4. o \in bitData[j + 1]
        <5> HIDE DEF j
        <5> QED BY <1>6, <3>1, <4>3 DEF j
      <4> QED BY <3>1, <4>4
    <3>3. bitData[i] \subseteq 0..B - 1
      BY <1>5, <3>1
    <3> QED BY <3>2, <3>3
  <2>3. bitData[last] = 0..r - 1
    <3>1. last \in 1..m /\ q \in 0..q /\ q + 1 = last
      BY <1>1, <1>2, <1>3
    <3>2. bitData[last] \subseteq 0..B - 1
      BY <1>5, <3>1
    <3>3. ASSUME NEW o \in 0..B - 1 PROVE o \in bitData[last] <=> o \in 0..r - 1
      <4>1. o \in bitData[last] <=> B * q + o \in bitTrue
        BY <1>6, <3>1
      <4>2. B * q + o \in 0..L - 1 <=> o \in 0..r - 1
        <5> DEFINE k == B * q
        <5>1. k \in Nat /\ L = k + r
          BY <1>1, <1>3
        <5> HIDE DEF k
        <5>2. k + o \in 0..L - 1 <=> o \in 0..r - 1
          BY <1>3, <5>1
        <5> QED BY <5>2 DEF k
      <4> QED BY <1>8, <4>1, <4>2
    <3>4. 0..r - 1 \subseteq 0..B - 1
      BY <1>1, <1>3
    <3> QED BY <3>2, <3>3, <3>4
  <2> QED BY <1>7, <2>1, <2>2, <2>3
<1>9. ASSUME TestAll PROVE bitTrue = 0..L - 1
  <2>1. /\ \A i \in 1..last - 1 : bitData[i] = 0..B - 1
        /\ bitData[last] = 0..r - 1
    BY <1>7, <1>9
  <2>2. ASSUME NEW n \in 0..L - 1 PROVE n \in bitTrue
    <3> DEFINE i == n \div B
               o == n % B
    <3>1. n \in Nat /\ n < L
      BY <1>1
    <3>2. i \in Nat /\ o \in 0..B - 1 /\ n = B * i + o
      BY <1>1, <3>1, PlaceIs
    <3> HIDE DEF i, o
    <3>3. i <= q
      <4>1. ASSUME i > q PROVE FALSE
        <5>1. PICK d \in Nat : i = q + 1 + d
          <6>1. i - q - 1 \in Nat /\ i = q + 1 + (i - q - 1)
            BY <1>3, <3>2, <4>1
          <6> QED BY <6>1
        <5>2. B * i = B * q + B + B * d /\ B * d \in Nat /\ B * q \in Nat
          BY <1>1, <1>3, <5>1
        <5> QED BY <1>1, <1>3, <3>1, <3>2, <5>2
      <4> QED BY <1>3, <3>2, <4>1
    <3>4. i \in 0..q
      BY <1>3, <3>2, <3>3
    <3>5. B * i + o \in bitTrue <=> o \in bitData[i + 1]
      BY <1>6, <3>2, <3>4
    <3>6. CASE i < q
      <4>1. i + 1 \in 1..last - 1
        BY <1>2, <1>3, <3>4, <3>6
      <4> QED BY <2>1, <3>2, <3>5, <4>1
    <3>7. CASE i = q
      <4>1. o < r
        <5> DEFINE k == B * q
        <5>1. k \in Nat /\ L = k + r /\ n = k + o
          BY <1>1, <1>3, <3>2, <3>7
        <5> HIDE DEF k
        <5> QED BY <1>3, <3>1, <3>2, <5>1
      <4>2. o \in bitData[i + 1]
        BY <1>2, <1>3, <2>1, <3>2, <3>7, <4>1
      <4> QED BY <3>2, <3>5, <4>2
    <3> QED BY <1>3, <3>4, <3>6, <3>7
  <2> QED BY <1>4, <2>2
<1> QED BY <1>8, <1>9 DEF L

\* So the bits are those that were set.
LEMMA BitInvAgrees == BitInv => BitTypeOK /\ BitsAgree
<1> SUFFICES ASSUME BitInv PROVE BitTypeOK /\ BitsAgree
  OBVIOUS
<1>1. PICK m : BitHolds(m)
  BY DEF BitInv
<1>2. bitKind \in Kinds /\ m \in Nat /\ bitLength \in Nat /\ KindHolds(m)
  BY <1>1 DEF BitHolds
<1>3. bitData \in Seq(SUBSET (0..ByteBits - 1)) /\ Len(bitData) = m
  BY <1>1, <1>2, SequenceIs DEF BitHolds, Stored
<1>4. \A n \in 0..ByteBits * Len(bitData) - 1 : TestBit(n) <=> n \in bitTrue
  <2>1. \A n \in 0..ByteBits * m - 1 : TestBit(n) <=> n \in bitTrue
    BY <1>1 DEF BitHolds, Stored, HasBit, TestBit
  <2> QED BY <1>3, <2>1
<1>5. ASSUME IsSet PROVE bitHighest = Max(bitTrue \union {0}) /\ bitHighest \in 0..bitLength - 1
  <2> DEFINE T == bitTrue \union {0}
  <2>1. bitHighest \in T /\ \A n \in bitTrue : n <= bitHighest
    BY <1>2, <1>5 DEF KindHolds, Highest
  <2>2. bitLength > 0 /\ bitTrue \subseteq 0..bitLength - 1
    BY <1>2, <1>5, KindsAre DEF KindHolds
  <2>3. T \subseteq 0..bitLength - 1 /\ T # {} /\ bitLength - 1 \in Nat
    BY <1>2, <2>2
  <2>4. \A n \in T : n <= bitHighest
    BY <2>1, <2>3
  <2>5. Max(T) \in T /\ \A y \in T : y <= Max(T)
    <3> HIDE DEF T
    <3> QED BY <2>3, GreatestIsMax
  <2>6. bitHighest <= Max(T) /\ Max(T) <= bitHighest
    <3> HIDE DEF T
    <3> QED BY <2>1, <2>4, <2>5
  <2>7. bitHighest = Max(T)
    <3> DEFINE M == Max(T)
    <3>1. M \in T /\ bitHighest \in T /\ bitHighest <= M /\ M <= bitHighest
      BY <2>1, <2>5, <2>6
    <3> HIDE DEF T, M
    <3>2. M \in Int /\ bitHighest \in Int
      BY <2>3, <3>1
    <3>3. bitHighest = M
      BY <3>1, <3>2
    <3> QED BY <3>3 DEF M
  <2> QED BY <2>1, <2>3, <2>7
<1>6. ASSUME IsFixed
      PROVE  Range(UnsetVisited) = (0..bitLength) \ bitTrue
  <2> DEFINE V == UnsetVisited
             L == bitLength
  <2>1. VisitsAt(V)
    BY <1>1, UnsetVisitedIs
  <2> HIDE DEF V
  <2>2. /\ V \in [0..L -> 0..L] /\ \A k \in 0..L : V[k] = L \/ V[k] \notin bitTrue
        /\ \A k \in 0..L : V[k] >= k
        /\ \A k \in 0..L : \A n \in 0..L - 1 : n < V[k] /\ n \notin bitTrue => \E j \in 0..L : V[j] = n
    BY <2>1 DEF VisitsAt
  <2>3. bitTrue \subseteq 0..L - 1
    BY <1>2, <1>6, KindsAre DEF KindHolds
  <2>4. L \in Nat /\ L \in 0..L /\ L \notin bitTrue
    BY <1>2, <2>3
  <2> HIDE DEF L
  <2>5. V[L] = L
    <3>1. V[L] \in 0..L /\ V[L] >= L
      BY <2>2, <2>4
    <3> QED BY <2>4, <3>1
  <2>6. Range(V) = {V[k] : k \in 0..L}
    BY <2>2 DEF Range
  <2>7. ASSUME NEW k \in 0..L PROVE V[k] \in (0..L) \ bitTrue
    BY <2>2, <2>4
  <2>8. ASSUME NEW n \in (0..L) \ bitTrue PROVE n \in {V[k] : k \in 0..L}
    <3>1. CASE n = L
      BY <2>4, <2>5, <3>1
    <3>2. CASE n # L
      <4>1. n \in 0..L - 1 /\ n < V[L] /\ n \notin bitTrue
        BY <2>4, <2>5, <3>2
      <4>2. \E j \in 0..L : V[j] = n
        BY <2>2, <2>4, <4>1
      <4> QED BY <4>2
    <3> QED BY <3>1, <3>2
  <2> QED BY <2>6, <2>7, <2>8 DEF V, L
<1>7. \A k \in 1..bitLength : UnsetVisited[k] = bitLength \/ UnsetVisited[k - 1] < UnsetVisited[k]
  BY <1>1, UnsetVisitedIs DEF VisitsAt
<1>8. Popcount = Cardinality(bitTrue)
  BY <1>1, PopcountIs
<1>9. IsFixed /\ bitLength % ByteBits # 0 => (TestAll <=> bitTrue = 0..bitLength - 1)
  BY <1>1, TestAllIs
<1>10. BitsAgree
  BY <1>4, <1>5, <1>6, <1>7, <1>8, <1>9 DEF BitsAgree, IsFixed, IsSet
<1>11. bitHighest \in 0..Max({bitLength - 1, 0})
  <2> DEFINE T == {bitLength - 1, 0}
  <2>1. CASE IsSet
    <3>1. bitHighest \in 0..bitLength - 1 /\ bitLength > 0
      BY <1>2, <1>5, <2>1, KindsAre DEF KindHolds
    <3>2. T \subseteq 0..bitLength - 1 /\ T # {} /\ bitLength - 1 \in Nat /\ bitLength - 1 \in T
      BY <1>2, <3>1
    <3>3. Max(T) \in T /\ bitLength - 1 <= Max(T)
      <4> HIDE DEF T
      <4> QED BY <3>2, GreatestIsMax
    <3>4. Max(T) \in Nat
      BY <3>2, <3>3
    <3> HIDE DEF T
    <3>5. bitHighest \in 0..Max(T)
      BY <1>2, <3>1, <3>3, <3>4
    <3> QED BY <3>5 DEF T
  <2>2. CASE ~IsSet
    <3>1. bitHighest = 0
      BY <1>2, <2>2 DEF KindHolds
    <3>2. Max(T) \in Nat
      <4>1. CASE bitLength = 0
        <5>1. T = {-1, 0}
          BY <4>1
        <5>2. \E x \in T : \A y \in T : x >= y
          BY <5>1
        <5>3. Max(T) \in T /\ \A y \in T : Max(T) >= y
          <6> HIDE DEF T
          <6> QED BY <5>2 DEF Max
        <5>4. Max(T) = 0
          BY <5>1, <5>3
        <5> QED BY <5>4
      <4>2. CASE bitLength # 0
        <5>1. T \subseteq 0..bitLength - 1 /\ T # {} /\ bitLength - 1 \in Nat
          BY <1>2, <4>2
        <5>2. Max(T) \in T
          <6> HIDE DEF T
          <6> QED BY <5>1, GreatestIsMax
        <5> QED BY <5>1, <5>2
      <4> QED BY <4>1, <4>2
    <3> HIDE DEF T
    <3>3. bitHighest \in 0..Max(T)
      BY <3>1, <3>2
    <3> QED BY <3>3 DEF T
  <2> QED BY <2>1, <2>2
<1>12. BitTypeOK
  BY <1>2, <1>3, <1>11 DEF BitTypeOK
<1> QED BY <1>10, <1>12

-----------------------------------------------------------------------------
(* Together *)

\* A step of the program is a step of each component or leaves it as it is.
LEMMA OneServiceSteps ==
  ASSUME [Next]_vars
  PROVE  /\ [HeapNext]_heapVars /\ [BumpNext]_bumpVars /\ [GrowNext]_growVars /\ [FreeNext]_freeVars
         /\ [DenseNext]_denseVars /\ [FileNext]_fileVars /\ [PathNext]_pathVars /\ [SerialNext]_serVars
         /\ [BitNext]_bitVars /\ [PanicNext]_panicVars
<1>1. CASE HeapStep
  BY <1>1 DEF HeapStep, poolVars, dataVars
<1>2. CASE PoolStep
  BY <1>2 DEF PoolStep, BumpStep, GrowStep, FreeStep, DenseStep, dataVars
<1>3. CASE FileStep
  BY <1>3 DEF FileStep, poolVars, dataVars
<1>4. CASE DataStep
  BY <1>4 DEF DataStep, PathStep, SerialStep, BitStep, poolVars
<1>5. CASE ThreadStep
  BY <1>5 DEF ThreadStep, poolVars, dataVars
<1>6. CASE UNCHANGED vars
  BY <1>6 DEF vars, poolVars, dataVars
<1> QED BY <1>1, <1>2, <1>3, <1>4, <1>5, <1>6 DEF Next

\* PoolsDisjoint: what MemoryPool, GrowingMemoryPool, FreelistBlockAllocator and
\* DenseBlockAllocator have given out never overlaps, is aligned and lies in memory they have,
\* also when pools are freed and moved, when an element goes back to the free list and when a
\* block moves to another place of the array.
THEOREM PoolsAreDisjoint == Spec => []PoolsDisjoint
<1> DEFINE Inv == BumpInv /\ GrowInv /\ FreeInv /\ DenseInv
<1>1. Init => Inv
  BY BumpInitially, GrowInitially, FreeInitInv, DenseInitInv DEF Init
<1>2. Inv /\ [Next]_vars => Inv'
  BY OneServiceSteps, BumpInductive, GrowInductive, FreeInductive, DenseInductive
<1>3. Inv => PoolsDisjoint
  BY BumpInvPlaced, GrowInvPlaced, FreeInvPlaced, DenseInvPlaced DEF PoolsDisjoint
<1> QED BY <1>1, <1>2, <1>3, PTL DEF Spec

\* PoolsDestruct: an object of a GrowingMemoryPool is destructed exactly once, by whoever frees
\* the pool it was moved to; free_all of a FreelistBlockAllocator destructs each object that is
\* left, and beyond these at most one element, whose bytes are zero: the last of the free list,
\* for the second time if there was an object in it.
THEOREM DestroyedExactlyOnce == Spec => []PoolsDestruct
<1> DEFINE Inv == GrowInv /\ GrowListed /\ FreeInv
<1>1. Init => Inv
  BY GrowInitially, GrowListedInitially, FreeInitInv DEF Init
<1>2. Inv /\ [Next]_vars => Inv'
  BY OneServiceSteps, GrowInductive, GrowListedInductive, FreeInductive
<1>3. Inv => PoolsDestruct
  BY GrowListedOnce, FreeInvPlaced DEF PoolsDestruct
<1> QED BY <1>1, <1>2, <1>3, PTL DEF Spec

\* ThreadsSound: the records of a thread are freed once and after their last use, whichever of
\* the thread and its handle is done with them last; threads that run have ids of their own;
\* no message but that of a panic while panicking is written beside another; and no thread calls
\* the callback twice, also when the callback panics (panic, utility.cpp).
THEOREM ThreadsAreSound == Spec => []ThreadsSound
<1>1. Init => PanicInv
  BY PanicInitially DEF Init
<1>2. PanicInv /\ [Next]_vars => PanicInv'
  BY OneServiceSteps, PanicInductive
<1> QED BY <1>1, <1>2, PanicInvSound, PTL DEF Spec

\* No process ends without the message of a thread that panicked, written in full
\* (panic, utility.cpp).
THEOREM EndsReported == Spec => [](panicEnded => panicReported # {})
<1>1. Init => PanicInv
  BY PanicInitially DEF Init
<1>2. PanicInv /\ [Next]_vars => PanicInv'
  BY OneServiceSteps, PanicInductive
<1>3. PanicInv => (panicEnded => panicReported # {})
  BY DEF PanicInv, Reported
<1> QED BY <1>1, <1>2, <1>3, PTL DEF Spec

\* CounterExact: the table of ALLOC_COUNTER has each live allocation once and with its size,
\* and its totals are right, whatever was moved by realloc and freed in whatever order.
THEOREM CounterIsExact == Spec => []CounterExact
<1>1. Init => HeapInv
  BY HeapInitInv DEF Init
<1>2. HeapInv /\ [Next]_vars => HeapInv'
  BY OneServiceSteps, HeapInductive
<1>3. HeapInv => CounterExact
  BY HeapInvExact
<1> QED BY <1>1, <1>2, <1>3, PTL DEF Spec

\* FileAgrees: a file is what the caller wrote and read through the buffer, as long as the
\* caller reads where FileData::small_buffer_read can load what it asks for.
THEOREM FilesAgree == ~AnyRead => (Spec => []FileAgrees)
<1> SUFFICES ASSUME ~AnyRead PROVE Spec => []FileAgrees
  OBVIOUS
<1>1. Init => FileInv
  BY FileInitInv DEF Init
<1>2. FileInv /\ [Next]_vars => FileInv'
  BY OneServiceSteps, FileInductive
<1>3. FileInv => FileAgrees
  BY FileInvAgrees
<1> QED BY <1>1, <1>2, <1>3, PTL DEF Spec

\* PathsNormal: a normalized path leads where the path leads, has no `.' and has `..' only in
\* front of a relative path, and is what normalizing makes of it.
THEOREM PathsAreNormal == Spec => []PathsNormal
<1>1. Init => PathInv
  BY PathInitInv DEF Init
<1>2. PathInv /\ [Next]_vars => PathInv'
  BY OneServiceSteps, PathInductive
<1>3. PathInv => PathsNormal
  BY PathInvNormal
<1> QED BY <1>1, <1>2, <1>3, PTL DEF Spec

\* RoundTrip: what a deserializer reads by the types it was written by is what was written,
\* integers with and without a sign, views and runs of zeros, in either order of the bytes, and
\* nothing is left; a read for which there is not enough changes nothing.
THEOREM ItemsComeBack == Spec => []RoundTrip
<1>1. Init => SerInv
  BY SerInitInv DEF Init
<1>2. SerInv /\ [Next]_vars => SerInv'
  BY OneServiceSteps, SerialInductive
<1>3. SerInv => RoundTrip
  BY SerInvBack
<1> QED BY <1>1, <1>2, <1>3, PTL DEF Spec

\* BitsAgree: a bit of an array or of a matrix is there if and only if it was set last, past the
\* end too; count_set, test_all and highest_set are right, and the iterator gives out every bit
\* that is not set, in order, though it passes over whole bytes.
THEOREM BitsAreRight == Spec => []BitsAgree
<1>1. Init => BitInv
  BY BitInitInv DEF Init
<1>2. BitInv /\ [Next]_vars => BitInv'
  BY OneServiceSteps, BitInductive
<1>3. BitInv => BitsAgree
  BY BitInvAgrees
<1> QED BY <1>1, <1>2, <1>3, PTL DEF Spec

\* ServicesTypeOK: sizes, places and lists of all the services stay in their ranges, a pool in the
\* memory it has, a buffer in its size and each byte of a file among those that were written.
THEOREM ServicesTyped == ~AnyRead => (Spec => []ServicesTypeOK)
<1> SUFFICES ASSUME ~AnyRead PROVE Spec => []ServicesTypeOK
  OBVIOUS
<1> DEFINE PoolInv == BumpInv /\ BumpRoom /\ GrowInv /\ GrowListed /\ GrowBounded /\ FreeInv /\ DenseInv
           Inv == PoolInv /\ HeapInv /\ FileInv /\ PathInv /\ SerInv /\ BitInv /\ PanicInv
<1>1. Init => Inv
  <2>1. Init => PoolInv
    BY BumpInitially, BumpRoomInitially, GrowInitially, GrowListedInitially, GrowBoundedInitially,
       FreeInitInv, DenseInitInv DEF Init
  <2> HIDE DEF PoolInv
  <2> QED BY <2>1, HeapInitInv, FileInitInv, PathInitInv, SerInitInv, BitInitInv, PanicInitially DEF Init
<1>2. Inv /\ [Next]_vars => Inv'
  <2>1. PoolInv /\ [Next]_vars => PoolInv'
    BY OneServiceSteps, BumpInductive, BumpRoomKept, GrowInductive, GrowListedInductive, GrowBoundedKept,
       FreeInductive, DenseInductive
  <2> HIDE DEF PoolInv
  <2> QED BY <2>1, OneServiceSteps, HeapInductive, FileInductive, PathInductive, SerialInductive,
             BitInductive, PanicInductive
<1>3. Inv => ServicesTypeOK
  BY BumpInvTyped, GrowInvTyped, FreeInvTyped, DenseInvTyped, HeapInvExact, FileInvTyped, PathInvNormal,
     SerInvBack, BitInvAgrees DEF ServicesTypeOK, PanicInv
<1> QED BY <1>1, <1>2, <1>3, PTL DEF Spec
=============================================================================
