----------------------------- MODULE MCServices -----------------------------
(***************************************************************************)
(* Memory, files, paths, serialization, bits, threads and panics for TLC,  *)
(* each exercised by itself: the subject is chosen at the start and the    *)
(* others stay as they are.                                                *)
(***************************************************************************)
EXTENDS Heap, BumpPool, GrowingPool, Freelist, DenseBlocks, FileBuffer, Paths, Serial, BitSets, Panic

CONSTANT Subjects    \* the components a run looks at

VARIABLE subject

poolVars == <<bumpVars, growVars, freeVars, denseVars>>
dataVars == <<pathVars, serVars, bitVars>>
vars == <<subject, heapVars, poolVars, fileVars, dataVars, panicVars>>

\* Every record and sequence of the components keeps to its type.
ServicesTypeOK ==
  /\ HeapTypeOK /\ BumpTypeOK /\ GrowTypeOK /\ FreeTypeOK /\ DenseTypeOK
  /\ FileTypeOK /\ PathTypeOK /\ SerialTypeOK /\ BitTypeOK /\ PanicTypeOK

Init ==
  /\ subject \in Subjects
  /\ HeapInit /\ BumpInit /\ GrowInit /\ FreeInit /\ DenseInit
  /\ FileInit /\ PathInit /\ SerialInit /\ BitInit /\ PanicInit
  /\ subject # "file" => file.mode = "READ" /\ file.disk = <<>>
  /\ subject # "path" => pathGiven = <<>>
  /\ subject # "serial" => serOrder = "LittleEndian"
  /\ subject # "bits" => bitKind = "BitArray"

BumpStep == subject = "bump" /\ BumpNext /\ UNCHANGED <<growVars, freeVars, denseVars>>
GrowStep == subject = "growing" /\ GrowNext /\ UNCHANGED <<bumpVars, freeVars, denseVars>>
FreeStep == subject = "freelist" /\ FreeNext /\ UNCHANGED <<bumpVars, growVars, denseVars>>
DenseStep == subject = "dense" /\ DenseNext /\ UNCHANGED <<bumpVars, growVars, freeVars>>
PathStep == subject = "path" /\ PathNext /\ UNCHANGED <<serVars, bitVars>>
SerialStep == subject = "serial" /\ SerialNext /\ UNCHANGED <<pathVars, bitVars>>
BitStep == subject = "bits" /\ BitNext /\ UNCHANGED <<pathVars, serVars>>

HeapStep == subject = "heap" /\ HeapNext /\ UNCHANGED <<poolVars, fileVars, dataVars, panicVars>>
PoolStep ==
  /\ BumpStep \/ GrowStep \/ FreeStep \/ DenseStep
  /\ UNCHANGED <<heapVars, fileVars, dataVars, panicVars>>
FileStep == subject = "file" /\ FileNext /\ UNCHANGED <<heapVars, poolVars, dataVars, panicVars>>
DataStep == (PathStep \/ SerialStep \/ BitStep) /\ UNCHANGED <<heapVars, poolVars, fileVars, panicVars>>
ThreadStep == subject = "panic" /\ PanicNext /\ UNCHANGED <<heapVars, poolVars, fileVars, dataVars>>

Next ==
  /\ HeapStep \/ PoolStep \/ FileStep \/ DataStep \/ ThreadStep
  /\ UNCHANGED subject

\* A thread in a panic, or that holds the lock of the streams, is scheduled.
FairPanicStep(t) ==
  subject = "panic" /\ PanicStep(t) /\ UNCHANGED <<subject, heapVars, poolVars, fileVars, dataVars>>

Spec == Init /\ [][Next]_vars /\ \A t \in Threads : WF_vars(FairPanicStep(t))

\* What a pool has given out does not overlap, is aligned and lies in the memory the pool
\* has; what it may give out next is disjoint from it (the free list, the sorted blocks).
PoolsDisjoint == BumpPlaced /\ GrowPlaced /\ FreePlaced /\ DensePlaced

\* Each object of a GrowingMemoryPool is destructed exactly once, by whoever frees the pool it
\* was moved to; free_all of a FreelistBlockAllocator destructs every object that is left, and
\* without an object one element at most, whose bytes are zero.
PoolsDestruct == GrowDestroyedOnce /\ FreeDestructs

\* A panic ends the process, and not before the message of one that panicked is written:
\* whoever holds the lock of the streams, panics under it or panics at the same time.
PanicReported == (\E t \in Threads : thPc[t] \in Panics) ~> (panicEnded /\ panicReported # {})
=============================================================================
