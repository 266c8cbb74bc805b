----------------------------- MODULE DenseBlocks -----------------------------
(***************************************************************************)
(* DenseBlockAllocator (include/AxleUtil/memory.h): blocks of growing size *)
(* in one array, the full ones first and the others by what remains in     *)
(* them, so that a block for n elements is found by binary search.         *)
(***************************************************************************)
EXTENDS Pow2

CONSTANTS
  DenseFirst,       \* the size of the first block, 32 in the code
  DenseMaxBlocks    \* bound: the blocks allocated

ASSUME DenseAssumption == DenseFirst \in Nat \ {0} /\ DenseMaxBlocks \in Nat

VARIABLES
  denseBlocks,    \* blocks, size: the memory of each (by number), what it has given out and its capacity
  denseFull,      \* first_empty
  denseNext,      \* next_alloc_size
  denseGiven      \* the ranges given out

denseVars == <<denseBlocks, denseFull, denseNext, denseGiven>>

Remaining(b) == b.capacity - b.size

DenseTypeOK ==
  /\ denseBlocks \in Seq([data : 1..DenseMaxBlocks, size : Nat, capacity : Nat])
  /\ denseFull \in 0..Len(denseBlocks) /\ denseNext \in Nat

DenseInit == denseBlocks = <<>> /\ denseFull = 0 /\ denseNext = 0 /\ denseGiven = {}

\* grow, and the block for n elements at the end of the array.
NewBlock(n) ==
  LET next == IF denseNext = 0 THEN DenseFirst ELSE denseNext
  IN [data |-> Len(denseBlocks) + 1, size |-> 0, capacity |-> IF n > next THEN CeilToPow2(n) ELSE next]

\* One step of the search for room for n in the part of the array from l to h.
Halved(part, n) ==
  LET mid == (part.l + part.h - 1) \div 2
  IN IF part.l >= part.h THEN part
     ELSE IF n <= Remaining(denseBlocks[mid]) THEN [part EXCEPT !.h = mid] ELSE [part EXCEPT !.l = mid + 1]

\* The first block after the full ones with room for n.
SearchRoom(n) ==
  LET part[k \in 0..Len(denseBlocks)] ==
        IF k = 0 THEN [l |-> denseFull + 1, h |-> Len(denseBlocks)] ELSE Halved(part[k - 1], n)
  IN part[Len(denseBlocks)].l

\* The block at i moves in front of those after the full ones with more room.
SwapBackwards(blocks, i) ==
  LET smaller == {j \in denseFull + 1..i - 1 : Remaining(blocks[j]) <= Remaining(blocks[i])}
      to == IF smaller = {} THEN denseFull + 1 ELSE Max(smaller) + 1
  IN InsertAt(RemoveAt(blocks, i), to, blocks[i])

\* internal_alloc_from_empty, of allocate and allocate_n.
DenseAllocate(n) ==
  LET room == denseFull < Len(denseBlocks) /\ Remaining(Last(denseBlocks)) >= n
      blocks == IF room THEN denseBlocks ELSE Append(denseBlocks, NewBlock(n))
      i == IF ~room THEN Len(blocks) ELSE IF n = 1 THEN denseFull + 1 ELSE SearchRoom(n)
      filled == [blocks EXCEPT ![i].size = @ + n]
  IN /\ Len(blocks) <= DenseMaxBlocks
     /\ denseGiven' = denseGiven \union {[data |-> blocks[i].data, at |-> blocks[i].size, size |-> n]}
     /\ denseBlocks' = SwapBackwards(filled, i)
     /\ denseFull' = denseFull + (IF Remaining(filled[i]) = 0 THEN 1 ELSE 0)
     /\ denseNext' = IF room THEN denseNext ELSE 2 * (IF denseNext = 0 THEN DenseFirst ELSE denseNext)

DenseNext == \E n \in 1..DenseFirst + 1 : DenseAllocate(n)

\* Ranges given out do not overlap and lie in their block, whose place in the array agrees
\* with what the search relies on.
DensePlaced ==
  /\ \A p, q \in denseGiven : p # q /\ p.data = q.data => p.at + p.size <= q.at \/ q.at + q.size <= p.at
  /\ \A p \in denseGiven : \E i \in DOMAIN denseBlocks :
       denseBlocks[i].data = p.data /\ p.at + p.size <= denseBlocks[i].capacity
  /\ \A i \in DOMAIN denseBlocks : i <= denseFull <=> Remaining(denseBlocks[i]) <= 0
  /\ \A i, j \in DOMAIN denseBlocks : i < j => Remaining(denseBlocks[i]) <= Remaining(denseBlocks[j])
=============================================================================
