----------------------------- MODULE GrowingPool -----------------------------
(***************************************************************************)
(* GrowingMemoryPool (include/AxleUtil/memory.h): objects placed one after *)
(* the other in blocks, those larger than a block on the heap; the list    *)
(* elements by which free destructs them lie in the blocks as well.  Sizes *)
(* count words of eight bytes.                                             *)
(***************************************************************************)
EXTENDS Integers, SequencesExt

CONSTANTS
  GrowBlock,        \* BLOCK_SIZE
  GrowMaxObjects    \* bound: the objects allocated

ASSUME GrowAssumption == GrowBlock \in Nat /\ GrowBlock >= 4 /\ GrowMaxObjects \in Nat

VARIABLES
  growPools,     \* curr and those before it, curr_top, dl_top, dln_top, and what lies in the blocks
  growObjects    \* the objects allocated: the pool each belongs to, 0 once its pool was freed

growVars == <<growPools, growObjects>>

Pools == 1..2
Lists == {"dl", "dln"}

GrowTypeOK ==
  /\ \A p \in Pools :
       /\ growPools[p].blocks \in Nat /\ growPools[p].top \in 0..GrowBlock
       /\ \A l \in Lists : growPools[p][l] \in Seq(1..GrowMaxObjects)
  /\ growObjects \in Seq([pool : 0..2, listed : BOOLEAN, destroyed : Nat])

NoMemory == [blocks |-> 0, top |-> 0, used |-> {}, dl |-> <<>>, dln |-> <<>>]

GrowInit == growPools = [p \in Pools |-> NoMemory] /\ growObjects = <<>>

\* prev comes before mem in a block, so that mem starts at an odd word.
BlockBase == 1
Aligned(offset, align) == ((BlockBase + offset + align - 1) \div align) * align - BlockBase

\* Mutant: the bytes that alignment takes are not counted.
FitsUnaligned(offset, size, align) == offset + size <= GrowBlock

Fits(offset, size, align) == Aligned(offset, align) + size <= GrowBlock

\* Mutant: the padding in front of the piece is not counted.
SmallAllocUnpadded(p, size, align) ==
  LET stay == p.blocks > 0 /\ Fits(p.top, size, align)
      top == IF stay THEN p.top ELSE 0
      b == IF stay THEN p.blocks ELSE p.blocks + 1
  IN [p EXCEPT !.blocks = b, !.top = top + size,
               !.used = @ \union {[block |-> b, at |-> Aligned(top, align), size |-> size, align |-> align]}]

\* alloc_small_internal, new_block: what does not fit in the rest of the block starts another.
SmallAlloc(p, size, align) ==
  LET stay == p.blocks > 0 /\ Fits(p.top, size, align)
      at == Aligned(IF stay THEN p.top ELSE 0, align)
      b == IF stay THEN p.blocks ELSE p.blocks + 1
  IN [p EXCEPT !.blocks = b, !.top = at + size,
               !.used = @ \union {[block |-> b, at |-> at, size |-> size, align |-> align]}]

\* alloc_destruct_element of three words, alloc_destruct_element_N of four.
Enlist(p, list, object) == [SmallAlloc(p, IF list = "dl" THEN 3 ELSE 4, 1) EXCEPT ![list] = <<object>> \o @]

\* allocate with "dl", allocate_n and alloc_raw with "dln": the list element of an object
\* with a destructor or on the heap comes before the object.
GrowAllocate(pool, list, size, align, trivial) ==
  LET big == size > GrowBlock
      listed == big \/ ~trivial
      object == Len(growObjects) + 1
      enlisted == IF listed THEN Enlist(growPools[pool], list, object) ELSE growPools[pool]
  IN /\ big \/ Fits(0, size, align)
     /\ growPools' = [growPools EXCEPT ![pool] = IF big THEN enlisted ELSE SmallAlloc(enlisted, size, align)]
     /\ growObjects' = Append(growObjects, [pool |-> pool, listed |-> listed, destroyed |-> 0])

\* free: both lists are destructed, from the last entry to the first, then the blocks go.
Freed(pool) ==
  LET entries == growPools[pool].dl \o growPools[pool].dln
      listed(o) == Cardinality({i \in DOMAIN entries : entries[i] = o})
  IN [o \in DOMAIN growObjects |->
        [growObjects[o] EXCEPT !.destroyed = @ + listed(o), !.pool = IF @ = pool THEN 0 ELSE @]]

GrowFree(pool) ==
  /\ growPools' = [growPools EXCEPT ![pool] = NoMemory]
  /\ growObjects' = Freed(pool)

\* Mutant: the pool moved from keeps its lists.
GrowMoveKeeps(to, from) ==
  /\ growPools' = [growPools EXCEPT ![to] = growPools[from],
                                    ![from] = [growPools[from] EXCEPT !.blocks = 0, !.top = 0, !.used = {}]]
  /\ growObjects' = [o \in DOMAIN growObjects |->
                       [Freed(to)[o] EXCEPT !.pool = IF @ = from THEN to ELSE @]]

\* operator=(GrowingMemoryPool&&): what the pool had is freed first.
GrowMove(to, from) ==
  /\ growPools' = [growPools EXCEPT ![to] = growPools[from], ![from] = NoMemory]
  /\ growObjects' = [o \in DOMAIN growObjects |->
                       [Freed(to)[o] EXCEPT !.pool = IF @ = from THEN to ELSE @]]

GrowNext ==
  \/ \E pool \in Pools, list \in Lists, size \in {1, 2, GrowBlock + 1}, align \in 1..2, trivial \in BOOLEAN :
       /\ Len(growObjects) < GrowMaxObjects
       /\ align = 2 => size = 2
       /\ GrowAllocate(pool, list, size, align, trivial)
  \/ \E pool \in Pools : GrowFree(pool)
  \/ \E to, from \in Pools : to # from /\ GrowMove(to, from)

\* What lies in a block does not overlap and is aligned where it lies.
GrowPlaced == \A p \in Pools :
  /\ \A x, y \in growPools[p].used : x # y /\ x.block = y.block => x.at + x.size <= y.at \/ y.at + y.size <= x.at
  /\ \A x \in growPools[p].used :
       (BlockBase + x.at) % x.align = 0 /\ x.block <= growPools[p].blocks /\ x.at + x.size <= GrowBlock

\* An object stays on one list of the pool it belongs to, also when the pool was moved,
\* and is destructed once when that pool is freed.
GrowDestroyedOnce == \A o \in DOMAIN growObjects :
  LET object == growObjects[o]
      listings == {l \in Pools \X Lists : \E i \in DOMAIN growPools[l[1]][l[2]] : growPools[l[1]][l[2]][i] = o}
  IN IF object.pool = 0
       THEN listings = {} /\ object.destroyed = (IF object.listed THEN 1 ELSE 0)
       ELSE /\ object.destroyed = 0
            /\ Cardinality(listings) = (IF object.listed THEN 1 ELSE 0)
            /\ \A l \in listings : l[1] = object.pool
=============================================================================
