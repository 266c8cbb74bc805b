------------------------------- MODULE Arena --------------------------------
(***************************************************************************)
(* struct ArenaAllocator (include/AxleUtil/memory.h, src/memory.cpp): a    *)
(* chain of blocks, carved up into allocations and free nodes.  The first  *)
(* word of either is the number of words behind it; in a free node the     *)
(* word after that is the pointer to the next one.                         *)
(*                                                                         *)
(* A word is known by its address.  Two blocks are never adjacent, since   *)
(* the pointer to the next block follows the words of each.  What a caller *)
(* writes into its allocation is left out: nothing reads it as long as     *)
(* allocations and free nodes do not overlap.                              *)
(*                                                                         *)
(* The two walks along the free list are done one node a step, so that     *)
(* each branch of their loops is an action.                                *)
(***************************************************************************)
EXTENDS Naturals, FiniteSets

CONSTANTS
  BlockSize,    \* Block::BLOCK_SIZE, in words
  MaxBlocks,    \* bound: blocks the arena may allocate
  Requests,     \* the sizes asked for, in words
  Careful,      \* whether the caller keeps clear of the head of the free list
  Null

Stride == BlockSize + 1
Words == 0..MaxBlocks * Stride - 1

ASSUME ArenaAssumption ==
  /\ BlockSize \in Nat \ {0}
  /\ MaxBlocks \in Nat
  /\ Requests \subseteq 1..BlockSize - 1
  /\ Careful \in BOOLEAN
  /\ Null \notin Words

VARIABLES
  blocks,     \* how many blocks there are
  freeList,   \* the first free node
  available,  \* the first word of an allocation or a free node
  next,       \* the second word of a free node
  allocated,  \* the allocations the caller has
  pc,         \* where the call under way is
  request, prev, fl, newFl, foundBefore, foundAfter     \* its local variables

vars == <<blocks, freeList, available, next, allocated, pc,
          request, prev, fl, newFl, foundBefore, foundAfter>>

Pointers == Words \union {Null}

TypeOK ==
  /\ blocks \in 0..MaxBlocks
  /\ freeList \in Pointers
  /\ available \in [Words -> 0..BlockSize - 1]
  /\ next \in [Words -> Pointers]
  /\ allocated \subseteq Words
  /\ pc \in {"idle", "search", "merge", "link", "panicked"}
  /\ request \in Requests \union {0}
  /\ {prev, fl, newFl} \subseteq Pointers
  /\ {foundBefore, foundAfter} \subseteq BOOLEAN

\* A call returns, and its local variables are gone; or one of its assertions fails.
Return(holds) ==
  /\ pc' = IF holds THEN "idle" ELSE "panicked"
  /\ request' = 0
  /\ prev' = Null /\ fl' = Null /\ newFl' = Null
  /\ foundBefore' = FALSE /\ foundAfter' = FALSE

Init ==
  /\ blocks = 0
  /\ freeList = Null
  /\ available = [w \in Words |-> 0]
  /\ next = [w \in Words |-> Null]
  /\ allocated = {}
  /\ pc = "idle"
  /\ request = 0
  /\ prev = Null /\ fl = Null /\ newFl = Null
  /\ foundBefore = FALSE /\ foundAfter = FALSE

\* The word just behind an allocation or a free node.
EndOf(w) == w + available[w] + 1

\* What following the free list comes to, from its head on.
Followed ==
  LET After[n \in 0..MaxBlocks * Stride] ==
        IF n = 0 THEN freeList
        ELSE IF After[n - 1] = Null THEN Null ELSE next[After[n - 1]]
  IN After

FreeNodes == {Followed[n] : n \in DOMAIN Followed} \ {Null}

\* _debug_freelist_loops: whoever follows the list never comes to its end.
Loops == Followed[MaxBlocks * Stride] # Null

-----------------------------------------------------------------------------
(* What a careful caller does: it asks for no more than some free node has *)
(* as long as there is one, and frees nothing that lies beside the first   *)
(* node of several.                                                        *)

MayAlloc(n) == Careful /\ FreeNodes # {} => \E w \in FreeNodes : available[w] >= n

Beside(w, v) == EndOf(w) = v \/ EndOf(v) = w

MayFree(w) == Careful /\ Cardinality(FreeNodes) > 1 => ~Beside(w, freeList)

-----------------------------------------------------------------------------
(* alloc_no_construct                                                      *)

Alloc(n) ==
  /\ pc = "idle"
  /\ MayAlloc(n)
  /\ pc' = IF Loops THEN "panicked" ELSE "search"
  /\ request' = n
  /\ fl' = freeList
  /\ UNCHANGED <<blocks, freeList, available, next, allocated, prev, newFl,
                 foundBefore, foundAfter>>

SearchNext ==
  /\ pc = "search"
  /\ fl # Null
  /\ available[fl] < request
  /\ prev' = fl
  /\ fl' = next[fl]
  /\ UNCHANGED <<blocks, freeList, available, next, allocated, pc, request, newFl,
                 foundBefore, foundAfter>>

\* Mutant: the first word of the block is counted among those behind it.
NewBlockWhole ==
  /\ pc = "search"
  /\ fl = Null
  /\ blocks < MaxBlocks
  /\ LET block == blocks * Stride
     IN /\ available' = [available EXCEPT ![block] = BlockSize]
        /\ next' = [next EXCEPT ![block] = freeList]
        /\ freeList' = block
        /\ fl' = block
  /\ blocks' = blocks + 1
  /\ UNCHANGED <<allocated, pc, request, prev, newFl, foundBefore, foundAfter>>

\* new_block puts the block in front; prev stays where the search ended.
NewBlock ==
  /\ pc = "search"
  /\ fl = Null
  /\ blocks < MaxBlocks
  /\ LET block == blocks * Stride
     IN /\ available' = [available EXCEPT ![block] = BlockSize - 1]
        /\ next' = [next EXCEPT ![block] = freeList]
        /\ freeList' = block
        /\ fl' = block
  /\ blocks' = blocks + 1
  /\ UNCHANGED <<allocated, pc, request, prev, newFl, foundBefore, foundAfter>>

\* Node fl gives way, in the list, to another node or to nothing.
Replace(node, links) ==
  IF prev # Null
  THEN next' = [links EXCEPT ![prev] = node] /\ UNCHANGED freeList
  ELSE next' = links /\ freeList' = node

\* The node is handed out, and with it the call ends.
HandOut ==
  /\ allocated' = allocated \union {fl}
  /\ UNCHANGED blocks
  /\ Return(~Loops')

\* Mutant: the first word of the rest is the last of the allocation.
SplitOverlapping ==
  /\ pc = "search"
  /\ fl # Null
  /\ available[fl] >= request + 2
  /\ LET rest == fl + request
     IN /\ available' = [available EXCEPT ![rest] = available[fl] - request,
                                          ![fl] = request]
        /\ Replace(rest, [next EXCEPT ![rest] = next[fl]])
  /\ HandOut

Split ==
  /\ pc = "search"
  /\ fl # Null
  /\ available[fl] >= request + 2
  /\ LET rest == fl + 1 + request
     IN /\ available' = [available EXCEPT ![rest] = available[fl] - (request + 1),
                                          ![fl] = request]
        /\ Replace(rest, [next EXCEPT ![rest] = next[fl]])
  /\ HandOut

\* What would be left has no room for a node: it is handed out too.
TakeWhole ==
  /\ pc = "search"
  /\ fl # Null
  /\ available[fl] \in {request, request + 1}
  /\ Replace(next[fl], next)
  /\ UNCHANGED available
  /\ HandOut

-----------------------------------------------------------------------------
(* free_no_destruct and add_to_free_list                                   *)

Free(w) ==
  /\ pc = "idle"
  /\ MayFree(w)
  /\ allocated' = allocated \ {w}
  /\ next' = [next EXCEPT ![w] = Null]
  /\ UNCHANGED <<blocks, available>>
  /\ \/ freeList = Null /\ freeList' = w /\ Return(TRUE)
     \/ /\ freeList # Null
        /\ pc' = IF Loops THEN "panicked" ELSE "merge"
        /\ newFl' = w
        /\ fl' = freeList
        /\ UNCHANGED <<freeList, request, prev, foundBefore, foundAfter>>

ComesAfter == ~foundAfter /\ fl = EndOf(newFl)

ComesBefore == ~ComesAfter /\ ~foundBefore /\ newFl = EndOf(fl)

\* What the merges do to the node before fl: at the head of the list, nothing.
Bypass == IF prev # Null THEN [next EXCEPT ![prev] = next[fl]] ELSE next

MergeAfter ==
  /\ pc = "merge"
  /\ fl # Null
  /\ ComesAfter
  /\ next' = Bypass
  /\ available' = [available EXCEPT ![newFl] = @ + available[fl] + 1]
  /\ fl' = next[fl]
  /\ foundAfter' = TRUE
  /\ pc' = IF foundBefore THEN "link" ELSE "merge"
  /\ UNCHANGED <<blocks, freeList, allocated, request, prev, newFl, foundBefore>>

MergeBefore ==
  /\ pc = "merge"
  /\ fl # Null
  /\ ComesBefore
  /\ next' = [Bypass EXCEPT ![fl] = Null]
  /\ available' = [available EXCEPT ![fl] = @ + available[newFl] + 1]
  /\ newFl' = fl
  /\ fl' = next[fl]
  /\ foundBefore' = TRUE
  /\ pc' = IF foundAfter THEN "link" ELSE "merge"
  /\ UNCHANGED <<blocks, freeList, allocated, request, prev, foundAfter>>

MergeNext ==
  /\ pc = "merge"
  /\ fl # Null
  /\ ~ComesAfter /\ ~ComesBefore
  /\ prev' = fl
  /\ fl' = next[fl]
  /\ UNCHANGED <<blocks, freeList, available, next, allocated, pc, request, newFl,
                 foundBefore, foundAfter>>

Link ==
  /\ pc = "link" \/ (pc = "merge" /\ fl = Null)
  /\ next' = IF prev # Null THEN [next EXCEPT ![newFl] = freeList] ELSE next
  /\ freeList' = newFl
  /\ UNCHANGED <<blocks, available, allocated>>
  /\ Return(next'[newFl] # newFl)

-----------------------------------------------------------------------------
Next ==
  \/ \E n \in Requests : Alloc(n)
  \/ \E w \in allocated : Free(w)
  \/ SearchNext \/ NewBlock \/ Split \/ TakeWhole
  \/ MergeAfter \/ MergeBefore \/ MergeNext \/ Link

Spec == Init /\ [][Next]_vars

-----------------------------------------------------------------------------
(* Properties                                                              *)

\* Between calls every word of every block belongs to one allocation or one free
\* node: nothing is handed out twice and nothing is lost.  The comment of
\* add_to_free_list (memory.cpp:47): free nodes that lie side by side are combined,
\* on whichever side and in whichever order the list has them.
Tiled ==
  pc = "idle" =>
    /\ \A w \in Words :
         Cardinality({v \in allocated \union FreeNodes : v <= w /\ w < EndOf(v)}) =
           IF w < blocks * Stride /\ w % Stride < BlockSize THEN 1 ELSE 0
    /\ \A v, w \in FreeNodes : EndOf(v) # w

\* The assertion of alloc_no_construct (memory.cpp:239): an allocation that
\* began with a list that ends leaves one that ends.
AllocKeepsListFinite ==
  [][pc = "search" /\ pc' # "search" => pc' = "idle"]_vars

InFree == pc \in {"merge", "link"}

\* The assertion of add_to_free_list (memory.cpp:119): no node is put into the
\* list twice in a row.
FreeLinksNodeOnce ==
  [][InFree /\ ~InFree' => pc' = "idle"]_vars
=============================================================================
