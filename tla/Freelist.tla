------------------------------ MODULE Freelist ------------------------------
(***************************************************************************)
(* FreelistBlockAllocator (include/AxleUtil/memory.h): elements of one     *)
(* type in blocks, the free ones linked through the pointer next that each *)
(* has beside its object.  free_all tells by next alone whom to destruct.  *)
(***************************************************************************)
EXTENDS Integers, FiniteSets

CONSTANTS
  FreeBlock,        \* BLOCK_SIZE
  FreeMaxBlocks     \* bound: the blocks allocated

ASSUME FreelistAssumption == FreeBlock \in Nat \ {0} /\ FreeMaxBlocks \in Nat \ {0}

VARIABLES
  freeNext,      \* next of each element, 0 for nullptr, as far as blocks are allocated
  freeHead,      \* alloc_list
  freeHolds,     \* what is in an element: an object, zeros, or what an object left
  freeUntouched, \* the objects the last free_all did not destruct
  freeStray      \* what the elements held that it destructed although they had no object

freeVars == <<freeNext, freeHead, freeHolds, freeUntouched, freeStray>>

Elements == DOMAIN freeNext

FreeTypeOK ==
  /\ Elements = 1..Cardinality(Elements) /\ Cardinality(Elements) <= FreeBlock * FreeMaxBlocks
  /\ freeHead \in Elements \union {0} /\ \A e \in Elements : freeNext[e] \in Elements \union {0}
  /\ freeHolds \in [Elements -> {"object", "zeros", "remains"}]

FreeInit ==
  /\ freeNext = <<>> /\ freeHead = 0 /\ freeHolds = <<>>
  /\ freeUntouched = {} /\ freeStray = <<>>

\* The elements on alloc_list.
OnList ==
  LET walk[n \in 0..Cardinality(Elements)] ==
        IF n = 0 THEN freeHead ELSE IF walk[n - 1] = 0 THEN 0 ELSE freeNext[walk[n - 1]]
  IN {walk[n] : n \in 0..Cardinality(Elements)} \ {0}

Objects == {e \in Elements : freeHolds[e] = "object"}

\* new_block: its elements in their order, before what the list had.
NewBlockNext ==
  LET old == Cardinality(Elements)
  IN [e \in 1..old + FreeBlock |->
        IF e <= old THEN freeNext[e] ELSE IF e < old + FreeBlock THEN e + 1 ELSE freeHead]

FreeAllocate ==
  LET grows == freeHead = 0
      next == IF grows THEN NewBlockNext ELSE freeNext
      e == IF grows THEN Cardinality(Elements) + 1 ELSE freeHead
  IN /\ grows => Cardinality(Elements) < FreeBlock * FreeMaxBlocks
     /\ freeHead' = next[e] /\ freeNext' = [next EXCEPT ![e] = 0]
     /\ freeHolds' = [x \in DOMAIN next |->
                        IF x = e THEN "object" ELSE IF x \in Elements THEN freeHolds[x] ELSE "zeros"]
     /\ UNCHANGED <<freeUntouched, freeStray>>

\* _debug_valid_free_ptr: in a block, and not on the list.
ValidFreePtr(e) == e \in Elements \ OnList

Destructed(holds, e) == [holds EXCEPT ![e] = "remains"]
Zeroed(holds, e) == [holds EXCEPT ![e] = "zeros"]

\* Mutant: the bytes are set to zero before the object is destructed.
FreeElementZeroedFirst(e) ==
  /\ ValidFreePtr(e)
  /\ freeNext' = [freeNext EXCEPT ![e] = freeHead] /\ freeHead' = e
  /\ freeHolds' = Destructed(Zeroed(freeHolds, e), e)
  /\ UNCHANGED <<freeUntouched, freeStray>>

\* free: the object is destructed and its bytes are set to zero.
FreeElement(e) ==
  /\ ValidFreePtr(e)
  /\ freeNext' = [freeNext EXCEPT ![e] = freeHead] /\ freeHead' = e
  /\ freeHolds' = Zeroed(Destructed(freeHolds, e), e)
  /\ UNCHANGED <<freeUntouched, freeStray>>

\* free_all: an element whose next is nullptr is destructed, the last of the list too,
\* whether free destructed its object before or it never had one.
FreeAll ==
  LET destructed == {e \in Elements : freeNext[e] = 0}
  IN /\ freeUntouched' = Objects \ destructed
     /\ freeStray' = [e \in destructed \ Objects |-> freeHolds[e]]
     /\ freeNext' = <<>> /\ freeHolds' = <<>> /\ freeHead' = 0

FreeNext == FreeAllocate \/ (\E e \in Objects : FreeElement(e)) \/ FreeAll

\* An element is on the list or has an object, never both (_debug_all_are_free counts by it).
FreePlaced == OnList = Elements \ Objects

\* free_all destructs every object that is left.  It also runs the destructor where there is
\* no object, a second time if free ran it there before: on one element at most, and only
\* over bytes that are zero.
FreeDestructs ==
  /\ freeUntouched = {}
  /\ Cardinality(DOMAIN freeStray) <= 1
  /\ \A e \in DOMAIN freeStray : freeStray[e] = "zeros"
=============================================================================
