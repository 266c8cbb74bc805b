------------------------------- MODULE Deque --------------------------------
(***************************************************************************)
(* struct Queue (include/AxleUtil/utility.h): a ring of values that takes  *)
(* and gives at both ends.  dequeItems is the sequence the caller expects. *)
(* The values need no destruction: what clear and free destruct of a ring  *)
(* that wraps is not what it holds (see the README).                       *)
(***************************************************************************)
EXTENDS Integers, SequencesExt

CONSTANTS
  Items,               \* the values put in
  NoItem,              \* T()
  DequeFirstCapacity,  \* 8 in the code
  DequeMaxCapacity     \* bound: the ring is not extended further

ASSUME DequeAssumption == DequeFirstCapacity \in Nat \ {0} /\ DequeMaxCapacity \in Nat

VARIABLES
  dequeHolder,    \* holder, with capacity as its size
  dequeStart, dequeSize,
  dequeItems

dequeVars == <<dequeHolder, dequeStart, dequeSize, dequeItems>>

DequeCapacity == Cardinality(DOMAIN dequeHolder)
NoHolder == [i \in {} |-> NoItem]

DequeTypeOK ==
  /\ dequeHolder \in UNION {[0..c - 1 -> Items \union {NoItem}] : c \in 0..DequeMaxCapacity}
  /\ dequeSize \in 0..DequeCapacity
  /\ dequeStart \in {0} \union DOMAIN dequeHolder
  /\ dequeItems \in Seq(Items)

DequeInit ==
  /\ dequeHolder = NoHolder
  /\ dequeStart = 0
  /\ dequeSize = 0
  /\ dequeItems = <<>>

\* _ptr_index
DequeIndex(start, i, capacity) == (start + i) % capacity

\* Mutant: the elements keep their slots, although those in front have wrapped.
DequeExtendedInPlace(holder, start, size) ==
  [i \in 0..(IF holder = NoHolder THEN DequeFirstCapacity ELSE 2 * Cardinality(DOMAIN holder)) - 1 |->
     IF i \in DOMAIN holder THEN holder[i] ELSE NoItem]

\* extend: one element more than there are is moved, which is the first one again when
\* the ring is full.
DequeExtended(holder, start, size) ==
  LET capacity == Cardinality(DOMAIN holder)
  IN IF capacity = 0
       THEN [i \in 0..DequeFirstCapacity - 1 |-> NoItem]
       ELSE [i \in 0..2 * capacity - 1 |->
               IF i <= size THEN holder[DequeIndex(start, i, capacity)] ELSE NoItem]

\* The ring with room for one more, as both pushes see it.
DequeRoom ==
  IF dequeSize = DequeCapacity
    THEN [holder |-> DequeExtended(dequeHolder, dequeStart, dequeSize), start |-> 0]
    ELSE [holder |-> dequeHolder, start |-> dequeStart]

PushFront(x) ==
  LET room == DequeRoom
      capacity == Cardinality(DOMAIN room.holder)
      start == IF room.start = 0 THEN capacity - 1 ELSE room.start - 1
  IN /\ capacity <= DequeMaxCapacity
     /\ dequeHolder' = [room.holder EXCEPT ![start] = x]
     /\ dequeStart' = start
     /\ dequeSize' = dequeSize + 1
     /\ dequeItems' = <<x>> \o dequeItems

PushBack(x) ==
  LET room == DequeRoom
      capacity == Cardinality(DOMAIN room.holder)
  IN /\ capacity <= DequeMaxCapacity
     /\ dequeHolder' = [room.holder EXCEPT ![DequeIndex(room.start, dequeSize, capacity)] = x]
     /\ dequeStart' = room.start
     /\ dequeSize' = dequeSize + 1
     /\ dequeItems' = Append(dequeItems, x)

\* Mutant: the start is not taken back to the first slot.
PopFrontUnwrapped ==
  /\ dequeSize > 0
  /\ dequeStart' = dequeStart + 1
  /\ dequeSize' = dequeSize - 1
  /\ dequeItems' = Tail(dequeItems)
  /\ UNCHANGED dequeHolder

PopFront ==
  /\ dequeSize > 0
  /\ dequeStart' = IF dequeStart + 1 >= DequeCapacity THEN dequeStart + 1 - DequeCapacity
                                                     ELSE dequeStart + 1
  /\ dequeSize' = dequeSize - 1
  /\ dequeItems' = Tail(dequeItems)
  /\ UNCHANGED dequeHolder

PopBack ==
  /\ dequeSize > 0
  /\ dequeSize' = dequeSize - 1
  /\ dequeItems' = Front(dequeItems)
  /\ UNCHANGED <<dequeHolder, dequeStart>>

\* The caller may extend a ring that is not full.
DequeExtend ==
  /\ dequeHolder' = DequeExtended(dequeHolder, dequeStart, dequeSize)
  /\ Cardinality(DOMAIN dequeHolder') <= DequeMaxCapacity
  /\ dequeStart' = IF DequeCapacity = 0 THEN dequeStart ELSE 0
  /\ UNCHANGED <<dequeSize, dequeItems>>

DequeClear ==
  /\ dequeStart' = 0
  /\ dequeSize' = 0
  /\ dequeItems' = <<>>
  /\ UNCHANGED dequeHolder

DequeFree ==
  /\ dequeHolder' = NoHolder
  /\ dequeStart' = 0
  /\ dequeSize' = 0
  /\ dequeItems' = <<>>

DequeNext ==
  \/ \E x \in Items : PushFront(x) \/ PushBack(x)
  \/ PopFront \/ PopBack \/ DequeExtend \/ DequeClear \/ DequeFree

\* Front and back moves mixed in any way, with the ring wrapped and extended on either
\* side: the ring holds the items in their order, so that pop_front, front and pop_back
\* return the first and the last.
DequeAgrees ==
  dequeItems = [i \in 1..dequeSize |->
                  dequeHolder[DequeIndex(dequeStart, i - 1, DequeCapacity)]]
=============================================================================
