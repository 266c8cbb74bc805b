------------------------------ MODULE Probing -------------------------------
(***************************************************************************)
(* Open addressing with linear probing (include/AxleUtil/hash.h), what     *)
(* InternalHashSet and InternalHashTable have in common.  A slot holds a   *)
(* key, EMPTY or TOMBSTONE, a search starts at the key's hash modulo the   *)
(* capacity and goes on to the next slot, and a table is doubled when      *)
(* three quarters of it are used.                                          *)
(***************************************************************************)
EXTENDS Integers, FiniteSetsExt, SequencesExt

CONSTANTS
  Keys,             \* the keys the program uses
  Hash,             \* Trait::hash of each of them
  EMPTY, TOMBSTONE, \* Trait::EMPTY, Trait::TOMBSTONE
  FirstCapacity,    \* the capacity of the first allocation, 8 in the code
  MaxCapacity       \* bound: no table grows further

ASSUME ProbingAssumption ==
  /\ Hash \in [Keys -> Nat]
  /\ EMPTY \notin Keys /\ TOMBSTONE \notin Keys /\ EMPTY # TOMBSTONE
  /\ MaxCapacity \in Nat /\ FirstCapacity \in 3..MaxCapacity

Capacity(slots) == Cardinality(DOMAIN slots)

\* The table before its first allocation, and one just allocated.
NoSlots == [i \in {} |-> EMPTY]
FreshSlots(capacity) == [i \in 0..capacity - 1 |-> EMPTY]

NeedsResize(capacity, used, extra) == (3 * capacity) \div 4 <= used + extra

\* A capacity and what becomes of it when it is doubled n times.
Doubled(capacity) == LET times[n \in Nat] == IF n = 0 THEN capacity ELSE 2 * times[n - 1] IN times

\* The first of them that leaves room for extra keys more.
Extended(capacity, used, extra) ==
  LET enough == {n \in 0..used + extra + 2 : ~NeedsResize(Doubled(capacity)[n], used, extra)}
  IN Doubled(capacity)[Min(enough)]

\* The slot a search for k comes to after i others.
NthSlot(slots, k, i) == ((Hash[k] % Capacity(slots)) + i) % Capacity(slots)

\* A search stops at k, at EMPTY, or when it is back where it started: whether one for k
\* gets as far as its probe i, and the numbers of the probes that find what.
Reaches(slots, k, i) == \A j \in 0..i - 1 : slots[NthSlot(slots, k, j)] \notin {k, EMPTY}
Finds(slots, k, what) ==
  {i \in 0..Capacity(slots) - 1 : slots[NthSlot(slots, k, i)] = what /\ Reaches(slots, k, i)}

HasKey(slots, k) == Finds(slots, k, k) # {}

\* Where k is, or where it may be put: in the first tombstone on the way to the
\* EMPTY slot that ends the search, or in that.  With neither the search has come
\* back to the slot where it started.
Place(slots, k) ==
  LET first(what) == Finds(slots, k, what)
  IN NthSlot(slots, k, IF first(k) # {} THEN Min(first(k))
                       ELSE IF first(TOMBSTONE) # {} THEN Min(first(TOMBSTONE))
                       ELSE IF first(EMPTY) # {} THEN Min(first(EMPTY))
                       ELSE 0)

Put(slots, k) == [slots EXCEPT ![Place(slots, k)] = k]

LiveSlots(slots) == {i \in DOMAIN slots : slots[i] \in Keys}
LiveKeys(slots) == {slots[i] : i \in LiveSlots(slots)}

SlotsOK(slots) ==
  \/ slots = NoSlots
  \/ \E n \in 0..MaxCapacity :
       /\ Doubled(FirstCapacity)[n] <= MaxCapacity
       /\ slots \in [0..Doubled(FirstCapacity)[n] - 1 -> Keys \union {EMPTY, TOMBSTONE}]
=============================================================================
