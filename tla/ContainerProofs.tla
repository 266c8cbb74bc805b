-------------------------- MODULE ContainerProofs --------------------------
(***************************************************************************)
(* Proofs about the containers, for any values and any capacities.  First  *)
(* open addressing: the hash set, the hash table and the interner answer   *)
(* as the collections they stand for, for any keys with any hashes, any    *)
(* first capacity from three on and tables of any size.  The argument is   *)
(* the same for the three of them: a key lies where a search for it        *)
(* arrives before any EMPTY slot (WellProbed), which putting a key,        *)
(* leaving a tombstone and moving to a larger table all keep.  Then the    *)
(* containers that keep a sequence, Queue, Array, ArrayMax, OwnedArr and   *)
(* BucketArray, and sort_view; and last the types of all of them.          *)
(***************************************************************************)
EXTENDS MCContainers, DataLemmas

-----------------------------------------------------------------------------
(* Hash set, hash table and interner *)

\* Doubling goes on as the loop of the code does.
LEMMA DoubledSteps ==
  ASSUME NEW c \in Nat
  PROVE  /\ Doubled(c) \in [Nat -> Nat]
         /\ Doubled(c)[0] = c
         /\ \A n \in Nat : Doubled(c)[n + 1] = 2 * Doubled(c)[n]
<1> DEFINE F(f) == [n \in Nat |-> IF n = 0 THEN c ELSE 2 * f[n - 1]]
           D == Doubled(c)
<1>1. D = CHOOSE f : f = F(f)
  BY DEF Doubled
<1>2. \E f : f = F(f)
  BY DoublingExists
<1>3. D = F(D)
  <2> HIDE DEF F, D
  <2> QED BY <1>1, <1>2
<1>4. /\ D \in [Nat -> Nat] /\ D[0] = c
      /\ \A n \in Nat : D[n + 1] = 2 * D[n]
  <2> HIDE DEF D
  <2> QED BY <1>3, DoublingSteps
<1> QED BY <1>4

\* A capacity that is doubled often enough passes any number.
LEMMA DoubledGrows ==
  ASSUME NEW c \in Nat, c >= 2
  PROVE  \A n \in Nat : Doubled(c)[n] >= c /\ Doubled(c)[n] >= 2 * (n + 1)
<1> DEFINE T == {n \in Nat : Doubled(c)[n] >= c /\ Doubled(c)[n] >= 2 * (n + 1)}
<1>1. Doubled(c)[0] = c /\ \A n \in Nat : Doubled(c)[n + 1] = 2 * Doubled(c)[n] /\ Doubled(c)[n] \in Nat
  BY DoubledSteps
<1>2. 0 \in T /\ \A n \in Nat : n \in T => n + 1 \in T
  BY <1>1
<1>3. Nat \subseteq T
  <2> HIDE DEF T
  <2> QED BY <1>2, SetInduction
<1> QED BY <1>3

\* Doubling n times and then m times is doubling n + m times.
LEMMA DoubledAgain ==
  ASSUME NEW c \in Nat, NEW m \in Nat
  PROVE  \A n \in Nat : Doubled(Doubled(c)[m])[n] = Doubled(c)[m + n]
<1> DEFINE d == Doubled(c)[m]
           T == {n \in Nat : Doubled(d)[n] = Doubled(c)[m + n]}
<1>1. d \in Nat
  BY DoubledSteps
<1>2. Doubled(d)[0] = d /\ \A n \in Nat : Doubled(d)[n + 1] = 2 * Doubled(d)[n]
  <2> HIDE DEF d
  <2> QED BY <1>1, DoubledSteps
<1>3. \A n \in Nat : Doubled(c)[n + 1] = 2 * Doubled(c)[n]
  BY DoubledSteps
<1>4. 0 \in T
  BY <1>2
<1>5. ASSUME NEW n \in Nat, n \in T PROVE n + 1 \in T
  <2>1. m + n \in Nat /\ m + (n + 1) = (m + n) + 1
    OBVIOUS
  <2>2. Doubled(c)[(m + n) + 1] = 2 * Doubled(c)[m + n]
    BY <2>1, <1>3
  <2>3. Doubled(d)[n + 1] = Doubled(c)[m + (n + 1)]
    <3> HIDE DEF d
    <3> QED BY <2>1, <2>2, <1>2, <1>5
  <2> QED BY <2>3
<1>6. Nat \subseteq T
  <2> HIDE DEF T
  <2> QED BY <1>4, <1>5, SetInduction
<1> QED BY <1>6

\* The first doubling that leaves room is found, and no capacity is given up for a smaller.
LEMMA ExtendedLeavesRoom ==
  ASSUME NEW c \in Nat, c >= 2, NEW used \in Nat, NEW extra \in Nat
  PROVE  /\ \E n \in Nat : Extended(c, used, extra) = Doubled(c)[n]
         /\ Extended(c, used, extra) \in Nat
         /\ Extended(c, used, extra) >= c
         /\ ~NeedsResize(Extended(c, used, extra), used, extra)
<1> DEFINE D == Doubled(c)
           last == used + extra + 2
           enough == {n \in 0..last : ~NeedsResize(D[n], used, extra)}
<1>1. \A n \in Nat : D[n] \in Nat /\ D[n] >= c /\ D[n] >= 2 * (n + 1)
  BY DoubledSteps, DoubledGrows
<1>2. last \in enough
  <2>1. last \in Nat /\ last \in 0..last /\ D[last] \in Nat /\ D[last] >= 2 * (last + 1)
    BY <1>1
  <2> HIDE DEF D
  <2>2. ~((3 * D[last]) \div 4 <= used + extra)
    BY <2>1
  <2> QED BY <2>1, <2>2 DEF NeedsResize
<1>3. enough \subseteq Nat /\ enough # {}
  BY <1>2
<1>4. Min(enough) \in enough
  <2> HIDE DEF enough
  <2> QED BY <1>3, LeastIsMin
<1>5. Extended(c, used, extra) = D[Min(enough)]
  BY DEF Extended
<1>6. Min(enough) \in Nat /\ ~NeedsResize(D[Min(enough)], used, extra)
  <2> HIDE DEF D
  <2> QED BY <1>4
<1> HIDE DEF D, enough
<1> QED BY <1>1, <1>5, <1>6 DEF D

------------------------------------------------------------------------------
At(c, k, i) == ((Hash[k] % c) + i) % c

Slot == Keys \union {EMPTY, TOMBSTONE}
Slots(c) == [0..c - 1 -> Slot]

\* Capacity is the number of slots, and a probe goes where At says.
LEMMA CapacityIs ==
  ASSUME NEW c \in Nat, NEW slots, DOMAIN slots = 0..c - 1
  PROVE  /\ Capacity(slots) = c
         /\ \A k, i : NthSlot(slots, k, i) = At(c, k, i)
<1>2. Cardinality(0..c - 1) = c
  BY FS_Interval
<1>3. Capacity(slots) = c
  BY <1>2 DEF Capacity
<1> QED BY <1>3 DEF NthSlot, At

\* A sum of two slots is taken around the end of the table at most once.
LEMMA Wrap ==
  ASSUME NEW c \in Nat \ {0}, NEW h \in 0..c - 1, NEW i \in 0..c - 1
  PROVE  (h + i) % c = IF h + i < c THEN h + i ELSE h + i - c
  BY SMT

\* The probes 0 to c - 1 for a key visit every slot, each once.
LEMMA ProbesVisitAll ==
  ASSUME NEW c \in Nat \ {0}, NEW k \in Keys
  PROVE  /\ \A i \in 0..c - 1 : At(c, k, i) \in 0..c - 1
         /\ \A i, j \in 0..c - 1 : At(c, k, i) = At(c, k, j) => i = j
         /\ \A s \in 0..c - 1 : \E i \in 0..c - 1 : At(c, k, i) = s
<1> DEFINE h == Hash[k] % c
<1>1. h \in 0..c - 1
  <2>1. Hash[k] \in Nat
    BY ProbingAssumption
  <2>2. \A H \in Nat : H % c \in 0..c - 1
    BY SMT
  <2> QED BY <2>1, <2>2
<1>2. \A i : At(c, k, i) = (h + i) % c
  BY DEF At
<1> HIDE DEF h
<1>3. \A i \in 0..c - 1 : At(c, k, i) = IF h + i < c THEN h + i ELSE h + i - c
  BY <1>1, <1>2, Wrap
<1>4. ASSUME NEW s \in 0..c - 1 PROVE \E i \in 0..c - 1 : At(c, k, i) = s
  <2>1. CASE h <= s
    <3>1. s - h \in 0..c - 1 /\ At(c, k, s - h) = s
      BY <2>1, <1>1, <1>3
    <3> QED BY <3>1
  <2>2. CASE s < h
    <3>1. s - h + c \in 0..c - 1 /\ At(c, k, s - h + c) = s
      BY <2>2, <1>1, <1>3
    <3> QED BY <3>1
  <2> QED BY <2>1, <2>2, <1>1
<1> QED BY <1>1, <1>3, <1>4

\* What a search for k finds with probe i, in slots of capacity c.
Found(slots, c, k, what, i) ==
  /\ slots[At(c, k, i)] = what
  /\ \A j \in 0..i - 1 : slots[At(c, k, j)] \notin {k, EMPTY}

\* Finds, in the terms of Found.
LEMMA FindsIs ==
  ASSUME NEW c \in Nat, NEW slots \in Slots(c), NEW k, NEW what
  PROVE  Finds(slots, k, what) = {i \in 0..c - 1 : Found(slots, c, k, what, i)}
<1>1. Capacity(slots) = c /\ \A i : NthSlot(slots, k, i) = At(c, k, i)
  BY CapacityIs DEF Slots
<1> QED BY <1>1 DEF Finds, Reaches, Found

\* Every key lies where a search for it arrives, in one slot.
WellProbed(slots, c) ==
  /\ slots \in Slots(c)
  /\ \A s \in 0..c - 1 : slots[s] \in Keys =>
       \E i \in 0..c - 1 : /\ At(c, slots[s], i) = s
                          /\ \A j \in 0..i - 1 : slots[At(c, slots[s], j)] # EMPTY
  /\ \A s, t \in 0..c - 1 : slots[s] \in Keys /\ slots[s] = slots[t] => s = t

\* contains: a search for a key answers yes exactly if a slot holds it.
LEMMA SearchIsRight ==
  ASSUME NEW c \in Nat \ {0}, NEW slots, WellProbed(slots, c), NEW k \in Keys
  PROVE  HasKey(slots, k) <=> k \in LiveKeys(slots)
<1>1. slots \in Slots(c) /\ DOMAIN slots = 0..c - 1 /\ Keys \subseteq Slot
  BY DEF WellProbed, Slots, Slot
<1>2. HasKey(slots, k) <=> \E i \in 0..c - 1 : Found(slots, c, k, k, i)
  BY <1>1, FindsIs DEF HasKey
<1>3. k \in LiveKeys(slots) <=> \E s \in 0..c - 1 : slots[s] = k
  BY <1>1 DEF LiveKeys, LiveSlots
<1>4. ASSUME NEW i \in 0..c - 1, Found(slots, c, k, k, i) PROVE \E s \in 0..c - 1 : slots[s] = k
  BY <1>4, ProbesVisitAll DEF Found
<1>5. ASSUME NEW s \in 0..c - 1, slots[s] = k PROVE \E i \in 0..c - 1 : Found(slots, c, k, k, i)
  <2>1. PICK i \in 0..c - 1 : At(c, k, i) = s /\ \A j \in 0..i - 1 : slots[At(c, k, j)] # EMPTY
    BY <1>5 DEF WellProbed
  <2>2. ASSUME NEW j \in 0..i - 1 PROVE slots[At(c, k, j)] # k
    <3>1. j \in 0..c - 1 /\ j # i
      OBVIOUS
    <3>2. At(c, k, j) \in 0..c - 1 /\ At(c, k, j) # s
      BY <3>1, <2>1, ProbesVisitAll
    <3> QED BY <3>2, <1>5 DEF WellProbed
  <2> QED BY <2>1, <2>2, <1>5 DEF Found
<1> QED BY <1>2, <1>3, <1>4, <1>5

\* Where a key is put: where it is; else in a slot on its way that holds none; and if there
\* is none, every slot holds a key.
LEMMA PlaceIsRight ==
  ASSUME NEW c \in Nat \ {0}, NEW slots \in Slots(c), NEW k \in Keys
  PROVE  \E i \in 0..c - 1 :
           /\ Place(slots, k) = At(c, k, i)
           /\ \/ slots[At(c, k, i)] = k /\ HasKey(slots, k)
              \/ /\ ~HasKey(slots, k)
                 /\ slots[At(c, k, i)] \in {EMPTY, TOMBSTONE}
                 /\ \A j \in 0..i - 1 : slots[At(c, k, j)] # EMPTY
              \/ /\ ~HasKey(slots, k)
                 /\ slots[At(c, k, i)] \in Keys
                 /\ \A s \in 0..c - 1 : slots[s] \in Keys
<1> DEFINE F(what) == Finds(slots, k, what)
           probe == IF F(k) # {} THEN Min(F(k))
                    ELSE IF F(TOMBSTONE) # {} THEN Min(F(TOMBSTONE))
                    ELSE IF F(EMPTY) # {} THEN Min(F(EMPTY)) ELSE 0
<1>0. Place(slots, k) = At(c, k, probe)
  BY CapacityIs DEF Place, Slots
<1>1. \A what : F(what) = {i \in 0..c - 1 : Found(slots, c, k, what, i)}
  BY FindsIs
<1>2. ASSUME NEW what, F(what) # {}
      PROVE  Min(F(what)) \in 0..c - 1 /\ Found(slots, c, k, what, Min(F(what)))
  <2>1. F(what) \subseteq Nat
    BY <1>1
  <2>2. Min(F(what)) \in F(what)
    <3> HIDE DEF F
    <3> QED BY <2>1, <1>2, LeastIsMin
  <2> QED BY <2>2, <1>1
<1>3. HasKey(slots, k) <=> F(k) # {}
  BY DEF HasKey
<1>4. k \notin {EMPTY, TOMBSTONE} /\ \A i \in 0..c - 1 : At(c, k, i) \in 0..c - 1 /\ slots[At(c, k, i)] \in Slot
  BY ProbingAssumption, ProbesVisitAll DEF Slots
<1> HIDE DEF F
<1>5. CASE F(k) # {}
  <2>1. probe = Min(F(k))
    BY <1>5
  <2> HIDE DEF probe
  <2>2. slots[At(c, k, probe)] = k /\ probe \in 0..c - 1
    BY <2>1, <1>2, <1>5 DEF Found
  <2> QED BY <2>2, <1>0, <1>3, <1>5
<1>6. CASE F(k) = {} /\ F(TOMBSTONE) # {}
  <2>1. probe = Min(F(TOMBSTONE))
    BY <1>6
  <2> HIDE DEF probe
  <2>2. probe \in 0..c - 1 /\ Found(slots, c, k, TOMBSTONE, probe)
    BY <2>1, <1>2, <1>6
  <2> QED BY <2>2, <1>0, <1>3, <1>6 DEF Found
<1>7. CASE F(k) = {} /\ F(TOMBSTONE) = {} /\ F(EMPTY) # {}
  <2>1. probe = Min(F(EMPTY))
    BY <1>7
  <2> HIDE DEF probe
  <2>2. probe \in 0..c - 1 /\ Found(slots, c, k, EMPTY, probe)
    BY <2>1, <1>2, <1>7
  <2> QED BY <2>2, <1>0, <1>3, <1>7 DEF Found
<1>8. CASE F(k) = {} /\ F(TOMBSTONE) = {} /\ F(EMPTY) = {}
  <2>1. probe = 0 /\ 0 \in 0..c - 1
    BY <1>8
  <2> HIDE DEF probe
  <2> DEFINE T == {n \in Nat : \A i \in 0..n - 1 : i \in 0..c - 1 => slots[At(c, k, i)] \in Keys \ {k}}
  <2>2. 0 \in T
    OBVIOUS
  <2>3. ASSUME NEW n \in Nat, n \in T PROVE n + 1 \in T
    <3>1. ASSUME n \in 0..c - 1 PROVE slots[At(c, k, n)] \in Keys \ {k}
      <4>1. \A j \in 0..n - 1 : slots[At(c, k, j)] \in Keys \ {k}
        BY <2>3, <3>1
      <4>2. \A j \in 0..n - 1 : slots[At(c, k, j)] \notin {k, EMPTY}
        BY <4>1, ProbingAssumption
      <4>3. \A what \in {k, TOMBSTONE, EMPTY} : ~Found(slots, c, k, what, n)
        BY <1>1, <1>8, <3>1
      <4>4. slots[At(c, k, n)] \notin {k, TOMBSTONE, EMPTY}
        BY <4>2, <4>3 DEF Found
      <4> QED BY <4>4, <1>4, <3>1 DEF Slot
    <3>2. \A i \in 0..(n + 1) - 1 : i = n \/ i \in 0..n - 1
      OBVIOUS
    <3> QED BY <2>3, <3>1, <3>2
  <2>4. Nat \subseteq T
    <3> HIDE DEF T
    <3> QED BY <2>2, <2>3, SetInduction
  <2>5. c \in T
    BY <2>4
  <2>6. \A i \in 0..c - 1 : slots[At(c, k, i)] \in Keys
    BY <2>5
  <2>7. \A s \in 0..c - 1 : slots[s] \in Keys
    BY <2>6, ProbesVisitAll
  <2> QED BY <2>1, <2>6, <2>7, <1>0, <1>3, <1>8
<1> QED BY <1>5, <1>6, <1>7, <1>8

\* The slots with keys are finitely many, and all of them if they are as many.
LEMMA LiveSlotsFinite ==
  ASSUME NEW c \in Nat, NEW slots \in Slots(c)
  PROVE  /\ LiveSlots(slots) = {i \in 0..c - 1 : slots[i] \in Keys}
         /\ IsFiniteSet(LiveSlots(slots))
         /\ Cardinality(LiveSlots(slots)) \in 0..c
         /\ Cardinality(LiveSlots(slots)) = c => LiveSlots(slots) = 0..c - 1
<1>1. LiveSlots(slots) = {i \in 0..c - 1 : slots[i] \in Keys}
  BY DEF LiveSlots, Slots
<1>2. IsFiniteSet(0..c - 1) /\ Cardinality(0..c - 1) = c
  BY FS_Interval
<1>3. LiveSlots(slots) \in SUBSET (0..c - 1)
  BY <1>1
<1>4. /\ IsFiniteSet(LiveSlots(slots))
      /\ Cardinality(LiveSlots(slots)) <= Cardinality(0..c - 1)
      /\ Cardinality(LiveSlots(slots)) = Cardinality(0..c - 1) => LiveSlots(slots) = 0..c - 1
  BY <1>2, <1>3, FS_Subset
<1>5. Cardinality(LiveSlots(slots)) \in Nat
  BY <1>4, FS_CardinalityType
<1> QED BY <1>1, <1>2, <1>4, <1>5

\* A table just allocated holds nothing.
LEMMA FreshIsRight ==
  ASSUME NEW c \in Nat \ {0}
  PROVE  /\ WellProbed(FreshSlots(c), c)
         /\ LiveSlots(FreshSlots(c)) = {} /\ LiveKeys(FreshSlots(c)) = {}
  BY ProbingAssumption DEF WellProbed, FreshSlots, Slots, Slot, LiveSlots, LiveKeys

\* The place of a key that is there is its slot.
LEMMA PlaceOfMember ==
  ASSUME NEW c \in Nat \ {0}, NEW slots, WellProbed(slots, c), NEW k \in LiveKeys(slots)
  PROVE  Place(slots, k) \in 0..c - 1 /\ slots[Place(slots, k)] = k /\ k \in Keys
<1>1. slots \in Slots(c) /\ k \in Keys
  BY DEF WellProbed, LiveKeys, LiveSlots
<1>2. HasKey(slots, k)
  BY <1>1, SearchIsRight
<1>3. PICK i \in 0..c - 1 : Place(slots, k) = At(c, k, i) /\ slots[At(c, k, i)] = k
  BY <1>1, <1>2, PlaceIsRight
<1> QED BY <1>1, <1>3, ProbesVisitAll

\* A key put into a table that has a slot without one: it is found, and so are the others.
LEMMA PutIsRight ==
  ASSUME NEW c \in Nat \ {0}, NEW slots, WellProbed(slots, c),
         NEW k \in Keys, k \notin LiveKeys(slots), LiveSlots(slots) # 0..c - 1
  PROVE  /\ Place(slots, k) \in 0..c - 1
         /\ slots[Place(slots, k)] \in {EMPTY, TOMBSTONE}
         /\ WellProbed(Put(slots, k), c)
         /\ LiveSlots(Put(slots, k)) = LiveSlots(slots) \union {Place(slots, k)}
         /\ LiveKeys(Put(slots, k)) = LiveKeys(slots) \union {k}
         /\ Place(slots, k) \notin LiveSlots(slots)
<1> DEFINE p == Place(slots, k)
           new == Put(slots, k)
<1>0. \A q \in Keys : \A j \in 0..c - 1 : At(c, q, j) \in 0..c - 1
  BY ProbesVisitAll
<1>1. slots \in Slots(c) /\ DOMAIN slots = 0..c - 1 /\ k \in Slot /\ k \notin {EMPTY, TOMBSTONE}
  BY ProbingAssumption DEF WellProbed, Slots, Slot
<1>2. ~HasKey(slots, k)
  BY SearchIsRight
<1>3. ~(\A s \in 0..c - 1 : slots[s] \in Keys)
  BY <1>1, LiveSlotsFinite
<1>4. PICK i \in 0..c - 1 : /\ p = At(c, k, i)
                          /\ slots[At(c, k, i)] \in {EMPTY, TOMBSTONE}
                          /\ \A j \in 0..i - 1 : slots[At(c, k, j)] # EMPTY
  BY <1>1, <1>2, <1>3, PlaceIsRight
<1>5. p \in 0..c - 1 /\ slots[p] \in {EMPTY, TOMBSTONE} /\ slots[p] \notin Keys
  <2>1. At(c, k, i) \in 0..c - 1
    BY ProbesVisitAll
  <2> QED BY <1>4, <2>1, ProbingAssumption
<1>6. new = [slots EXCEPT ![p] = k]
  BY DEF Put
<1> HIDE DEF p, new
<1>7. new \in Slots(c) /\ new[p] = k /\ \A s \in 0..c - 1 : s # p => new[s] = slots[s]
  BY <1>1, <1>5, <1>6 DEF Slots
<1>8. \A s \in 0..c - 1 : slots[s] # k
  BY <1>1 DEF LiveKeys, LiveSlots
<1>9. \A s \in 0..c - 1 : slots[s] # EMPTY => new[s] # EMPTY
  BY <1>1, <1>7
<1>10. WellProbed(new, c)
  <2>1. ASSUME NEW s \in 0..c - 1, new[s] \in Keys
        PROVE  \E n \in 0..c - 1 : /\ At(c, new[s], n) = s
                                  /\ \A j \in 0..n - 1 : new[At(c, new[s], j)] # EMPTY
    <3>1. CASE s = p
      <4>1. \A j \in 0..i - 1 : j \in 0..c - 1 /\ At(c, k, j) \in 0..c - 1
        <5>1. \A j \in 0..i - 1 : j \in 0..c - 1
          OBVIOUS
        <5>2. \A j \in 0..c - 1 : At(c, k, j) \in 0..c - 1
          BY <1>0
        <5> QED BY <5>1, <5>2
      <4> QED BY <4>1, <3>1, <1>4, <1>7, <1>9
    <3>2. CASE s # p
      <4>1. slots[s] \in Keys /\ new[s] = slots[s]
        BY <2>1, <3>2, <1>7
      <4>2. PICK n \in 0..c - 1 : /\ At(c, slots[s], n) = s
                                /\ \A j \in 0..n - 1 : slots[At(c, slots[s], j)] # EMPTY
        BY <4>1 DEF WellProbed
      <4>3. \A j \in 0..n - 1 : j \in 0..c - 1 /\ At(c, slots[s], j) \in 0..c - 1
        <5>1. \A j \in 0..n - 1 : j \in 0..c - 1
          OBVIOUS
        <5>2. \A j \in 0..c - 1 : At(c, slots[s], j) \in 0..c - 1
          BY <4>1, <1>0
        <5> QED BY <5>1, <5>2
      <4>4. \A j \in 0..n - 1 : new[At(c, slots[s], j)] # EMPTY
        BY <4>2, <4>3, <1>9
      <4> QED BY <4>1, <4>2, <4>4
    <3> QED BY <3>1, <3>2
  <2>2. ASSUME NEW s \in 0..c - 1, NEW t \in 0..c - 1, new[s] \in Keys, new[s] = new[t]
        PROVE  s = t
    BY <2>2, <1>7, <1>8 DEF WellProbed
  <2> QED BY <2>1, <2>2, <1>7 DEF WellProbed
<1>11. LiveSlots(new) = LiveSlots(slots) \union {p}
  <2>1. /\ LiveSlots(slots) = {s \in 0..c - 1 : slots[s] \in Keys}
        /\ LiveSlots(new) = {s \in 0..c - 1 : new[s] \in Keys}
    BY <1>1, <1>7, LiveSlotsFinite
  <2> QED BY <2>1, <1>5, <1>7
<1>12. LiveKeys(new) = LiveKeys(slots) \union {k}
  <2>1. \A s \in LiveSlots(slots) : s \in 0..c - 1 /\ s # p
    BY <1>1, <1>5 DEF LiveSlots
  <2> QED BY <2>1, <1>7, <1>11 DEF LiveKeys
<1>13. p \notin LiveSlots(slots)
  BY <1>5 DEF LiveSlots
<1> QED BY <1>5, <1>10, <1>11, <1>12, <1>13 DEF p, new

Cleared(slots, p) == [slots EXCEPT ![p] = TOMBSTONE]

\* A key's slot made a tombstone: the key is gone and the others are still found.
LEMMA ClearIsRight ==
  ASSUME NEW c \in Nat \ {0}, NEW slots, WellProbed(slots, c), NEW p \in LiveSlots(slots)
  PROVE  /\ WellProbed(Cleared(slots, p), c)
         /\ LiveSlots(Cleared(slots, p)) = LiveSlots(slots) \ {p}
         /\ LiveKeys(Cleared(slots, p)) = LiveKeys(slots) \ {slots[p]}
<1> DEFINE new == Cleared(slots, p)
<1>1. slots \in Slots(c) /\ DOMAIN slots = 0..c - 1 /\ TOMBSTONE \in Slot
      /\ TOMBSTONE \notin Keys /\ TOMBSTONE # EMPTY
  BY ProbingAssumption DEF WellProbed, Slots, Slot
<1>2. p \in 0..c - 1 /\ slots[p] \in Keys
  BY <1>1 DEF LiveSlots
<1>3. new \in Slots(c) /\ new[p] = TOMBSTONE /\ \A s \in 0..c - 1 : s # p => new[s] = slots[s]
  BY <1>1, <1>2 DEF Slots, Cleared
<1> HIDE DEF new
<1>4. \A s \in 0..c - 1 : slots[s] # EMPTY => new[s] # EMPTY
  BY <1>1, <1>3
<1>5. \A s \in 0..c - 1 : new[s] \in Keys => s # p /\ new[s] = slots[s]
  BY <1>1, <1>3
<1>6. WellProbed(new, c)
  <2>1. ASSUME NEW s \in 0..c - 1, new[s] \in Keys
        PROVE  \E n \in 0..c - 1 : /\ At(c, new[s], n) = s
                                  /\ \A j \in 0..n - 1 : new[At(c, new[s], j)] # EMPTY
    <3>1. slots[s] \in Keys /\ new[s] = slots[s]
      BY <2>1, <1>5
    <3>2. PICK n \in 0..c - 1 : /\ At(c, slots[s], n) = s
                              /\ \A j \in 0..n - 1 : slots[At(c, slots[s], j)] # EMPTY
      BY <3>1 DEF WellProbed
    <3>3. \A j \in 0..n - 1 : At(c, slots[s], j) \in 0..c - 1
      BY <3>1, ProbesVisitAll
    <3>4. \A j \in 0..n - 1 : new[At(c, slots[s], j)] # EMPTY
      BY <3>2, <3>3, <1>4
    <3> QED BY <3>1, <3>2, <3>4
  <2>2. ASSUME NEW s \in 0..c - 1, NEW t \in 0..c - 1, new[s] \in Keys, new[s] = new[t]
        PROVE  s = t
    BY <2>2, <1>5 DEF WellProbed
  <2> QED BY <2>1, <2>2, <1>3 DEF WellProbed
<1>7. LiveSlots(new) = LiveSlots(slots) \ {p}
  <2>1. /\ LiveSlots(slots) = {s \in 0..c - 1 : slots[s] \in Keys}
        /\ LiveSlots(new) = {s \in 0..c - 1 : new[s] \in Keys}
    BY <1>1, <1>3, LiveSlotsFinite
  <2> QED BY <2>1, <1>1, <1>3
<1>8. LiveKeys(new) = LiveKeys(slots) \ {slots[p]}
  <2>1. \A s \in LiveSlots(slots) : s \in 0..c - 1 /\ slots[s] \in Keys
    BY <1>1 DEF LiveSlots
  <2>2. \A s \in LiveSlots(slots) : s # p => slots[s] # slots[p]
    BY <2>1, <1>2 DEF WellProbed
  <2>3. \A s \in LiveSlots(slots) : s # p => new[s] = slots[s]
    BY <2>1, <1>3
  <2> QED BY <2>2, <2>3, <1>7 DEF LiveKeys
<1> QED BY <1>6, <1>7, <1>8 DEF new

------------------------------------------------------------------------------
\* Putting a key leaves a table of the same capacity.
LEMMA PutType ==
  ASSUME NEW c \in Nat, NEW x \in Slots(c), NEW k \in Keys
  PROVE  Put(x, k) \in Slots(c)
  BY DEF Put, Slots, Slot

\* The loop of try_extend takes the slots one after the other.
LEMMA MovedSteps ==
  ASSUME NEW c0 \in Nat, NEW slots \in Slots(c0), NEW c \in Nat \ {0}
  PROVE  /\ Moved(slots, c)[0] = FreshSlots(c)
         /\ \A n \in 0..c0 - 1 :
              Moved(slots, c)[n + 1] = IF slots[n] \in Keys
                                         THEN Put(Moved(slots, c)[n], slots[n])
                                         ELSE Moved(slots, c)[n]
<1> DEFINE S == Slots(c)
           step(n, x) == IF slots[n] \in Keys THEN Put(x, slots[n]) ELSE x
           G == [n \in Nat |-> [x \in S |-> step(n, x)]]
           F(f) == [n \in 0..c0 |-> IF n = 0 THEN FreshSlots(c) ELSE step(n - 1, f[n - 1])]
           M == Moved(slots, c)
<1>1. FreshSlots(c) \in S
  BY FreshIsRight DEF WellProbed
<1>2. \A n \in Nat : \A x \in S : step(n, x) \in S
  BY PutType
<1> HIDE DEF S, step
<1>3. G \in [Nat -> [S -> S]]
  BY <1>2
<1>4. PICK h : IsIteration(h, FreshSlots(c), G, S)
  <2> HIDE DEF G
  <2> QED BY <1>1, <1>3, Iterates
<1>5. h[0] = FreshSlots(c) /\ \A n \in Nat : h[n] \in S /\ h[n + 1] = step(n, h[n])
  BY <1>4 DEF IsIteration
<1> DEFINE g == [n \in 0..c0 |-> h[n]]
<1>6. g = F(g)
  <2>1. \A n \in 0..c0 : g[n] = F(g)[n]
    <3> SUFFICES ASSUME NEW n \in 0..c0 PROVE g[n] = F(g)[n]
      OBVIOUS
    <3>1. CASE n = 0
      BY <3>1, <1>5
    <3>2. CASE n # 0
      <4>1. n - 1 \in Nat /\ n - 1 \in 0..c0 /\ (n - 1) + 1 = n
        BY <3>2
      <4>2. h[(n - 1) + 1] = step(n - 1, h[n - 1])
        BY <4>1, <1>5
      <4> QED BY <3>2, <4>1, <4>2
    <3> QED BY <3>1, <3>2
  <2> QED BY <2>1
<1>7. M = CHOOSE f : f = F(f)
  <2>1. Capacity(slots) = c0
    BY CapacityIs DEF Slots
  <2> QED BY <2>1 DEF Moved, step
<1>8. M = F(M)
  <2> HIDE DEF F, M
  <2> QED BY <1>6, <1>7
<1> HIDE DEF M
<1>9. M[0] = FreshSlots(c)
  BY <1>8
<1>10. ASSUME NEW n \in 0..c0 - 1 PROVE M[n + 1] = step(n, M[n])
  <2>1. n + 1 \in 0..c0 /\ n + 1 # 0 /\ (n + 1) - 1 = n
    OBVIOUS
  <2>2. F(M)[n + 1] = step(n, M[n])
    BY <2>1
  <2> QED BY <2>2, <1>8
<1> QED BY <1>9, <1>10 DEF M, step

\* new, of capacity c, holds the keys of the first n slots.
LiveUpTo(slots, n) == {j \in 0..n - 1 : slots[j] \in Keys}

MovedPart(slots, new, c, n) ==
  /\ WellProbed(new, c)
  /\ LiveKeys(new) = {slots[i] : i \in LiveUpTo(slots, n)}
  /\ Cardinality(LiveSlots(new)) = Cardinality(LiveUpTo(slots, n))
  /\ Cardinality(LiveSlots(new)) <= n

\* After n slots the larger table holds their keys, each where a search arrives.
LEMMA MovedPrefix ==
  ASSUME NEW c0 \in Nat, NEW slots, WellProbed(slots, c0), NEW c \in Nat \ {0}, c0 <= c
  PROVE  \A n \in 0..c0 : MovedPart(slots, Moved(slots, c)[n], c, n)
<1> DEFINE M == Moved(slots, c)
           live(n) == {j \in 0..n - 1 : slots[j] \in Keys}
           Right(n) == /\ WellProbed(M[n], c)
                       /\ LiveKeys(M[n]) = {slots[i] : i \in live(n)}
                       /\ Cardinality(LiveSlots(M[n])) = Cardinality(live(n))
           T == {n \in Nat : n <= c0 => Right(n)}
<1>1. slots \in Slots(c0)
  BY DEF WellProbed
<1>2. /\ M[0] = FreshSlots(c)
      /\ \A n \in 0..c0 - 1 : M[n + 1] = IF slots[n] \in Keys THEN Put(M[n], slots[n]) ELSE M[n]
  BY <1>1, MovedSteps
<1> HIDE DEF M
<1>3. \A n \in Nat : IsFiniteSet(live(n)) /\ Cardinality(live(n)) \in Nat /\ Cardinality(live(n)) <= n
  <2> SUFFICES ASSUME NEW n \in Nat
               PROVE  IsFiniteSet(live(n)) /\ Cardinality(live(n)) \in Nat /\ Cardinality(live(n)) <= n
    OBVIOUS
  <2>1. IsFiniteSet(0..n - 1) /\ Cardinality(0..n - 1) = n
    BY FS_Interval
  <2>2. live(n) \in SUBSET (0..n - 1)
    OBVIOUS
  <2> HIDE DEF live
  <2>3. IsFiniteSet(live(n)) /\ Cardinality(live(n)) <= n
    BY <2>1, <2>2, FS_Subset
  <2> QED BY <2>3, FS_CardinalityType
<1>4. 0 \in T
  <2>1. live(0) = {}
    OBVIOUS
  <2> HIDE DEF live
  <2>2. Right(0)
    BY <2>1, <1>2, FreshIsRight
  <2> QED BY <2>2
<1>5. ASSUME NEW n \in Nat, n \in T, n + 1 <= c0 PROVE Right(n + 1)
  <2>1. n \in 0..c0 - 1 /\ Right(n) /\ n <= c0 /\ n + 1 \in Nat
    BY <1>5
  <2>2. CASE slots[n] \notin Keys
    <3>1. live(n + 1) = live(n)
      BY <2>2
    <3>2. M[n + 1] = M[n]
      BY <2>1, <2>2, <1>2
    <3> HIDE DEF live
    <3> QED BY <2>1, <3>1, <3>2
  <2>3. CASE slots[n] \in Keys
    <3>1. live(n + 1) = live(n) \union {n} /\ n \notin live(n)
      BY <2>3
    <3>2. M[n + 1] = Put(M[n], slots[n])
      BY <2>1, <2>3, <1>2
    <3>3. slots[n] \notin LiveKeys(M[n])
      <4>1. \A i \in live(n) : i \in 0..c0 - 1 /\ i # n
        BY <2>1
      <4>2. \A i \in live(n) : slots[i] # slots[n]
        BY <4>1, <2>1, <2>3 DEF WellProbed
      <4> HIDE DEF live
      <4> QED BY <4>2, <2>1
    <3>4. LiveSlots(M[n]) # 0..c - 1
      <4>1. M[n] \in Slots(c)
        BY <2>1 DEF WellProbed
      <4>2. Cardinality(LiveSlots(M[n])) < c
        <5> HIDE DEF live
        <5>1. Cardinality(LiveSlots(M[n])) = Cardinality(live(n))
          BY <2>1
        <5> QED BY <5>1, <1>3, <2>1
      <4>3. Cardinality(0..c - 1) = c
        BY FS_Interval
      <4> QED BY <4>2, <4>3
    <3> DEFINE p == Place(M[n], slots[n])
    <3>5. /\ WellProbed(Put(M[n], slots[n]), c)
          /\ LiveSlots(Put(M[n], slots[n])) = LiveSlots(M[n]) \union {p}
          /\ LiveKeys(Put(M[n], slots[n])) = LiveKeys(M[n]) \union {slots[n]}
          /\ p \notin LiveSlots(M[n])
      <4>1. WellProbed(M[n], c)
        BY <2>1
      <4> QED BY <4>1, <2>3, <3>3, <3>4, PutIsRight
    <3>6. IsFiniteSet(LiveSlots(M[n]))
      BY <2>1, LiveSlotsFinite DEF WellProbed
    <3> HIDE DEF p, live
    <3>7. Cardinality(LiveSlots(M[n + 1])) = Cardinality(LiveSlots(M[n])) + 1
      <4>1. Cardinality(LiveSlots(M[n]) \union {p}) = Cardinality(LiveSlots(M[n])) + 1
        BY <3>5, <3>6, FS_AddElement
      <4> QED BY <3>2, <3>5, <4>1
    <3>8. Cardinality(live(n + 1)) = Cardinality(live(n)) + 1
      BY <3>1, <1>3, FS_AddElement
    <3>9. LiveKeys(M[n + 1]) = {slots[i] : i \in live(n + 1)}
      BY <3>1, <3>2, <3>5, <2>1
    <3> QED BY <2>1, <3>2, <3>5, <3>7, <3>8, <3>9
  <2> QED BY <2>2, <2>3
<1> HIDE DEF Right
<1>6. \A n \in Nat : n \in T => n + 1 \in T
  BY <1>5
<1>7. Nat \subseteq T
  <2> HIDE DEF T
  <2> QED BY <1>4, <1>6, SetInduction
<1>8. \A n \in 0..c0 : Right(n)
  BY <1>7
<1> USE DEF Right
<1>9. ASSUME NEW n \in 0..c0 PROVE MovedPart(slots, M[n], c, n)
  <2>1. live(n) = LiveUpTo(slots, n)
    BY DEF LiveUpTo
  <2>2. Cardinality(live(n)) <= n
    BY <1>3
  <2> HIDE DEF live
  <2> QED BY <1>8, <2>1, <2>2 DEF MovedPart
<1> QED BY <1>9 DEF M

\* The larger table holds the keys of the smaller one, and as many.
LEMMA MovedIsRight ==
  ASSUME NEW c0 \in Nat, NEW slots, WellProbed(slots, c0), NEW c \in Nat \ {0}, c0 <= c
  PROVE  LET new == Moved(slots, c)[c0]
         IN /\ WellProbed(new, c)
            /\ LiveKeys(new) = LiveKeys(slots)
            /\ Cardinality(LiveSlots(new)) = Cardinality(LiveSlots(slots))
<1>1. MovedPart(slots, Moved(slots, c)[c0], c, c0)
  BY MovedPrefix
<1>2. LiveUpTo(slots, c0) = LiveSlots(slots)
  BY LiveSlotsFinite DEF WellProbed, LiveUpTo
<1> QED BY <1>1, <1>2 DEF MovedPart, LiveKeys

------------------------------------------------------------------------------
\* The capacities a table may have.
IsCapacity(c) == \E n \in Nat : c = Doubled(FirstCapacity)[n]

\* The first capacity is one of the capacities.
LEMMA FirstIsCapacity ==
  IsCapacity(FirstCapacity) /\ FirstCapacity <= MaxCapacity /\ MaxCapacity \in Nat
<1>1. FirstCapacity \in Nat /\ FirstCapacity <= MaxCapacity /\ MaxCapacity \in Nat
  BY ProbingAssumption
<1>2. Doubled(FirstCapacity)[0] = FirstCapacity
  BY <1>1, DoubledSteps
<1> QED BY <1>1, <1>2 DEF IsCapacity

\* Capacities are numbers of 3 and more, reached by few doublings.
LEMMA CapacityType ==
  ASSUME NEW c, IsCapacity(c)
  PROVE  /\ c \in Nat \ {0} /\ c >= 3
         /\ c <= MaxCapacity => \E n \in 0..MaxCapacity : c = Doubled(FirstCapacity)[n]
<1>1. FirstCapacity \in Nat /\ FirstCapacity >= 3 /\ MaxCapacity \in Nat
  BY ProbingAssumption
<1>2. PICK n \in Nat : c = Doubled(FirstCapacity)[n]
  BY DEF IsCapacity
<1>3. c \in Nat
  BY <1>1, <1>2, DoubledSteps
<1>4. c >= FirstCapacity /\ c >= 2 * (n + 1)
  BY <1>1, <1>2, DoubledGrows
<1>5. c <= MaxCapacity => n \in 0..MaxCapacity
  BY <1>1, <1>3, <1>4
<1> QED BY <1>1, <1>2, <1>3, <1>4, <1>5

\* An extended table has one of the capacities.
LEMMA ExtendedIsCapacity ==
  ASSUME NEW c, IsCapacity(c), NEW used \in Nat, NEW extra \in Nat
  PROVE  IsCapacity(Extended(c, used, extra))
<1>1. FirstCapacity \in Nat
  BY ProbingAssumption
<1>2. PICK n \in Nat : c = Doubled(FirstCapacity)[n]
  BY DEF IsCapacity
<1>3. c \in Nat /\ c >= 2
  BY CapacityType
<1>4. PICK m \in Nat : Extended(c, used, extra) = Doubled(c)[m]
  BY <1>3, ExtendedLeavesRoom
<1>5. Extended(c, used, extra) = Doubled(FirstCapacity)[n + m] /\ n + m \in Nat
  BY <1>1, <1>2, <1>4, DoubledAgain
<1> QED BY <1>5 DEF IsCapacity

\* A table that needs no resize has a slot without a key.
LEMMA RoomLeft ==
  ASSUME NEW c \in Nat, NEW used \in Nat, NEW extra \in Nat, ~NeedsResize(c, used, extra)
  PROVE  used + extra < c
  BY DEF NeedsResize

\* try_extend keeps the keys and leaves a slot without one.
LEMMA RehashedIsRight ==
  ASSUME NEW c, IsCapacity(c), NEW slots, WellProbed(slots, c), NEW extra \in Nat,
         NEW used, used = Cardinality(LiveSlots(slots))
  PROVE  \E d : /\ IsCapacity(d) /\ used < d /\ Capacity(Rehashed(slots, used, extra)) = d
                /\ WellProbed(Rehashed(slots, used, extra), d)
                /\ LiveKeys(Rehashed(slots, used, extra)) = LiveKeys(slots)
                /\ Cardinality(LiveSlots(Rehashed(slots, used, extra))) = used
<1> DEFINE new == Rehashed(slots, used, extra)
           d == Extended(c, used, extra)
<1>1. c \in Nat \ {0} /\ c >= 2
  BY CapacityType
<1>2. slots \in Slots(c)
  BY DEF WellProbed
<1>3. used \in Nat
  BY <1>1, <1>2, LiveSlotsFinite
<1>4. Capacity(slots) = c
  BY <1>1, <1>2, CapacityIs DEF Slots
<1>5. CASE NeedsResize(c, used, extra)
  <2>1. new = Moved(slots, d)[c]
    BY <1>4, <1>5 DEF Rehashed
  <2>2. d \in Nat \ {0} /\ c <= d /\ ~NeedsResize(d, used, extra)
    <3>1. d \in Nat /\ d >= c /\ ~NeedsResize(d, used, extra)
      BY <1>1, <1>3, ExtendedLeavesRoom
    <3> QED BY <1>1, <3>1
  <2> HIDE DEF d
  <2>3. /\ WellProbed(new, d) /\ LiveKeys(new) = LiveKeys(slots)
        /\ Cardinality(LiveSlots(new)) = Cardinality(LiveSlots(slots))
    BY <1>1, <2>1, <2>2, MovedIsRight
  <2> HIDE DEF new
  <2>4. Capacity(new) = d
    BY <2>2, <2>3, CapacityIs DEF WellProbed, Slots
  <2>5. IsCapacity(d)
    BY <1>3, ExtendedIsCapacity DEF d
  <2>6. used < d
    BY <1>3, <2>2, RoomLeft
  <2> QED BY <2>3, <2>4, <2>5, <2>6 DEF new
<1>6. CASE ~NeedsResize(c, used, extra)
  <2>1. new = slots
    BY <1>4, <1>6 DEF Rehashed
  <2>2. used < c
    BY <1>1, <1>3, <1>6, RoomLeft
  <2> HIDE DEF new
  <2> QED BY <1>4, <2>1, <2>2 DEF new
<1> QED BY <1>5, <1>6

------------------------------------------------------------------------------
\* The set is unallocated and empty, or its members are the keys that are found in it; it
\* always has a slot without a key.
SetHolds(c) ==
  /\ IsCapacity(c) /\ c <= MaxCapacity /\ WellProbed(setSlots, c)
  /\ setMembers = LiveKeys(setSlots)
  /\ setUsed = Cardinality(LiveSlots(setSlots))
  /\ setUsed < c

SetInv ==
  /\ setPanicked = FALSE
  /\ IsFiniteSet(setMembers) /\ setUsed = Cardinality(setMembers)
  /\ \/ setSlots = NoSlots /\ setUsed = 0 /\ setMembers = {}
     \/ \E c : SetHolds(c)

\* The set is right at the start.
LEMMA SetInitInv == SetInit => SetInv
  BY FS_EmptySet DEF SetInit, SetInv

\* What follows from a capacity: slots that are there, finitely many of them live.
LEMMA AllocatedSlots ==
  ASSUME NEW c, IsCapacity(c), NEW slots, WellProbed(slots, c)
  PROVE  /\ slots # NoSlots
         /\ c \in Nat \ {0} /\ slots \in Slots(c)
         /\ IsFiniteSet(LiveSlots(slots)) /\ Cardinality(LiveSlots(slots)) \in Nat
         /\ Cardinality(LiveSlots(slots)) < c => LiveSlots(slots) # 0..c - 1
<1>1. c \in Nat \ {0} /\ slots \in Slots(c)
  BY CapacityType DEF WellProbed
<1>2. 0 \in DOMAIN slots /\ DOMAIN NoSlots = {}
  BY <1>1 DEF Slots, NoSlots
<1>3. Cardinality(0..c - 1) = c
  BY <1>1, FS_Interval
<1> QED BY <1>1, <1>2, <1>3, LiveSlotsFinite

\* What a search finds in a set that holds its members.
LEMMA SetHoldsAfterPut ==
  ASSUME NEW c, IsCapacity(c), NEW slots, WellProbed(slots, c), NEW k \in Keys,
         k \notin LiveKeys(slots), Cardinality(LiveSlots(slots)) < c
  PROVE  /\ WellProbed(Put(slots, k), c)
         /\ slots[Place(slots, k)] \in {EMPTY, TOMBSTONE}
         /\ LiveKeys(Put(slots, k)) = LiveKeys(slots) \union {k}
         /\ Cardinality(LiveSlots(Put(slots, k))) = Cardinality(LiveSlots(slots)) + 1
<1> DEFINE p == Place(slots, k)
<1>1. /\ c \in Nat \ {0} /\ LiveSlots(slots) # 0..c - 1
      /\ IsFiniteSet(LiveSlots(slots))
  BY AllocatedSlots
<1>2. /\ WellProbed(Put(slots, k), c) /\ p \notin LiveSlots(slots)
      /\ slots[p] \in {EMPTY, TOMBSTONE}
      /\ LiveSlots(Put(slots, k)) = LiveSlots(slots) \union {p}
      /\ LiveKeys(Put(slots, k)) = LiveKeys(slots) \union {k}
  BY <1>1, PutIsRight
<1> HIDE DEF p
<1>3. Cardinality(LiveSlots(slots) \union {p}) = Cardinality(LiveSlots(slots)) + 1
  BY <1>1, <1>2, FS_AddElement
<1> QED BY <1>2, <1>3 DEF p

\* insert keeps the invariant.
LEMMA SetPutInv ==
  ASSUME SetInv, NEW c, SetHolds(c), NEW k \in Keys, k \notin setMembers,
         SetPut(setSlots, k)
  PROVE  SetInv'
<1> DEFINE put == Put(setSlots, k)
           used == setUsed + 1
<1>1. /\ IsCapacity(c) /\ WellProbed(setSlots, c) /\ k \notin LiveKeys(setSlots)
      /\ setUsed = Cardinality(LiveSlots(setSlots)) /\ setUsed < c
      /\ setMembers = LiveKeys(setSlots)
  BY DEF SetHolds
<1>2. setUsed \in Nat /\ used \in Nat
  BY <1>1, AllocatedSlots
<1>3. /\ WellProbed(put, c) /\ LiveKeys(put) = LiveKeys(setSlots) \union {k}
      /\ Cardinality(LiveSlots(put)) = used
  BY <1>1, SetHoldsAfterPut
<1> HIDE DEF put, used
<1>4. /\ setSlots' = Rehashed(put, used, 0) /\ Capacity(setSlots') <= MaxCapacity
      /\ setUsed' = used /\ setMembers' = setMembers \union {k} /\ setPanicked' = setPanicked
  BY DEF SetPut, put, used
<1>5. PICK d : /\ IsCapacity(d) /\ used < d /\ Capacity(setSlots') = d /\ WellProbed(setSlots', d)
              /\ LiveKeys(setSlots') = LiveKeys(put)
              /\ Cardinality(LiveSlots(setSlots')) = used
  BY <1>1, <1>3, <1>4, RehashedIsRight
<1>6. SetHolds(d)'
  BY <1>1, <1>3, <1>4, <1>5 DEF SetHolds
<1>7. IsFiniteSet(setMembers') /\ Cardinality(setMembers') = setUsed'
  BY <1>4, FS_AddElement DEF SetInv, used
<1> QED BY <1>4, <1>6, <1>7 DEF SetInv

\* Every operation of the set keeps the invariant.
LEMMA SetNextInv ==
  ASSUME RemovesAbsent = FALSE, SetInv, [SetNext]_setVars
  PROVE  SetInv'
<1> SUFFICES ASSUME SetNext PROVE SetInv'
  BY DEF SetInv, SetHolds, setVars
<1>1. CASE setSlots = NoSlots
  <2>0. setUsed = 0 /\ setMembers = {} /\ setPanicked = FALSE
    BY <1>1, AllocatedSlots DEF SetInv, SetHolds
  <2>1. ASSUME NEW k \in Keys, SetInsertFirst(k) PROVE SetInv'
    <3> DEFINE fresh == FreshSlots(FirstCapacity)
    <3>1. IsCapacity(FirstCapacity) /\ FirstCapacity <= MaxCapacity /\ FirstCapacity \in Nat \ {0} /\ FirstCapacity >= 3
      BY FirstIsCapacity, CapacityType
    <3>2. WellProbed(fresh, FirstCapacity) /\ LiveSlots(fresh) = {} /\ LiveKeys(fresh) = {}
      BY <3>1, FreshIsRight
    <3>3. Cardinality(LiveSlots(fresh)) = 0
      BY <3>2, FS_EmptySet
    <3>4. /\ setSlots' = Put(fresh, k) /\ setUsed' = 1 /\ setMembers' = {k}
          /\ setPanicked' = FALSE
      BY <2>0, <2>1 DEF SetInsertFirst
    <3> HIDE DEF fresh
    <3>5. /\ WellProbed(setSlots', FirstCapacity) /\ LiveKeys(setSlots') = {k}
          /\ Cardinality(LiveSlots(setSlots')) = 1
      BY <3>1, <3>2, <3>3, <3>4, SetHoldsAfterPut
    <3>6. SetHolds(FirstCapacity)'
      BY <3>1, <3>4, <3>5 DEF SetHolds
    <3> QED BY <3>4, <3>6, FS_Singleton DEF SetInv
  <2>2. ASSUME NEW k \in Keys, SetRemove(k) PROVE SetInv'
    BY <2>0, <2>2 DEF SetRemove
  <2>3. CASE SetDestroy
    BY <2>3, <2>0, FS_EmptySet DEF SetDestroy, SetInv
  <2> QED BY <1>1, <2>1, <2>2, <2>3 DEF SetNext, SetInsert, SetTryExtend
<1>2. CASE setSlots # NoSlots
  <2>0. PICK c : SetHolds(c)
    BY <1>2 DEF SetInv
  <2>1. /\ IsCapacity(c) /\ c <= MaxCapacity /\ WellProbed(setSlots, c) /\ c \in Nat \ {0}
        /\ setMembers = LiveKeys(setSlots) /\ setUsed = Cardinality(LiveSlots(setSlots))
        /\ IsFiniteSet(LiveSlots(setSlots)) /\ setUsed \in Nat /\ setUsed < c
        /\ setPanicked = FALSE
    BY <2>0, AllocatedSlots DEF SetHolds, SetInv
  <2>2. ASSUME NEW k \in Keys, SetInsert(k) PROVE SetInv'
    <3>1. CASE k \in setMembers
      <4>1. setSlots[Place(setSlots, k)] = k
        BY <2>1, <3>1, PlaceOfMember
      <4>2. k \notin {EMPTY, TOMBSTONE}
        BY ProbingAssumption
      <4>3. UNCHANGED setVars
        BY <2>2, <4>1, <4>2 DEF SetInsert
      <4> QED BY <4>3 DEF SetInv, SetHolds, setVars
    <3>2. CASE k \notin setMembers
      <4>1. setSlots[Place(setSlots, k)] \in {EMPTY, TOMBSTONE}
        BY <2>1, <3>2, SetHoldsAfterPut
      <4>2. k \notin {EMPTY, TOMBSTONE}
        BY ProbingAssumption
      <4>3. SetPut(setSlots, k)
        BY <2>2, <4>1, <4>2 DEF SetInsert
      <4> QED BY <2>0, <3>2, <4>3, SetPutInv
    <3> QED BY <3>1, <3>2
  <2>3. ASSUME NEW num \in 1..2, SetTryExtend(num) PROVE SetInv'
    <3>1. /\ setSlots' = Rehashed(setSlots, setUsed, num) /\ Capacity(setSlots') <= MaxCapacity
          /\ setUsed' = setUsed /\ setMembers' = setMembers /\ setPanicked' = setPanicked
      BY <2>3 DEF SetTryExtend
    <3>2. PICK d : /\ IsCapacity(d) /\ setUsed < d /\ Capacity(setSlots') = d /\ WellProbed(setSlots', d)
                  /\ LiveKeys(setSlots') = LiveKeys(setSlots)
                  /\ Cardinality(LiveSlots(setSlots')) = setUsed
      BY <2>1, <3>1, RehashedIsRight
    <3>3. SetHolds(d)'
      BY <2>1, <3>1, <3>2 DEF SetHolds
    <3> QED BY <3>1, <3>3 DEF SetInv
  <2>4. ASSUME NEW k \in Keys, SetRemove(k) PROVE SetInv'
    <3> DEFINE p == Place(setSlots, k)
    <3>1. k \in LiveKeys(setSlots) /\ IsFiniteSet(setMembers) /\ setUsed = Cardinality(setMembers)
      BY <2>1, <2>4 DEF SetRemove, SetInv
    <3>2. p \in 0..c - 1 /\ setSlots[p] = k
      BY <2>1, <3>1, PlaceOfMember
    <3>3. p \in LiveSlots(setSlots)
      BY <2>1, <3>2 DEF LiveSlots, WellProbed, Slots
    <3>4. setUsed > 0
      BY <2>1, <3>3, FS_EmptySet
    <3>5. /\ setSlots' = [setSlots EXCEPT ![p] = TOMBSTONE] /\ setUsed' = setUsed - 1
          /\ setMembers' = setMembers \ {k} /\ setPanicked' = FALSE
      BY <1>2, <2>1, <2>4, <3>4 DEF SetRemove
    <3> HIDE DEF p
    <3>6. /\ WellProbed(setSlots', c) /\ LiveSlots(setSlots') = LiveSlots(setSlots) \ {p}
          /\ LiveKeys(setSlots') = LiveKeys(setSlots) \ {k}
      <4>1. setSlots' = Cleared(setSlots, p)
        BY <3>5 DEF Cleared
      <4> QED BY <2>1, <3>2, <3>3, <4>1, ClearIsRight
    <3>7. Cardinality(LiveSlots(setSlots')) = setUsed - 1
      BY <2>1, <3>3, <3>6, FS_RemoveElement
    <3>8. IsFiniteSet(setMembers') /\ Cardinality(setMembers') = setUsed'
      BY <2>1, <3>1, <3>5, FS_RemoveElement
    <3>9. SetHolds(c)'
      <4>1. setUsed' < c /\ setUsed' = Cardinality(LiveSlots(setSlots'))
        BY <2>1, <3>5, <3>7
      <4>2. setMembers' = LiveKeys(setSlots')
        BY <2>1, <3>5, <3>6
      <4> QED BY <2>1, <3>6, <4>1, <4>2 DEF SetHolds
    <3> QED BY <3>5, <3>8, <3>9 DEF SetInv
  <2>5. CASE SetDestroy
    BY <2>5, <2>1, FS_EmptySet DEF SetDestroy, SetInv
  <2> QED BY <1>2, <2>2, <2>3, <2>4, <2>5 DEF SetNext, SetInsertFirst
<1> QED BY <1>1, <1>2

\* The invariant implies SetAgrees.
LEMMA SetInvAgrees ==
  ASSUME SetInv
  PROVE  SetAgrees
<1>1. CASE setSlots = NoSlots
  <2>1. setUsed = 0 /\ setMembers = {} /\ setPanicked = FALSE
    BY <1>1, AllocatedSlots DEF SetInv, SetHolds
  <2>2. LiveSlots(setSlots) = {}
    BY <1>1 DEF LiveSlots, NoSlots
  <2> QED BY <1>1, <2>1, <2>2, FS_EmptySet DEF SetAgrees
<1>2. CASE setSlots # NoSlots
  <2>1. PICK c : SetHolds(c)
    BY <1>2 DEF SetInv
  <2>2. \A k \in Keys : HasKey(setSlots, k) <=> k \in setMembers
    BY <2>1, SearchIsRight, CapacityType DEF SetHolds
  <2> QED BY <1>2, <2>1, <2>2 DEF SetAgrees, SetInv, SetHolds
<1> QED BY <1>1, <1>2

\* SetAgrees, for a caller that removes only members: contains answers yes for exactly the
\* members, whatever has been inserted, removed and moved, and no assertion of insert fails.
THEOREM SetIsRight ==
  ASSUME RemovesAbsent = FALSE
  PROVE  Spec => []SetAgrees
<1>1. Init => SetInv
  BY SetInitInv DEF Init
<1>2. SetInv /\ [Next]_vars => SetInv'
  <2>1. [Next]_vars => [SetNext]_setVars
    BY DEF Next, vars, setVars, SetStep, TabStep, InternStep, DequeStep, BucketsStep, ArrayStep, SortStep
  <2> QED BY <2>1, SetNextInv
<1>3. SetInv => SetAgrees
  BY SetInvAgrees
<1> QED BY <1>1, <1>2, <1>3, PTL DEF Spec

------------------------------------------------------------------------------
\* The arrays of a table with capacity c hold the pairs of map and nothing else.
Val == Values \union {NoValue}
Triples(c) == [keys : Slots(c), vals : [0..c - 1 -> Val], ok : BOOLEAN]

PairsHold(t, c, map) ==
  /\ t \in Triples(c)
  /\ WellProbed(t.keys, c)
  /\ DOMAIN map = LiveKeys(t.keys)
  /\ \A k \in DOMAIN map : map[k] \in Values
  /\ \A s \in 0..c - 1 : t.vals[s] = IF t.keys[s] \in Keys THEN map[t.keys[s]] ELSE NoValue

\* Putting a pair leaves a table of the same capacity.
LEMMA PutPairType ==
  ASSUME NEW c \in Nat, NEW t \in Triples(c), NEW k \in Keys, NEW v \in Val
  PROVE  PutPair(t, k, v) \in Triples(c)
<1>1. Put(t.keys, k) \in Slots(c)
  BY PutType DEF Triples
<1>2. [t.vals EXCEPT ![Place(t.keys, k)] = v] \in [0..c - 1 -> Val]
  BY DEF Triples
<1>3. (t.ok /\ HasPlace(t.keys, k)) \in BOOLEAN
  OBVIOUS
<1> QED BY <1>1, <1>2, <1>3 DEF PutPair, Put, Triples

\* u is t with one more pair, and the pairs of t are where they were.
PairAdded(t, u, c, map, k, v) ==
  /\ PairsHold(u, c, WithKeys(map, {k}, v))
  /\ u.ok = TRUE
  /\ Cardinality(LiveSlots(u.keys)) = Cardinality(LiveSlots(t.keys)) + 1
  /\ \A s \in 0..c - 1 : t.keys[s] \in Keys => u.keys[s] = t.keys[s]

\* A pair with a new key.
LEMMA PutPairNew ==
  ASSUME NEW c \in Nat \ {0}, NEW map, NEW t, PairsHold(t, c, map), t.ok = TRUE,
         NEW k \in Keys, k \notin DOMAIN map, NEW v \in Values,
         Cardinality(LiveSlots(t.keys)) < c
  PROVE  PairAdded(t, PutPair(t, k, v), c, map, k, v) /\ HasPlace(t.keys, k)
<1> DEFINE u == PutPair(t, k, v)
           p == Place(t.keys, k)
           new == WithKeys(map, {k}, v)
<1>1. /\ t \in Triples(c) /\ WellProbed(t.keys, c) /\ t.keys \in Slots(c)
      /\ t.vals \in [0..c - 1 -> Val] /\ k \notin LiveKeys(t.keys)
  BY DEF PairsHold, Triples
<1>2. LiveSlots(t.keys) # 0..c - 1 /\ IsFiniteSet(LiveSlots(t.keys))
  <2>1. Cardinality(0..c - 1) = c
    BY FS_Interval
  <2> QED BY <1>1, <2>1, LiveSlotsFinite
<1>3. /\ p \in 0..c - 1 /\ t.keys[p] \in {EMPTY, TOMBSTONE}
      /\ WellProbed(Put(t.keys, k), c) /\ p \notin LiveSlots(t.keys)
      /\ LiveSlots(Put(t.keys, k)) = LiveSlots(t.keys) \union {p}
      /\ LiveKeys(Put(t.keys, k)) = LiveKeys(t.keys) \union {k}
  BY <1>1, <1>2, PutIsRight
<1> HIDE DEF p
<1>4. HasPlace(t.keys, k)
  BY <1>3 DEF HasPlace, p
<1>5. /\ u.keys = Put(t.keys, k) /\ u.vals = [t.vals EXCEPT ![p] = v] /\ u.ok = TRUE
  BY <1>4 DEF PutPair, Put, p
<1>6. u \in Triples(c)
  BY <1>1, PutPairType DEF Val
<1> HIDE DEF u
<1>7. u.keys[p] = k /\ \A s \in 0..c - 1 : s # p => u.keys[s] = t.keys[s]
  BY <1>1, <1>3, <1>5 DEF Put, Slots, p
<1>8. u.vals[p] = v /\ \A s \in 0..c - 1 : s # p => u.vals[s] = t.vals[s]
  BY <1>1, <1>3, <1>5
<1>9. Cardinality(LiveSlots(u.keys)) = Cardinality(LiveSlots(t.keys)) + 1
  BY <1>2, <1>3, <1>5, FS_AddElement
<1>10. /\ DOMAIN new = DOMAIN map \union {k} /\ new[k] = v
       /\ \A q \in DOMAIN map : new[q] = map[q]
  BY DEF WithKeys
<1> HIDE DEF new
<1>11. ASSUME NEW s \in 0..c - 1
       PROVE  u.vals[s] = IF u.keys[s] \in Keys THEN new[u.keys[s]] ELSE NoValue
  <2>1. CASE s = p
    BY <2>1, <1>7, <1>8, <1>10
  <2>2. CASE s # p
    <3>1. t.vals[s] = IF t.keys[s] \in Keys THEN map[t.keys[s]] ELSE NoValue
      BY DEF PairsHold
    <3>2. t.keys[s] \in Keys => t.keys[s] \in DOMAIN map
      BY <1>1 DEF PairsHold, LiveKeys, LiveSlots, Slots
    <3> QED BY <2>2, <3>1, <3>2, <1>7, <1>8, <1>10
  <2> QED BY <2>1, <2>2
<1>12. \A s \in 0..c - 1 : t.keys[s] \in Keys => u.keys[s] = t.keys[s]
  BY <1>3, <1>7, ProbingAssumption
<1>13. \A q \in DOMAIN new : new[q] \in Values
  BY <1>10 DEF PairsHold
<1>14. DOMAIN new = LiveKeys(u.keys)
  BY <1>3, <1>5, <1>10 DEF PairsHold
<1>15. PairsHold(u, c, new)
  BY <1>3, <1>5, <1>6, <1>11, <1>13, <1>14 DEF PairsHold
<1> QED BY <1>4, <1>5, <1>9, <1>12, <1>15 DEF u, new, PairAdded

\* u is t with another value for k.
PairReplaced(t, u, c, map, k, v) ==
  PairsHold(u, c, [map EXCEPT ![k] = v]) /\ u.ok = TRUE /\ u.keys = t.keys

\* A new value for a key that is there.
LEMMA PutPairOld ==
  ASSUME NEW c \in Nat \ {0}, NEW map, NEW t, PairsHold(t, c, map), t.ok = TRUE,
         NEW k \in DOMAIN map, NEW v \in Values
  PROVE  PairReplaced(t, PutPair(t, k, v), c, map, k, v)
<1> DEFINE u == PutPair(t, k, v)
           p == Place(t.keys, k)
           new == [map EXCEPT ![k] = v]
<1>1. /\ t \in Triples(c) /\ WellProbed(t.keys, c) /\ t.keys \in Slots(c)
      /\ t.vals \in [0..c - 1 -> Val] /\ k \in LiveKeys(t.keys)
  BY DEF PairsHold, Triples
<1>2. p \in 0..c - 1 /\ t.keys[p] = k /\ k \in Keys
  BY <1>1, PlaceOfMember
<1> HIDE DEF p
<1>3. HasPlace(t.keys, k)
  BY <1>2 DEF HasPlace, p
<1>4. Put(t.keys, k) = t.keys
  BY <1>1, <1>2 DEF Put, Slots, p
<1>5. /\ u.keys = t.keys /\ u.vals = [t.vals EXCEPT ![p] = v] /\ u.ok = TRUE
  BY <1>3, <1>4 DEF PutPair, Put, p
<1>6. u \in Triples(c)
  BY <1>1, <1>2, PutPairType DEF Val
<1> HIDE DEF u
<1>7. u.vals[p] = v /\ \A s \in 0..c - 1 : s # p => u.vals[s] = t.vals[s]
  BY <1>1, <1>2, <1>5
<1>8. /\ DOMAIN new = DOMAIN map /\ new[k] = v
      /\ \A q \in DOMAIN map : q # k => new[q] = map[q]
  OBVIOUS
<1> HIDE DEF new
<1>9. ASSUME NEW s \in 0..c - 1
      PROVE  u.vals[s] = IF u.keys[s] \in Keys THEN new[u.keys[s]] ELSE NoValue
  <2>1. CASE s = p
    BY <2>1, <1>2, <1>5, <1>7, <1>8
  <2>2. CASE s # p
    <3>1. t.vals[s] = IF t.keys[s] \in Keys THEN map[t.keys[s]] ELSE NoValue
      BY DEF PairsHold
    <3>2. t.keys[s] \in Keys => t.keys[s] \in DOMAIN map
      BY <1>1 DEF PairsHold, LiveKeys, LiveSlots, Slots
    <3>3. t.keys[s] \in Keys => t.keys[s] # k
      BY <2>2, <1>1, <1>2 DEF WellProbed
    <3> QED BY <2>2, <3>1, <3>2, <3>3, <1>5, <1>7, <1>8
  <2> QED BY <2>1, <2>2
<1>10. \A q \in DOMAIN new : new[q] \in Values
  BY <1>8 DEF PairsHold
<1>11. PairsHold(u, c, new)
  BY <1>1, <1>5, <1>6, <1>8, <1>9, <1>10 DEF PairsHold
<1> QED BY <1>5, <1>11 DEF u, new, PairReplaced

FreshTriple(c) ==
  [keys |-> FreshSlots(c), vals |-> [i \in 0..c - 1 |-> NoValue], ok |-> TRUE]

\* The loop of a table's try_extend.
LEMMA TabMovedSteps ==
  ASSUME NEW c0 \in Nat, NEW t \in Triples(c0), NEW c \in Nat \ {0}
  PROVE  /\ TabMoved(t, c)[0] = FreshTriple(c)
         /\ \A n \in 0..c0 - 1 :
              TabMoved(t, c)[n + 1] = IF t.keys[n] \in Keys
                                        THEN PutPair(TabMoved(t, c)[n], t.keys[n], t.vals[n])
                                        ELSE TabMoved(t, c)[n]
<1> DEFINE S == Triples(c)
           step(n, x) == IF t.keys[n] \in Keys THEN PutPair(x, t.keys[n], t.vals[n]) ELSE x
           G == [n \in Nat |-> [x \in S |-> IF n \in 0..c0 - 1 THEN step(n, x) ELSE x]]
           F(f) == [n \in 0..c0 |-> IF n = 0 THEN FreshTriple(c) ELSE step(n - 1, f[n - 1])]
           M == TabMoved(t, c)
<1>1. FreshTriple(c) \in S
  <2>1. FreshSlots(c) \in Slots(c)
    BY FreshIsRight DEF WellProbed
  <2> QED BY <2>1 DEF Triples, FreshTriple, Val
<1>2. \A n \in 0..c0 - 1 : \A x \in S : step(n, x) \in S
  <2>1. \A n \in 0..c0 - 1 : t.vals[n] \in Val
    BY DEF Triples
  <2> QED BY <2>1, PutPairType
<1> HIDE DEF S, step
<1>3. G \in [Nat -> [S -> S]]
  BY <1>2
<1>4. PICK h : IsIteration(h, FreshTriple(c), G, S)
  <2> HIDE DEF G
  <2> QED BY <1>1, <1>3, Iterates
<1>5. /\ h[0] = FreshTriple(c)
      /\ \A n \in 0..c0 - 1 : h[n + 1] = step(n, h[n])
  <2>1. h \in [Nat -> S] /\ h[0] = FreshTriple(c) /\ \A n \in Nat : h[n + 1] = G[n][h[n]]
    BY <1>4 DEF IsIteration
  <2>2. \A n \in 0..c0 - 1 : n \in Nat /\ h[n] \in S
    BY <2>1
  <2>3. \A n \in 0..c0 - 1 : \A x \in S : G[n][x] = step(n, x)
    OBVIOUS
  <2> HIDE DEF G
  <2> QED BY <2>1, <2>2, <2>3
<1> DEFINE g == [n \in 0..c0 |-> h[n]]
<1>6. g = F(g)
  <2>1. \A n \in 0..c0 : g[n] = F(g)[n]
    <3> SUFFICES ASSUME NEW n \in 0..c0 PROVE g[n] = F(g)[n]
      OBVIOUS
    <3>1. CASE n = 0
      BY <3>1, <1>5
    <3>2. CASE n # 0
      <4>1. n - 1 \in 0..c0 - 1 /\ n - 1 \in 0..c0 /\ (n - 1) + 1 = n
        BY <3>2
      <4>2. h[(n - 1) + 1] = step(n - 1, h[n - 1])
        BY <4>1, <1>5
      <4> QED BY <3>2, <4>1, <4>2
    <3> QED BY <3>1, <3>2
  <2> QED BY <2>1
<1>7. M = CHOOSE f : f = F(f)
  <2>1. Capacity(t.keys) = c0
    BY CapacityIs DEF Triples, Slots
  <2> QED BY <2>1 DEF TabMoved, FreshTriple, step
<1>8. M = F(M)
  <2> HIDE DEF F, M
  <2> QED BY <1>6, <1>7
<1> HIDE DEF M
<1>9. M[0] = FreshTriple(c)
  BY <1>8
<1>10. ASSUME NEW n \in 0..c0 - 1 PROVE M[n + 1] = step(n, M[n])
  <2>1. n + 1 \in 0..c0 /\ n + 1 # 0 /\ (n + 1) - 1 = n
    OBVIOUS
  <2>2. F(M)[n + 1] = step(n, M[n])
    BY <2>1
  <2> QED BY <2>2, <1>8
<1> QED BY <1>9, <1>10 DEF M, step

\* The part of map with the keys in ks.
Part(map, ks) == [k \in ks |-> map[k]]

\* A table just allocated holds no pair.
LEMMA FreshTripleHolds ==
  ASSUME NEW c \in Nat \ {0}, NEW map
  PROVE  /\ PairsHold(FreshTriple(c), c, Part(map, {})) /\ FreshTriple(c).ok = TRUE
         /\ Cardinality(LiveSlots(FreshTriple(c).keys)) = 0
<1>1. /\ WellProbed(FreshSlots(c), c) /\ LiveSlots(FreshSlots(c)) = {}
      /\ LiveKeys(FreshSlots(c)) = {} /\ FreshSlots(c) \in Slots(c)
  BY FreshIsRight DEF WellProbed
<1>2. FreshTriple(c) \in Triples(c)
  BY <1>1 DEF Triples, FreshTriple, Val
<1>3. FreshTriple(c).keys = FreshSlots(c) /\ FreshTriple(c).ok = TRUE
      /\ \A s \in 0..c - 1 : FreshTriple(c).vals[s] = NoValue
  BY DEF FreshTriple
<1>4. DOMAIN Part(map, {}) = {}
  BY DEF Part
<1>5. \A s \in 0..c - 1 : FreshSlots(c)[s] \notin Keys
  BY ProbingAssumption DEF FreshSlots
<1> QED BY <1>1, <1>2, <1>3, <1>4, <1>5, FS_EmptySet DEF PairsHold

\* new, of capacity c, holds the pairs of t, which are those of map.
MovedTo(t, new, c, map) ==
  /\ PairsHold(new, c, Part(map, DOMAIN map)) /\ new.ok = TRUE
  /\ Cardinality(LiveSlots(new.keys)) = Cardinality(LiveSlots(t.keys))

\* try_extend moves every pair, and its assertions hold.
LEMMA TabMovedIsRight ==
  ASSUME NEW c0 \in Nat, NEW map, NEW t, PairsHold(t, c0, map), NEW c \in Nat, c # 0, c0 <= c
  PROVE  MovedTo(t, TabMoved(t, c)[c0], c, map)
<1> DEFINE M == TabMoved(t, c)
           live(n) == {j \in 0..n - 1 : t.keys[j] \in Keys}
           keys(n) == {t.keys[i] : i \in live(n)}
           Right(n) == /\ PairsHold(M[n], c, Part(map, keys(n))) /\ M[n].ok = TRUE
                       /\ Cardinality(LiveSlots(M[n].keys)) = Cardinality(live(n))
           T == {n \in Nat : n <= c0 => Right(n)}
<1>1. t \in Triples(c0) /\ t.keys \in Slots(c0) /\ WellProbed(t.keys, c0)
  BY DEF PairsHold, Triples
<1>2. /\ M[0] = FreshTriple(c)
      /\ \A n \in 0..c0 - 1 : M[n + 1] = IF t.keys[n] \in Keys
                                        THEN PutPair(M[n], t.keys[n], t.vals[n]) ELSE M[n]
  BY <1>1, TabMovedSteps
<1> HIDE DEF M
<1>3. \A n \in Nat : IsFiniteSet(live(n)) /\ Cardinality(live(n)) \in Nat /\ Cardinality(live(n)) <= n
  <2> SUFFICES ASSUME NEW n \in Nat
               PROVE  IsFiniteSet(live(n)) /\ Cardinality(live(n)) \in Nat /\ Cardinality(live(n)) <= n
    OBVIOUS
  <2>1. IsFiniteSet(0..n - 1) /\ Cardinality(0..n - 1) = n
    BY FS_Interval
  <2>2. live(n) \in SUBSET (0..n - 1)
    OBVIOUS
  <2> HIDE DEF live
  <2>3. IsFiniteSet(live(n)) /\ Cardinality(live(n)) <= n
    BY <2>1, <2>2, FS_Subset
  <2> QED BY <2>3, FS_CardinalityType
<1>4. 0 \in T
  <2>1. live(0) = {} /\ keys(0) = {}
    OBVIOUS
  <2> HIDE DEF live, keys
  <2>2. Right(0)
    BY <2>1, <1>2, FreshTripleHolds, FS_EmptySet
  <2> QED BY <2>2
<1>5. ASSUME NEW n \in Nat, n \in T, n + 1 <= c0 PROVE Right(n + 1)
  <2>1. n \in 0..c0 - 1 /\ Right(n) /\ n <= c0 /\ n + 1 \in Nat
    BY <1>5
  <2>2. CASE t.keys[n] \notin Keys
    <3>1. live(n + 1) = live(n)
      BY <2>2
    <3>2. M[n + 1] = M[n]
      BY <2>1, <2>2, <1>2
    <3> HIDE DEF live
    <3> QED BY <2>1, <3>1, <3>2
  <2>3. CASE t.keys[n] \in Keys
    <3> DEFINE k == t.keys[n]
               v == t.vals[n]
    <3>1. live(n + 1) = live(n) \union {n} /\ n \notin live(n)
      BY <2>3
    <3>2. M[n + 1] = PutPair(M[n], k, v)
      BY <2>1, <2>3, <1>2
    <3>3. k \notin keys(n)
      <4>1. \A i \in live(n) : i \in 0..c0 - 1 /\ i # n
        BY <2>1
      <4>2. \A i \in live(n) : t.keys[i] # k
        BY <4>1, <2>1, <2>3, <1>1 DEF WellProbed
      <4> HIDE DEF live, k
      <4> QED BY <4>2
    <3>4. k \in DOMAIN map /\ v = map[k] /\ v \in Values
      <4>1. k \in LiveKeys(t.keys)
        BY <2>1, <2>3, <1>1 DEF LiveKeys, LiveSlots, Slots
      <4> QED BY <4>1, <2>1, <2>3 DEF PairsHold
    <3>5. Cardinality(LiveSlots(M[n].keys)) < c
      <4> HIDE DEF live
      <4>1. Cardinality(LiveSlots(M[n].keys)) = Cardinality(live(n))
        BY <2>1
      <4> QED BY <4>1, <1>3, <2>1
    <3>6. keys(n + 1) = keys(n) \union {k}
      <4> HIDE DEF live
      <4> QED BY <3>1
    <3> HIDE DEF k, v, live, keys
    <3>7. DOMAIN Part(map, keys(n)) = keys(n)
      BY DEF Part
    <3>8. WithKeys(Part(map, keys(n)), {k}, v) = Part(map, keys(n + 1))
      BY <3>3, <3>4, <3>6 DEF WithKeys, Part
    <3>9. /\ PairsHold(M[n + 1], c, WithKeys(Part(map, keys(n)), {k}, v)) /\ M[n + 1].ok = TRUE
          /\ Cardinality(LiveSlots(M[n + 1].keys)) = Cardinality(LiveSlots(M[n].keys)) + 1
      <4>1. PairsHold(M[n], c, Part(map, keys(n))) /\ M[n].ok = TRUE
        BY <2>1
      <4>2. k \in Keys /\ k \notin DOMAIN Part(map, keys(n))
        BY <2>3, <3>3, <3>7 DEF k
      <4> DEFINE x == M[n]
                 part == Part(map, keys(n))
      <4>3. PairsHold(x, c, part)
        BY <4>1
      <4>4. x.ok = TRUE
        BY <4>1
      <4>5. k \in Keys
        BY <4>2
      <4>6. k \notin DOMAIN part
        BY <4>2
      <4>7. v \in Values
        BY <3>4
      <4>8. Cardinality(LiveSlots(x.keys)) < c
        BY <3>5
      <4> HIDE DEF x, part
      <4>9. PairAdded(x, PutPair(x, k, v), c, part, k, v)
        BY <4>3, <4>4, <4>5, <4>6, <4>7, <4>8, PutPairNew
      <4> QED BY <4>9, <3>2 DEF x, part, PairAdded
    <3>10. Cardinality(live(n + 1)) = Cardinality(live(n)) + 1
      BY <3>1, <1>3, FS_AddElement
    <3> QED BY <2>1, <3>8, <3>9, <3>10
  <2> QED BY <2>2, <2>3
<1> HIDE DEF Right
<1>6. \A n \in Nat : n \in T => n + 1 \in T
  BY <1>5
<1>7. Nat \subseteq T
  <2> HIDE DEF T
  <2> QED BY <1>4, <1>6, SetInduction
<1>8. Right(c0)
  BY <1>7
<1> USE DEF Right
<1>9. live(c0) = LiveSlots(t.keys) /\ keys(c0) = LiveKeys(t.keys) /\ LiveKeys(t.keys) = DOMAIN map
  BY <1>1, LiveSlotsFinite DEF LiveKeys, PairsHold
<1> HIDE DEF live, keys
<1>10. M = TabMoved(t, c)
  BY DEF M
<1> QED BY <1>8, <1>9, <1>10 DEF MovedTo

\* The part of a map with all its keys is the map.
LEMMA PartIsAll ==
  ASSUME NEW c, NEW map, NEW t, PairsHold(t, c, Part(map, DOMAIN map)),
         \A k \in DOMAIN map : map[k] \in Values
  PROVE  PairsHold(t, c, map)
<1>1. DOMAIN Part(map, DOMAIN map) = DOMAIN map /\ \A k \in DOMAIN map : Part(map, DOMAIN map)[k] = map[k]
  BY DEF Part
<1>2. \A s \in 0..c - 1 : t.keys[s] \in Keys => t.keys[s] \in LiveKeys(t.keys)
  BY DEF PairsHold, WellProbed, Slots, LiveKeys, LiveSlots
<1>3. DOMAIN map = LiveKeys(t.keys)
  BY <1>1 DEF PairsHold
<1>4. \A s \in 0..c - 1 : t.vals[s] = IF t.keys[s] \in Keys THEN map[t.keys[s]] ELSE NoValue
  BY <1>1, <1>2, <1>3 DEF PairsHold
<1>5. t \in Triples(c) /\ WellProbed(t.keys, c)
  BY DEF PairsHold
<1> QED BY <1>3, <1>4, <1>5 DEF PairsHold

\* A table of capacity c: unallocated, or of one of the capacities.
AllocatedAt(keys, c) == (c = 0 /\ keys = NoSlots) \/ (IsCapacity(c) /\ keys # NoSlots)

\* What follows from a capacity of a table that may be unallocated.
LEMMA CapacityOfTable ==
  ASSUME NEW c, NEW t, AllocatedAt(t.keys, c), NEW map, PairsHold(t, c, map)
  PROVE  /\ c \in Nat /\ Capacity(t.keys) = c /\ t \in Triples(c) /\ t.keys \in Slots(c)
         /\ WellProbed(t.keys, c)
         /\ Cardinality(LiveSlots(t.keys)) \in Nat
         /\ c = 0 => Cardinality(LiveSlots(t.keys)) = 0
<1>1. c \in Nat
  BY CapacityType DEF AllocatedAt
<1>2. t \in Triples(c) /\ t.keys \in Slots(c) /\ WellProbed(t.keys, c)
  BY DEF PairsHold, Triples
<1>3. Cardinality(LiveSlots(t.keys)) \in 0..c
  BY <1>1, <1>2, LiveSlotsFinite
<1>4. Capacity(t.keys) = c
  BY <1>1, <1>2, CapacityIs DEF Slots
<1> QED BY <1>1, <1>2, <1>3, <1>4

\* What try_extend leaves: the same pairs, in a larger table if there was not room enough.
HasRoom(t, r, c, d, map, used, extra) ==
  /\ IsCapacity(d) /\ ~NeedsResize(d, used, extra)
  /\ PairsHold(r, d, map) /\ r.ok = TRUE
  /\ Cardinality(LiveSlots(r.keys)) = used
  /\ d # c \/ r = t

\* try_extend_at_least leaves room for extra pairs more.
LEMMA MakeRoomIsRight ==
  ASSUME NEW c, NEW t, AllocatedAt(t.keys, c), NEW map, PairsHold(t, c, map), t.ok = TRUE,
         NEW used, used = Cardinality(LiveSlots(t.keys)), NEW extra \in Nat
  PROVE  \E d : HasRoom(t, MakeRoom(t, used, extra), c, d, map, used, extra)
<1> DEFINE r == MakeRoom(t, used, extra)
<1>1. /\ c \in Nat /\ Capacity(t.keys) = c /\ used \in Nat /\ t.keys \in Slots(c)
      /\ t \in Triples(c) /\ WellProbed(t.keys, c) /\ (c = 0 => used = 0)
  BY CapacityOfTable
<1>2. CASE NeedsResize(c, used, extra)
  <2> DEFINE from == IF t.keys = NoSlots THEN FirstCapacity ELSE c
             d == Extended(from, used, extra)
             m == TabMoved(t, d)[c]
             ok == m.ok /\ t.ok /\ NeedsResize(c, used, extra) /\ Cardinality(LiveSlots(t.keys)) = used
  <2>1. IsCapacity(from) /\ c <= from /\ from \in Nat /\ from >= 2
    <3>1. CASE c = 0 /\ t.keys = NoSlots
      BY <3>1, FirstIsCapacity, CapacityType
    <3>2. CASE IsCapacity(c) /\ t.keys # NoSlots
      BY <3>2, CapacityType
    <3> QED BY <3>1, <3>2 DEF AllocatedAt
  <2> HIDE DEF from
  <2>2. IsCapacity(d) /\ d \in Nat \ {0} /\ d >= from /\ ~NeedsResize(d, used, extra)
    <3>1. d \in Nat /\ d >= from /\ ~NeedsResize(d, used, extra)
      BY <1>1, <2>1, ExtendedLeavesRoom
    <3>2. IsCapacity(d)
      BY <1>1, <2>1, ExtendedIsCapacity
    <3> QED BY <2>1, <3>1, <3>2
  <2>3. r = [m EXCEPT !.ok = ok]
    BY <1>1, <1>2 DEF MakeRoom, Grown, from
  <2> HIDE DEF d
  <2>4. /\ PairsHold(m, d, Part(map, DOMAIN map)) /\ m.ok = TRUE
        /\ Cardinality(LiveSlots(m.keys)) = Cardinality(LiveSlots(t.keys))
    <3>1. d \in Nat /\ d # 0 /\ c <= d
      BY <1>1, <2>1, <2>2
    <3>2. MovedTo(t, TabMoved(t, d)[c], d, map)
      BY <1>1, <3>1, TabMovedIsRight
    <3> QED BY <3>2 DEF MovedTo
  <2> HIDE DEF m
  <2>5. PairsHold(m, d, map) /\ m \in Triples(d)
    BY <2>4, PartIsAll DEF PairsHold
  <2>6. ok = TRUE
    BY <1>2, <2>4
  <2> HIDE DEF ok
  <2>7. r = m
    BY <2>3, <2>4, <2>5, <2>6 DEF Triples
  <2>8. d # c
    BY <1>2, <2>2
  <2> HIDE DEF r
  <2>9. HasRoom(t, r, c, d, map, used, extra)
    BY <2>2, <2>4, <2>5, <2>7, <2>8 DEF HasRoom
  <2> QED BY <2>9 DEF r
<1>3. CASE ~NeedsResize(c, used, extra)
  <2>1. r = t
    BY <1>1, <1>3 DEF MakeRoom
  <2>2. c # 0
    BY <1>1, <1>3 DEF NeedsResize
  <2>3. IsCapacity(c)
    BY <2>2 DEF AllocatedAt
  <2> HIDE DEF r
  <2>4. HasRoom(t, r, c, c, map, used, extra)
    BY <1>3, <2>1, <2>3 DEF HasRoom
  <2> QED BY <2>4 DEF r
<1> QED BY <1>2, <1>3

\* The loop of get_or_create_multiple.
LEMMA CreatedSteps ==
  ASSUME NEW c \in Nat, NEW t \in Triples(c), NEW ks \in Seq(Keys)
  PROVE  /\ Created(t, ks)[0] = t
         /\ \A n \in 0..Len(ks) - 1 :
              Created(t, ks)[n + 1] = IF HasKey(Created(t, ks)[n].keys, ks[n + 1])
                                        THEN Created(t, ks)[n]
                                        ELSE PutPair(Created(t, ks)[n], ks[n + 1], NewValue)
<1> DEFINE S == Triples(c)
           len == Len(ks)
           step(n, x) == IF HasKey(x.keys, ks[n]) THEN x ELSE PutPair(x, ks[n], NewValue)
           G == [n \in Nat |-> [x \in S |-> IF n \in 0..len - 1 THEN step(n + 1, x) ELSE x]]
           F(f) == [n \in 0..len |-> IF n = 0 THEN t ELSE step(n, f[n - 1])]
           M == Created(t, ks)
<1>0. len \in Nat /\ \A n \in 1..len : ks[n] \in Keys
  OBVIOUS
<1>1. t \in S
  OBVIOUS
<1>2. \A n \in 0..len - 1 : \A x \in S : step(n + 1, x) \in S
  <2> SUFFICES ASSUME NEW n \in 0..len - 1, NEW x \in S PROVE step(n + 1, x) \in S
    OBVIOUS
  <2>1. ks[n + 1] \in Keys /\ NewValue \in Val
    BY <1>0, HashTableAssumption DEF Val
  <2>2. PutPair(x, ks[n + 1], NewValue) \in Triples(c)
    BY <2>1, PutPairType
  <2> QED BY <2>2
<1>20. M = CHOOSE f : f = F(f)
  BY DEF Created
<1> HIDE DEF S, step, len
<1>3. G \in [Nat -> [S -> S]]
  BY <1>2
<1>4. PICK h : IsIteration(h, t, G, S)
  <2> HIDE DEF G
  <2> QED BY <1>1, <1>3, Iterates
<1>5. /\ h[0] = t
      /\ \A n \in 0..len - 1 : h[n + 1] = step(n + 1, h[n])
  <2>1. h \in [Nat -> S] /\ h[0] = t /\ \A n \in Nat : h[n + 1] = G[n][h[n]]
    BY <1>4 DEF IsIteration
  <2>2. \A n \in 0..len - 1 : n \in Nat /\ h[n] \in S
    BY <2>1
  <2>3. \A n \in 0..len - 1 : \A x \in S : G[n][x] = step(n + 1, x)
    OBVIOUS
  <2> HIDE DEF G
  <2> QED BY <2>1, <2>2, <2>3
<1> DEFINE g == [n \in 0..len |-> h[n]]
<1>6. g = F(g)
  <2>1. \A n \in 0..len : g[n] = F(g)[n]
    <3> SUFFICES ASSUME NEW n \in 0..len PROVE g[n] = F(g)[n]
      OBVIOUS
    <3>1. CASE n = 0
      BY <3>1, <1>5
    <3>2. CASE n # 0
      <4>1. n - 1 \in 0..len - 1 /\ n - 1 \in 0..len /\ (n - 1) + 1 = n
        BY <3>2, <1>0
      <4>2. h[(n - 1) + 1] = step((n - 1) + 1, h[n - 1])
        BY <4>1, <1>5
      <4> QED BY <3>2, <4>1, <4>2
    <3> QED BY <3>1, <3>2
  <2> QED BY <2>1
<1>8. M = F(M)
  <2> HIDE DEF F, M
  <2> QED BY <1>6, <1>20
<1> HIDE DEF M
<1>9. M[0] = t
  BY <1>0, <1>8
<1>10. ASSUME NEW n \in 0..len - 1 PROVE M[n + 1] = step(n + 1, M[n])
  <2>1. n + 1 \in 0..len /\ n + 1 # 0 /\ (n + 1) - 1 = n
    BY <1>0
  <2>2. F(M)[n + 1] = step(n + 1, M[n])
    BY <2>1
  <2> QED BY <2>2, <1>8
<1> QED BY <1>9, <1>10 DEF M, step, len

\* The first n keys of ks that map has not.
NewKeys(ks, n, map) == {k \in Keys : k \notin DOMAIN map /\ \E i \in 1..n : ks[i] = k}

\* u is t with the keys in new more, and the pairs of t are where they were.
PairsCreated(t, u, c, map, new) ==
  /\ PairsHold(u, c, WithKeys(map, new, NewValue))
  /\ u.ok = TRUE
  /\ IsFiniteSet(new)
  /\ Cardinality(LiveSlots(u.keys)) = Cardinality(LiveSlots(t.keys)) + Cardinality(new)
  /\ \A s \in 0..c - 1 : t.keys[s] \in Keys => u.keys[s] = t.keys[s]

\* Before the first key nothing has been created.
LEMMA NothingCreated ==
  ASSUME NEW c \in Nat, NEW map, NEW t, PairsHold(t, c, map), t.ok = TRUE
  PROVE  PairsCreated(t, t, c, map, {})
<1>1. DOMAIN WithKeys(map, {}, NewValue) = DOMAIN map
      /\ \A k \in DOMAIN map : WithKeys(map, {}, NewValue)[k] = map[k]
  BY DEF WithKeys
<1>2. \A s \in 0..c - 1 : t.keys[s] \in Keys => t.keys[s] \in DOMAIN map
  BY DEF PairsHold, WellProbed, Slots, LiveKeys, LiveSlots
<1> DEFINE new == WithKeys(map, {}, NewValue)
<1> HIDE DEF new
<1>3. PairsHold(t, c, new)
  BY <1>1, <1>2 DEF PairsHold, new
<1>4. Cardinality(LiveSlots(t.keys)) \in Nat
  BY LiveSlotsFinite DEF PairsHold, WellProbed
<1> QED BY <1>3, <1>4, FS_EmptySet DEF PairsCreated, new

\* One key more.
LEMMA OneCreated ==
  ASSUME NEW c \in Nat, c # 0, NEW map, NEW t, NEW u, NEW new, PairsCreated(t, u, c, map, new),
         NEW k \in Keys, k \notin DOMAIN map, k \notin new,
         Cardinality(LiveSlots(u.keys)) < c, Cardinality(LiveSlots(t.keys)) \in Nat
  PROVE  PairsCreated(t, PutPair(u, k, NewValue), c, map, new \union {k})
<1> DEFINE map1 == WithKeys(map, new, NewValue)
           w == PutPair(u, k, NewValue)
<1>1. PairsHold(u, c, map1) /\ u.ok = TRUE
  BY DEF PairsCreated
<1>2. k \notin DOMAIN map1
  BY DEF WithKeys
<1>3. WithKeys(map1, {k}, NewValue) = WithKeys(map, new \union {k}, NewValue)
  BY DEF WithKeys
<1> HIDE DEF map1, w
<1>4. PairAdded(u, w, c, map1, k, NewValue)
  BY <1>1, <1>2, PutPairNew, HashTableAssumption DEF w
<1>5. Cardinality(new \union {k}) = Cardinality(new) + 1 /\ IsFiniteSet(new \union {k})
      /\ Cardinality(new) \in Nat
  BY FS_AddElement, FS_CardinalityType DEF PairsCreated
<1>6. PairsHold(w, c, WithKeys(map, new \union {k}, NewValue))
  BY <1>3, <1>4 DEF PairAdded
<1>7. Cardinality(LiveSlots(w.keys)) = Cardinality(LiveSlots(t.keys)) + Cardinality(new \union {k})
  BY <1>4, <1>5 DEF PairAdded, PairsCreated
<1>8. \A s \in 0..c - 1 : t.keys[s] \in Keys => w.keys[s] = t.keys[s]
  BY <1>4 DEF PairAdded, PairsCreated
<1>9. w.ok = TRUE
  BY <1>4 DEF PairAdded
<1> QED BY <1>5, <1>6, <1>7, <1>8, <1>9 DEF PairsCreated, w

\* The loop creates exactly the keys that were missing, in the room made for them.
LEMMA CreatedIsRight ==
  ASSUME NEW c \in Nat, c # 0, NEW map, NEW t, PairsHold(t, c, map), t.ok = TRUE,
         NEW ks \in Seq(Keys), IsFiniteSet(NewKeys(ks, Len(ks), map)),
         Cardinality(LiveSlots(t.keys)) + Cardinality(NewKeys(ks, Len(ks), map)) <= c
  PROVE  PairsCreated(t, Created(t, ks)[Len(ks)], c, map, NewKeys(ks, Len(ks), map))
<1> DEFINE M == Created(t, ks)
           len == Len(ks)
           new(n) == NewKeys(ks, n, map)
           Right(n) == PairsCreated(t, M[n], c, map, new(n))
           T == {n \in Nat : n <= len => Right(n)}
<1>1. t \in Triples(c) /\ t.keys \in Slots(c) /\ len \in Nat
  BY DEF PairsHold, Triples
<1>2. M[0] = t /\ \A n \in 0..len - 1 :
        M[n + 1] = IF HasKey(M[n].keys, ks[n + 1]) THEN M[n] ELSE PutPair(M[n], ks[n + 1], NewValue)
  BY <1>1, CreatedSteps
<1>3. \A n \in 0..len - 1 : ks[n + 1] \in Keys
  OBVIOUS
<1>4. Cardinality(LiveSlots(t.keys)) \in Nat
  BY <1>1, LiveSlotsFinite
<1> HIDE DEF M, len
<1>5. 0 \in T
  <2>1. new(0) = {}
    BY DEF NewKeys
  <2>2. Right(0)
    BY <2>1, <1>2, NothingCreated
  <2> QED BY <2>2
<1>6. ASSUME NEW n \in Nat, n \in T, n + 1 <= len PROVE Right(n + 1)
  <2> DEFINE k == ks[n + 1]
             u == M[n]
  <2>1. n \in 0..len - 1 /\ Right(n) /\ k \in Keys
    BY <1>1, <1>3, <1>6
  <2>2. M[n + 1] = IF HasKey(u.keys, k) THEN u ELSE PutPair(u, k, NewValue)
    BY <1>2, <2>1
  <2>3. new(n + 1) = new(n) \union {q \in {k} : q \notin DOMAIN map}
    BY <2>1 DEF NewKeys
  <2>4. HasKey(u.keys, k) <=> k \in DOMAIN map \union new(n)
    <3> DEFINE map1 == WithKeys(map, new(n), NewValue)
    <3>1. PairsHold(u, c, map1)
      BY <2>1 DEF PairsCreated
    <3>2. DOMAIN map1 = DOMAIN map \union new(n)
      BY DEF WithKeys
    <3> HIDE DEF map1
    <3>3. WellProbed(u.keys, c) /\ LiveKeys(u.keys) = DOMAIN map1
      BY <3>1 DEF PairsHold
    <3> HIDE DEF u, k
    <3>4. HasKey(u.keys, k) <=> k \in LiveKeys(u.keys)
      BY <2>1, <3>3, SearchIsRight
    <3> QED BY <3>2, <3>3, <3>4
  <2> HIDE DEF k, u, new
  <2>5. CASE k \in DOMAIN map \union new(n)
    <3>1. new(n + 1) = new(n)
      BY <2>3, <2>5
    <3> QED BY <2>1, <2>2, <2>4, <2>5, <3>1 DEF u
  <2>6. CASE k \notin DOMAIN map \union new(n)
    <3>1. new(n + 1) = new(n) \union {k}
      BY <2>3, <2>6
    <3>2. PairsCreated(t, u, c, map, new(n))
      BY <2>1 DEF u
    <3>3. Cardinality(LiveSlots(u.keys)) < c
      <4>1. Cardinality(LiveSlots(u.keys)) = Cardinality(LiveSlots(t.keys)) + Cardinality(new(n))
            /\ IsFiniteSet(new(n))
        BY <3>2 DEF PairsCreated
      <4>2. Cardinality(new(n + 1)) = Cardinality(new(n)) + 1
        BY <2>6, <3>1, <4>1, FS_AddElement
      <4>3. new(n + 1) \in SUBSET new(len)
        BY <1>1, <1>6 DEF NewKeys, new
      <4>4. Cardinality(new(n + 1)) <= Cardinality(new(len)) /\ Cardinality(new(len)) \in Nat
        BY <4>3, FS_Subset, FS_CardinalityType DEF new, len
      <4>5. Cardinality(new(n)) \in Nat
        BY <4>1, FS_CardinalityType
      <4>6. Cardinality(LiveSlots(t.keys)) + Cardinality(new(len)) <= c
        BY DEF new, len
      <4> QED BY <1>4, <4>1, <4>2, <4>4, <4>5, <4>6
    <3>4. PairsCreated(t, PutPair(u, k, NewValue), c, map, new(n) \union {k})
      BY <1>4, <2>1, <2>6, <3>2, <3>3, OneCreated
    <3>5. M[n + 1] = PutPair(u, k, NewValue)
      BY <2>2, <2>4, <2>6
    <3> QED BY <3>1, <3>4, <3>5
  <2> QED BY <2>5, <2>6
<1> HIDE DEF Right
<1>7. \A n \in Nat : n \in T => n + 1 \in T
  BY <1>6
<1>8. Nat \subseteq T
  <2> HIDE DEF T
  <2> QED BY <1>5, <1>7, SetInduction
<1>9. Right(len)
  BY <1>1, <1>8
<1> QED BY <1>9 DEF Right, M, len

\* The table agrees with the caller's map, at capacity c.
TabHolds(c) ==
  /\ AllocatedAt(tabKeys, c) /\ c <= MaxCapacity
  /\ PairsHold(Tab, c, tabMap) /\ Tab.ok = TRUE
  /\ tabUsed = Cardinality(LiveSlots(tabKeys))

\* An iteration has visited, of the keys that were there all the time, those in the slots
\* up to its own.
TabItrHolds ==
  /\ tabItr \in DOMAIN tabKeys \union {NoItr}
  /\ tabSeen \subseteq tabDue /\ tabDue \subseteq DOMAIN tabMap
  /\ tabItr = NoItr => tabDue = {}
  /\ tabItr # NoItr =>
       \A s \in LiveSlots(tabKeys) : tabKeys[s] \in tabDue => (tabKeys[s] \in tabSeen <=> s <= tabItr)

TabInv == ~tabFailed /\ ~tabItrWrong /\ TabItrHolds /\ \E c \in Nat : TabHolds(c)

\* The table without an allocation.
Unallocated == [keys |-> NoSlots, vals |-> NoMap, ok |-> TRUE]

\* The table without an allocation holds the empty map.
LEMMA UnallocatedHolds ==
  /\ PairsHold(Unallocated, 0, NoMap) /\ AllocatedAt(NoSlots, 0) /\ 0 <= MaxCapacity
  /\ DOMAIN NoSlots = {} /\ LiveSlots(NoSlots) = {} /\ DOMAIN NoMap = {}
  /\ Cardinality(LiveSlots(NoSlots)) = 0
<1>1. DOMAIN NoSlots = {} /\ DOMAIN NoMap = {} /\ 0..0 - 1 = {}
  BY DEF NoSlots, NoMap
<1>2. LiveSlots(NoSlots) = {} /\ LiveKeys(NoSlots) = {}
  BY <1>1 DEF LiveSlots, LiveKeys
<1>3. NoSlots \in Slots(0) /\ NoMap \in [0..0 - 1 -> Val]
  BY <1>1 DEF Slots, NoSlots, NoMap
<1>4. Unallocated \in Triples(0)
  BY <1>3 DEF Unallocated, Triples
<1>5. WellProbed(NoSlots, 0)
  BY <1>3 DEF WellProbed
<1>6. PairsHold(Unallocated, 0, NoMap)
  BY <1>1, <1>2, <1>4, <1>5 DEF PairsHold, Unallocated
<1>7. AllocatedAt(NoSlots, 0) /\ 0 <= MaxCapacity
  BY FirstIsCapacity DEF AllocatedAt
<1> QED BY <1>1, <1>2, <1>6, <1>7, FS_EmptySet

\* The table is right at the start.
LEMMA TabInitInv == TabInit => TabInv
<1> SUFFICES ASSUME TabInit PROVE TabInv
  OBVIOUS
<1>1. tabKeys = NoSlots /\ tabVals = NoMap /\ tabUsed = 0 /\ tabMap = NoMap
  BY DEF TabInit
<1>2. EnsureInvariants(tabKeys, tabUsed) = TRUE
  BY <1>1 DEF EnsureInvariants
<1>3. Tab = Unallocated /\ Tab.ok = TRUE
  BY <1>1, <1>2 DEF Tab, Unallocated
<1>4. TabHolds(0)
  BY <1>1, <1>3, UnallocatedHolds DEF TabHolds
<1>5. TabItrHolds
  BY <1>1, UnallocatedHolds DEF TabInit, TabItrHolds
<1> QED BY <1>4, <1>5 DEF TabInv, TabInit

\* What an operation passes to TabSet: a table of capacity d that holds the pairs of map, in
\* which, if it has not grown, the keys that stay are where they were.
TabReady(c, t, d, used, map) ==
  /\ AllocatedAt(t.keys, d) /\ PairsHold(t, d, map) /\ t.ok = TRUE
  /\ used = Cardinality(LiveSlots(t.keys))
  /\ d # 0 => ~NeedsResize(d, used, 0)
  /\ c = d => \A s \in LiveSlots(tabKeys) : tabKeys[s] \in DOMAIN map => t.keys[s] = tabKeys[s]

\* An operation that is ready for TabSet keeps the invariant.
LEMMA TabSetInv ==
  ASSUME NEW c \in Nat, TabHolds(c), TabItrHolds, ~tabItrWrong,
         NEW t, NEW d, NEW used, NEW map, TabReady(c, t, d, used, map), TabSet(t, used, map)
  PROVE  TabInv'
<1>1. AllocatedAt(t.keys, d) /\ PairsHold(t, d, map) /\ t.ok = TRUE
      /\ used = Cardinality(LiveSlots(t.keys)) /\ (d # 0 => ~NeedsResize(d, used, 0))
  BY DEF TabReady
<1>2. /\ d \in Nat /\ Capacity(t.keys) = d /\ t \in Triples(d) /\ t.keys \in Slots(d)
      /\ WellProbed(t.keys, d) /\ (d = 0 => used = 0)
  BY <1>1, CapacityOfTable
<1>3. EnsureInvariants(t.keys, used) = TRUE
  <2>1. CASE d = 0 /\ t.keys = NoSlots
    BY <2>1, <1>2 DEF EnsureInvariants
  <2>2. CASE IsCapacity(d) /\ t.keys # NoSlots
    <3>1. d # 0
      BY <2>2, CapacityType
    <3> QED BY <2>2, <3>1, <1>1, <1>2 DEF EnsureInvariants
  <2> QED BY <1>1, <2>1, <2>2 DEF AllocatedAt
<1>4. tabKeys' = t.keys /\ tabVals' = t.vals /\ tabUsed' = used /\ tabMap' = map
      /\ d <= MaxCapacity /\ tabFailed' = FALSE /\ tabItrWrong' = tabItrWrong
  BY <1>1, <1>2, <1>3 DEF TabSet
<1>5. Tab' = [keys |-> t.keys, vals |-> t.vals, ok |-> TRUE]
  BY <1>3, <1>4 DEF Tab
<1>6. t = [keys |-> t.keys, vals |-> t.vals, ok |-> TRUE]
  BY <1>1, <1>2 DEF Triples
<1>7. Tab' = t
  BY <1>5, <1>6
<1>8. TabHolds(d)'
  BY <1>1, <1>4, <1>7 DEF TabHolds
<1>9. TabItrHolds'
  <2>1. Capacity(tabKeys) = c /\ tabKeys \in Slots(c) /\ PairsHold(Tab, c, tabMap) /\ Tab.keys = tabKeys
    <3>1. AllocatedAt(Tab.keys, c) /\ PairsHold(Tab, c, tabMap) /\ Tab.keys = tabKeys
      BY DEF TabHolds, Tab
    <3> QED BY <3>1, CapacityOfTable
  <2>2. CASE d # c
    <3>1. tabItr' = NoItr /\ tabDue' = {} /\ tabSeen' = {}
      BY <2>1, <2>2, <1>2 DEF TabSet
    <3> QED BY <3>1 DEF TabItrHolds
  <2>3. CASE d = c
    <3>1. /\ tabDue' = tabDue \intersect DOMAIN map /\ tabSeen' = tabSeen \intersect DOMAIN map
          /\ tabItr' = tabItr
      BY <2>1, <2>3, <1>2 DEF TabSet
    <3>2. DOMAIN tabKeys' = DOMAIN tabKeys
      BY <2>1, <2>3, <1>2, <1>4 DEF Slots
    <3>3. ASSUME NEW s \in LiveSlots(t.keys), t.keys[s] \in tabDue, t.keys[s] \in DOMAIN map
          PROVE  s \in LiveSlots(tabKeys) /\ tabKeys[s] = t.keys[s]
      <4>1. t.keys[s] \in LiveKeys(tabKeys)
        BY <3>3, <2>1 DEF TabItrHolds, PairsHold
      <4>2. PICK r \in LiveSlots(tabKeys) : tabKeys[r] = t.keys[s]
        BY <4>1 DEF LiveKeys
      <4>3. t.keys[r] = t.keys[s]
        BY <4>2, <3>3, <2>3 DEF TabReady
      <4>4. r \in 0..d - 1 /\ s \in 0..d - 1 /\ t.keys[s] \in Keys
        BY <4>2, <3>3, <2>1, <2>3, <1>2 DEF LiveSlots, Slots
      <4>5. r = s
        BY <4>3, <4>4, <1>2 DEF WellProbed
      <4> QED BY <4>2, <4>5
    <3>4. ASSUME tabItr # NoItr, NEW s \in LiveSlots(t.keys), t.keys[s] \in tabDue'
          PROVE  t.keys[s] \in tabSeen' <=> s <= tabItr
      <4>1. s \in LiveSlots(tabKeys) /\ tabKeys[s] = t.keys[s] /\ t.keys[s] \in DOMAIN map
        BY <3>1, <3>3, <3>4
      <4>2. tabKeys[s] \in tabSeen <=> s <= tabItr
        BY <4>1, <3>1, <3>4 DEF TabItrHolds
      <4> QED BY <4>1, <4>2, <3>1
    <3>5. tabItr' \in DOMAIN tabKeys' \union {NoItr}
      BY <3>1, <3>2 DEF TabItrHolds
    <3>6. tabSeen' \subseteq tabDue' /\ tabDue' \subseteq DOMAIN map /\ (tabItr' = NoItr => tabDue' = {})
      BY <3>1 DEF TabItrHolds
    <3>7. LiveSlots(tabKeys)' = LiveSlots(t.keys)
      BY <1>4 DEF LiveSlots
    <3> QED BY <3>1, <3>4, <3>5, <3>6, <3>7, <1>4 DEF TabItrHolds
  <2> QED BY <2>2, <2>3
<1> QED BY <1>2, <1>4, <1>8, <1>9 DEF TabInv

\* What the invariant says of the table an operation begins with.
LEMMA TabIs ==
  ASSUME NEW c \in Nat, TabHolds(c)
  PROVE  /\ Tab.keys = tabKeys /\ Tab.vals = tabVals /\ Tab.ok = TRUE
         /\ AllocatedAt(Tab.keys, c) /\ PairsHold(Tab, c, tabMap)
         /\ Capacity(tabKeys) = c /\ tabKeys \in Slots(c) /\ WellProbed(tabKeys, c)
         /\ DOMAIN tabMap = LiveKeys(tabKeys)
         /\ tabUsed \in Nat /\ tabUsed = Cardinality(LiveSlots(Tab.keys))
         /\ tabKeys # NoSlots <=> c # 0
         /\ c # 0 => ~NeedsResize(c, tabUsed, 0)
         /\ c = 0 => tabUsed = 0
<1>1. AllocatedAt(Tab.keys, c) /\ PairsHold(Tab, c, tabMap) /\ Tab.ok = TRUE
      /\ Tab.keys = tabKeys /\ Tab.vals = tabVals
  BY DEF TabHolds, Tab
<1>2. /\ Capacity(tabKeys) = c /\ tabKeys \in Slots(c) /\ WellProbed(tabKeys, c)
      /\ Cardinality(LiveSlots(tabKeys)) \in Nat /\ (c = 0 => Cardinality(LiveSlots(tabKeys)) = 0)
  BY <1>1, CapacityOfTable
<1>3. tabKeys # NoSlots <=> c # 0
  BY <1>1, CapacityType DEF AllocatedAt
<1>4. EnsureInvariants(tabKeys, tabUsed)
  BY <1>1 DEF Tab
<1>5. c # 0 => ~NeedsResize(c, tabUsed, 0)
  BY <1>2, <1>3, <1>4 DEF EnsureInvariants
<1>6. DOMAIN tabMap = LiveKeys(tabKeys)
  BY <1>1 DEF PairsHold
<1> QED BY <1>1, <1>2, <1>3, <1>5, <1>6 DEF TabHolds

\* A search finds the pairs of the caller's map and no others, and a place for every key.
LEMMA TabHasIsRight ==
  ASSUME NEW c \in Nat, TabHolds(c), NEW k \in Keys
  PROVE  /\ TabHas(k) <=> k \in DOMAIN tabMap
         /\ TabGet(k) = IF k \in DOMAIN tabMap THEN tabMap[k] ELSE NoValue
         /\ k \in DOMAIN tabMap => /\ Place(tabKeys, k) \in LiveSlots(tabKeys)
                                    /\ tabKeys[Place(tabKeys, k)] = k
         /\ c # 0 => HasPlace(tabKeys, k)
<1>1. /\ tabKeys # NoSlots <=> c # 0
      /\ WellProbed(tabKeys, c) /\ tabKeys \in Slots(c) /\ DOMAIN tabMap = LiveKeys(tabKeys)
      /\ PairsHold(Tab, c, tabMap) /\ Tab.vals = tabVals /\ Tab.keys = tabKeys
  BY TabIs
<1>2. CASE c = 0
  <2>1. LiveKeys(tabKeys) = {}
    BY <1>1, <1>2 DEF NoSlots, LiveKeys, LiveSlots
  <2> QED BY <1>1, <1>2, <2>1 DEF TabHas, TabGet
<1>3. CASE c # 0
  <2>1. HasKey(tabKeys, k) <=> k \in LiveKeys(tabKeys)
    BY <1>1, <1>3, SearchIsRight
  <2>2. k \in DOMAIN tabMap => /\ Place(tabKeys, k) \in 0..c - 1 /\ tabKeys[Place(tabKeys, k)] = k
    BY <1>1, <1>3, PlaceOfMember
  <2>3. k \in DOMAIN tabMap => tabVals[Place(tabKeys, k)] = tabMap[k]
    BY <2>2, <1>1 DEF PairsHold
  <2>4. k \in DOMAIN tabMap => Place(tabKeys, k) \in LiveSlots(tabKeys)
    BY <2>2, <1>1 DEF LiveSlots, Slots
  <2>5. k \notin DOMAIN tabMap => tabKeys[Place(tabKeys, k)] \in {EMPTY, TOMBSTONE}
    <3> SUFFICES ASSUME k \notin DOMAIN tabMap PROVE tabKeys[Place(tabKeys, k)] \in {EMPTY, TOMBSTONE}
      OBVIOUS
    <3>1. tabUsed < c /\ tabUsed = Cardinality(LiveSlots(tabKeys))
      <4>1. ~NeedsResize(c, tabUsed, 0) /\ tabUsed \in Nat
        BY <1>3, TabIs
      <4> QED BY <4>1, RoomLeft DEF TabHolds
    <3>2. LiveSlots(tabKeys) # 0..c - 1
      <4>1. c - 1 \in Int /\ 0 \in Int /\ c \in Nat
        OBVIOUS
      <4>2. Cardinality(0..c - 1) = c
        BY <4>1, FS_Interval, 0 <= c - 1 \/ c = 0
      <4> QED BY ONLY <3>1, <4>1, <4>2
    <3> QED BY <1>1, <1>3, <3>2, PutIsRight
  <2>6. HasPlace(tabKeys, k)
    BY <2>2, <2>5 DEF HasPlace
  <2> QED BY <1>1, <1>3, <2>1, <2>2, <2>3, <2>4, <2>6 DEF TabHas, TabGet
<1> QED BY <1>2, <1>3

\* insert of a key that is there keeps the invariant.
LEMMA TabReplaceInv ==
  ASSUME NEW c \in Nat, TabHolds(c), TabItrHolds, ~tabItrWrong,
         NEW k \in DOMAIN tabMap, NEW v \in Values,
         TabSet(PutPair(Tab, k, v), tabUsed, [tabMap EXCEPT ![k] = v])
  PROVE  TabInv'
<1> DEFINE t == PutPair(Tab, k, v)
           map == [tabMap EXCEPT ![k] = v]
<1>1. /\ PairsHold(Tab, c, tabMap) /\ Tab.ok = TRUE /\ AllocatedAt(Tab.keys, c)
      /\ tabUsed = Cardinality(LiveSlots(Tab.keys)) /\ (c # 0 => ~NeedsResize(c, tabUsed, 0))
      /\ Tab.keys = tabKeys /\ DOMAIN tabMap = LiveKeys(tabKeys) /\ (tabKeys # NoSlots <=> c # 0)
  BY TabIs
<1>2. c # 0
  <2>1. LiveKeys(NoSlots) = {}
    BY UnallocatedHolds DEF LiveKeys
  <2> QED BY <1>1, <2>1
<1>3. PairsHold(t, c, map) /\ t.ok = TRUE /\ t.keys = Tab.keys
  <2>1. PairReplaced(Tab, t, c, tabMap, k, v)
    <3> DEFINE a == Tab
    <3>1. PairsHold(a, c, tabMap) /\ a.ok = TRUE
      BY <1>1
    <3> HIDE DEF a
    <3>2. PairReplaced(a, PutPair(a, k, v), c, tabMap, k, v)
      BY <1>2, <3>1, PutPairOld
    <3> QED BY <3>2 DEF a
  <2> QED BY <2>1 DEF PairReplaced
<1> HIDE DEF t, map
<1>4. TabReady(c, t, c, tabUsed, map)
  BY <1>1, <1>3 DEF TabReady
<1> QED BY <1>4, TabSetInv DEF t, map

\* A search for a key that is not there leaves everything as it is.
LEMMA SearchedIsTab ==
  ASSUME NEW c \in Nat, TabHolds(c), NEW k \in Keys
  PROVE  Searched(Tab, k) = Tab
<1>1. tabKeys # NoSlots => HasPlace(tabKeys, k)
  BY TabHasIsRight, TabIs
<1>2. EnsureInvariants(tabKeys, tabUsed) = TRUE
  BY TabIs DEF Tab
<1> QED BY <1>1, <1>2 DEF Searched, Tab

\* A table with room for extra keys more, and one with no more than those added.
LEMMA RoomUsed ==
  ASSUME NEW d \in Nat, NEW used \in Nat, NEW extra \in Nat, NEW new \in Nat, new <= extra,
         ~NeedsResize(d, used, extra)
  PROVE  ~NeedsResize(d, used + new, 0) /\ used + new < d
BY DEF NeedsResize

\* Pairs added to a table in which room was made are ready for TabSet.
LEMMA TabAddReady ==
  ASSUME NEW c \in Nat, TabHolds(c), NEW r, NEW d, NEW extra \in Nat,
         HasRoom(Tab, r, c, d, tabMap, tabUsed, extra),
         NEW t, NEW map, NEW new \in Nat, new <= extra, PairsHold(t, d, map), t.ok = TRUE,
         Cardinality(LiveSlots(t.keys)) = Cardinality(LiveSlots(r.keys)) + new,
         \A s \in 0..d - 1 : r.keys[s] \in Keys => t.keys[s] = r.keys[s]
  PROVE  TabReady(c, t, d, tabUsed + new, map)
<1>1. /\ IsCapacity(d) /\ ~NeedsResize(d, tabUsed, extra) /\ Cardinality(LiveSlots(r.keys)) = tabUsed
      /\ d # c \/ r = Tab
  BY DEF HasRoom
<1>2. tabUsed \in Nat /\ Tab.keys = tabKeys /\ tabKeys \in Slots(c)
  BY TabIs
<1>3. d \in Nat
  BY <1>1, CapacityType
<1>4. ~NeedsResize(d, tabUsed + new, 0)
  BY <1>1, <1>2, <1>3, RoomUsed
<1>5. AllocatedAt(t.keys, d)
  <2>1. WellProbed(t.keys, d)
    BY DEF PairsHold
  <2>2. t.keys # NoSlots
    BY <1>1, <2>1, AllocatedSlots
  <2> QED BY <1>1, <2>2 DEF AllocatedAt
<1>6. ASSUME c = d, NEW s \in LiveSlots(tabKeys) PROVE t.keys[s] = tabKeys[s]
  <2>1. s \in 0..d - 1 /\ tabKeys[s] \in Keys
    BY <1>2, <1>6 DEF LiveSlots, Slots
  <2>2. r.keys = tabKeys
    BY <1>1, <1>2, <1>6
  <2> QED BY <2>1, <2>2
<1> QED BY <1>1, <1>4, <1>5, <1>6 DEF TabReady

\* insert and get_or_create of a key that is missing keep the invariant.
LEMMA TabAddInv ==
  ASSUME NEW c \in Nat, TabHolds(c), TabItrHolds, ~tabItrWrong,
         NEW k \in Keys, k \notin DOMAIN tabMap, NEW v \in Values,
         TabSet(PutPair(MakeRoom(Searched(Tab, k), tabUsed, 1), k, v),
                tabUsed + 1, WithKeys(tabMap, {k}, v))
  PROVE  TabInv'
<1> DEFINE r == MakeRoom(Tab, tabUsed, 1)
           t == PutPair(r, k, v)
           map == WithKeys(tabMap, {k}, v)
<1>1. /\ PairsHold(Tab, c, tabMap) /\ Tab.ok = TRUE /\ AllocatedAt(Tab.keys, c)
      /\ tabUsed = Cardinality(LiveSlots(Tab.keys)) /\ tabUsed \in Nat
  BY TabIs
<1>2. PICK d : HasRoom(Tab, r, c, d, tabMap, tabUsed, 1)
  BY <1>1, MakeRoomIsRight
<1>3. TabSet(t, tabUsed + 1, map)
  BY SearchedIsTab
<1> HIDE DEF r
<1>4. /\ IsCapacity(d) /\ ~NeedsResize(d, tabUsed, 1) /\ PairsHold(r, d, tabMap) /\ r.ok = TRUE
      /\ Cardinality(LiveSlots(r.keys)) = tabUsed
  BY <1>2 DEF HasRoom
<1>5. d \in Nat \ {0} /\ tabUsed < d
  BY <1>1, <1>4, CapacityType, RoomLeft
<1>6. PairAdded(r, t, d, tabMap, k, v)
  BY <1>4, <1>5, PutPairNew
<1> HIDE DEF t, map
<1>7. PairsHold(t, d, map) /\ t.ok = TRUE
      /\ Cardinality(LiveSlots(t.keys)) = Cardinality(LiveSlots(r.keys)) + 1
      /\ \A s \in 0..d - 1 : r.keys[s] \in Keys => t.keys[s] = r.keys[s]
  BY <1>6 DEF PairAdded, map
<1>8. TabReady(c, t, d, tabUsed + 1, map)
  <2>1. 1 \in Nat /\ 1 <= 1
    OBVIOUS
  <2> QED BY <1>2, <1>7, <2>1, TabAddReady
<1> QED BY <1>3, <1>8, TabSetInv

\* get_or_create_multiple keeps the invariant: room for the keys that are missing,
\* counted with repetitions, is room for those that are created.
LEMMA TabCreateInv ==
  ASSUME NEW c \in Nat, TabHolds(c), TabItrHolds, ~tabItrWrong, ~tabFailed,
         NEW ks \in Seq(Keys), TabGetOrCreateMultiple(ks)
  PROVE  TabInv'
<1> DEFINE miss == {i \in DOMAIN ks : TabGetMultiple(ks)[i] = NoValue}
           missing == Cardinality(miss)
           new == {k \in Range(ks) : ~TabHas(k)}
           r == MakeRoom(Tab, tabUsed, missing)
           t == Created(r, ks)[Len(ks)]
           map == WithKeys(tabMap, new, NewValue)
<1>1. /\ PairsHold(Tab, c, tabMap) /\ Tab.ok = TRUE /\ AllocatedAt(Tab.keys, c)
      /\ tabUsed = Cardinality(LiveSlots(Tab.keys)) /\ tabUsed \in Nat
  BY TabIs
<1>2. \A k \in Keys : /\ TabHas(k) <=> k \in DOMAIN tabMap
                      /\ TabGet(k) = NoValue <=> k \notin DOMAIN tabMap
  <2>1. \A k \in DOMAIN tabMap : tabMap[k] # NoValue
    BY <1>1, HashTableAssumption DEF PairsHold
  <2> QED BY <2>1, TabHasIsRight
<1>3. DOMAIN ks = 1..Len(ks) /\ Len(ks) \in Nat /\ \A i \in 1..Len(ks) : ks[i] \in Keys
  OBVIOUS
<1>4. miss = {i \in 1..Len(ks) : ks[i] \notin DOMAIN tabMap}
  BY <1>2, <1>3 DEF TabGetMultiple
<1>5. new = NewKeys(ks, Len(ks), tabMap)
  BY <1>2, <1>3 DEF NewKeys, Range
<1>6. CASE missing = 0
  <2>1. UNCHANGED tabVars
    BY <1>6 DEF TabGetOrCreateMultiple
  <2>2. TabInv
    BY DEF TabInv
  <2>3. TabHolds(c)'
    BY <2>1 DEF TabHolds, tabVars, Tab
  <2>4. TabItrHolds'
    BY <2>1 DEF TabItrHolds, tabVars, LiveSlots
  <2> QED BY <2>1, <2>3, <2>4 DEF TabInv, tabVars
<1>7. CASE missing # 0
  <2>1. TabSet(t, tabUsed + Cardinality(new), map)
    BY <1>7 DEF TabGetOrCreateMultiple
  <2> HIDE DEF miss, new
  <2>2. IsFiniteSet(miss) /\ missing \in Nat /\ IsFiniteSet(new) /\ Cardinality(new) \in Nat
        /\ Cardinality(new) <= missing
    <3>1. IsFiniteSet(1..Len(ks))
      BY <1>3, FS_Interval
    <3>2. miss \in SUBSET (1..Len(ks))
      BY <1>4
    <3>3. IsFiniteSet(miss)
      BY <3>1, <3>2, FS_Subset
    <3> DEFINE f == [i \in miss |-> ks[i]]
    <3>4. f \in Surjection(miss, new)
      BY <1>3, <1>4, <1>5 DEF NewKeys, Surjection
    <3> HIDE DEF f
    <3>5. IsFiniteSet(new) /\ Cardinality(new) <= Cardinality(miss)
      BY <3>3, <3>4, FS_Surjection
    <3> QED BY <3>3, <3>5, FS_CardinalityType
  <2>3. PICK d : HasRoom(Tab, r, c, d, tabMap, tabUsed, missing)
    BY <1>1, <2>2, MakeRoomIsRight
  <2> HIDE DEF r, missing
  <2>4. /\ IsCapacity(d) /\ ~NeedsResize(d, tabUsed, missing) /\ PairsHold(r, d, tabMap) /\ r.ok = TRUE
        /\ Cardinality(LiveSlots(r.keys)) = tabUsed
    BY <2>3 DEF HasRoom
  <2>5. d \in Nat /\ d # 0
    BY <2>4, CapacityType
  <2>6. tabUsed + Cardinality(new) < d
    BY <1>1, <2>2, <2>4, <2>5, RoomUsed
  <2>7. PairsCreated(r, t, d, tabMap, new)
    <3>1. IsFiniteSet(NewKeys(ks, Len(ks), tabMap))
      BY <2>2, <1>5
    <3>2. Cardinality(LiveSlots(r.keys)) + Cardinality(NewKeys(ks, Len(ks), tabMap)) <= d
      BY <1>1, <2>2, <2>4, <2>5, <2>6, <1>5
    <3>3. PairsCreated(r, Created(r, ks)[Len(ks)], d, tabMap, NewKeys(ks, Len(ks), tabMap))
      BY <2>4, <2>5, <3>1, <3>2, CreatedIsRight
    <3> QED BY <3>3, <1>5
  <2> HIDE DEF t, map
  <2>8. PairsHold(t, d, map) /\ t.ok = TRUE
        /\ Cardinality(LiveSlots(t.keys)) = Cardinality(LiveSlots(r.keys)) + Cardinality(new)
        /\ \A s \in 0..d - 1 : r.keys[s] \in Keys => t.keys[s] = r.keys[s]
    BY <2>7 DEF PairsCreated, map
  <2>9. TabReady(c, t, d, tabUsed + Cardinality(new), map)
    BY <2>2, <2>3, <2>8, TabAddReady
  <2> QED BY <2>1, <2>9, TabSetInv
<1> QED BY <1>6, <1>7

\* remove and take keep the invariant.
LEMMA TabClearInv ==
  ASSUME NEW c \in Nat, TabHolds(c), TabItrHolds, ~tabItrWrong,
         NEW k \in DOMAIN tabMap, TabClear(Place(tabKeys, k))
  PROVE  TabInv'
<1> DEFINE p == Place(tabKeys, k)
           keys == Cleared(tabKeys, p)
           t == [keys |-> keys, vals |-> [tabVals EXCEPT ![p] = NoValue], ok |-> TRUE]
           map == [q \in DOMAIN tabMap \ {k} |-> tabMap[q]]
<1>1. /\ PairsHold(Tab, c, tabMap) /\ Tab.ok = TRUE /\ AllocatedAt(Tab.keys, c)
      /\ tabUsed \in Nat /\ tabUsed = Cardinality(LiveSlots(tabKeys))
      /\ Tab.keys = tabKeys /\ Tab.vals = tabVals /\ DOMAIN tabMap = LiveKeys(tabKeys)
      /\ (tabKeys # NoSlots <=> c # 0) /\ (c # 0 => ~NeedsResize(c, tabUsed, 0))
      /\ WellProbed(tabKeys, c) /\ tabKeys \in Slots(c)
  BY TabIs
<1>2. k \in Keys
  BY <1>1 DEF LiveKeys, LiveSlots
<1>3. p \in LiveSlots(tabKeys) /\ tabKeys[p] = k
  BY <1>2, TabHasIsRight
<1>4. TabSet(t, tabUsed - 1, map)
  <2>1. [keys |-> [tabKeys EXCEPT ![p] = TOMBSTONE],
         vals |-> [tabVals EXCEPT ![p] = NoValue], ok |-> Tab.ok] = t
    BY <1>1 DEF Cleared
  <2> QED BY <2>1, <1>3 DEF TabClear
<1> HIDE DEF p
<1>5. p \in 0..c - 1 /\ c # 0
  BY <1>1, <1>3 DEF LiveSlots, Slots
<1>6. /\ WellProbed(keys, c) /\ LiveSlots(keys) = LiveSlots(tabKeys) \ {p}
      /\ LiveKeys(keys) = LiveKeys(tabKeys) \ {k}
  BY <1>1, <1>3, <1>5, ClearIsRight
<1>7. keys[p] = TOMBSTONE /\ \A s \in 0..c - 1 : s # p => keys[s] = tabKeys[s]
  BY <1>1, <1>5 DEF Cleared, Slots
<1> HIDE DEF keys
<1>8. t.keys = keys /\ t.ok = TRUE
  OBVIOUS
<1>9. tabVals \in [0..c - 1 -> Val]
  BY <1>1 DEF PairsHold, Triples
<1>10. t.vals[p] = NoValue /\ \A s \in 0..c - 1 : s # p => t.vals[s] = tabVals[s]
  BY <1>5, <1>9
<1>11. t \in Triples(c)
  <2>1. keys \in Slots(c)
    BY <1>6 DEF WellProbed
  <2>2. [tabVals EXCEPT ![p] = NoValue] \in [0..c - 1 -> Val]
    BY <1>5, <1>9 DEF Val
  <2> QED BY <2>1, <2>2 DEF Triples
<1> HIDE DEF t
<1>12. DOMAIN map = DOMAIN tabMap \ {k} /\ \A q \in DOMAIN map : map[q] = tabMap[q]
  OBVIOUS
<1> HIDE DEF map
<1>13. ASSUME NEW s \in 0..c - 1
       PROVE  t.vals[s] = IF t.keys[s] \in Keys THEN map[t.keys[s]] ELSE NoValue
  <2>1. CASE s = p
    BY <2>1, <1>7, <1>8, <1>10, ProbingAssumption
  <2>2. CASE s # p
    <3>1. t.vals[s] = IF t.keys[s] \in Keys THEN tabMap[t.keys[s]] ELSE NoValue
      BY <2>2, <1>1, <1>7, <1>8, <1>10 DEF PairsHold
    <3>2. t.keys[s] \in Keys => t.keys[s] \in DOMAIN map
      <4> SUFFICES ASSUME t.keys[s] \in Keys PROVE t.keys[s] \in DOMAIN map
        OBVIOUS
      <4>1. t.keys[s] = tabKeys[s] /\ s \in LiveSlots(tabKeys)
        BY <2>2, <1>1, <1>7, <1>8 DEF LiveSlots, Slots
      <4>2. tabKeys[s] # k
        BY <2>2, <4>1, <1>1, <1>2, <1>3, <1>5 DEF WellProbed
      <4>3. tabKeys[s] \in DOMAIN tabMap
        BY <4>1, <1>1 DEF LiveKeys
      <4> QED BY <4>1, <4>2, <4>3, <1>12
    <3> QED BY <3>1, <3>2, <1>12
  <2> QED BY <2>1, <2>2
<1>14. PairsHold(t, c, map)
  <2>1. DOMAIN map = LiveKeys(t.keys)
    BY <1>1, <1>6, <1>8, <1>12
  <2>2. \A q \in DOMAIN map : map[q] \in Values
    BY <1>1, <1>12 DEF PairsHold
  <2>3. WellProbed(t.keys, c)
    BY <1>6, <1>8
  <2> QED BY <2>1, <2>2, <2>3, <1>11, <1>13 DEF PairsHold
<1>15. tabUsed - 1 \in Nat /\ Cardinality(LiveSlots(t.keys)) = tabUsed - 1
  <2>1. IsFiniteSet(LiveSlots(tabKeys))
    BY <1>1, LiveSlotsFinite
  <2>2. Cardinality(LiveSlots(tabKeys) \ {p}) = tabUsed - 1
    BY <2>1, <1>1, <1>3, FS_RemoveElement
  <2>3. IsFiniteSet(LiveSlots(tabKeys) \ {p})
    BY <2>1, FS_RemoveElement
  <2> QED BY <2>2, <2>3, <1>6, <1>8, FS_CardinalityType
<1>16. AllocatedAt(t.keys, c)
  <2>1. IsCapacity(c)
    BY <1>1, <1>5 DEF AllocatedAt
  <2>2. t.keys # NoSlots
    BY <2>1, <1>6, <1>8, AllocatedSlots
  <2> QED BY <2>1, <2>2 DEF AllocatedAt
<1>17. ~NeedsResize(c, tabUsed - 1, 0)
  BY <1>1, <1>5, <1>15 DEF NeedsResize
<1>18. ASSUME NEW s \in LiveSlots(tabKeys), tabKeys[s] \in DOMAIN map PROVE t.keys[s] = tabKeys[s]
  <2>1. s # p /\ s \in 0..c - 1
    BY <1>1, <1>3, <1>12, <1>18 DEF LiveSlots, Slots
  <2> QED BY <2>1, <1>7, <1>8
<1>19. TabReady(c, t, c, tabUsed - 1, map)
  BY <1>8, <1>14, <1>15, <1>16, <1>17, <1>18 DEF TabReady
<1> QED BY <1>4, <1>19, TabSetInv

\* The destructor keeps the invariant.
LEMMA TabDestroyInv ==
  ASSUME NEW c \in Nat, TabHolds(c), TabItrHolds, ~tabItrWrong, TabDestroy
  PROVE  TabInv'
<1>1. Tab.ok = TRUE
  BY TabIs
<1>2. [keys |-> NoSlots, vals |-> NoMap, ok |-> Tab.ok] = Unallocated
  BY <1>1 DEF Unallocated
<1>3. TabSet(Unallocated, 0, NoMap)
  BY <1>2 DEF TabDestroy
<1>4. Unallocated.keys = NoSlots /\ Unallocated.ok = TRUE
  BY DEF Unallocated
<1>5. TabReady(c, Unallocated, 0, 0, NoMap)
  BY <1>4, UnallocatedHolds DEF TabReady
<1> QED BY <1>3, <1>5, TabSetInv

\* The slot an iteration goes on to.
LEMMA NextItrIs ==
  ASSUME NEW c \in Nat, TabHolds(c), NEW i \in 0..c - 1 \union {NoItr}
  PROVE  \/ NextItr(i) = NoItr /\ \A s \in LiveSlots(tabKeys) : s <= i
         \/ /\ NextItr(i) \in LiveSlots(tabKeys) /\ NextItr(i) > i
            /\ \A s \in LiveSlots(tabKeys) : s <= i \/ NextItr(i) <= s
<1> DEFINE ahead == {j \in LiveSlots(tabKeys) : j > i}
<1>0. tabKeys \in Slots(c)
  BY TabIs
<1>1. LiveSlots(tabKeys) \subseteq 0..c - 1 /\ i \in Int
  BY <1>0 DEF LiveSlots, Slots, NoItr
<1>2. CASE ahead = {}
  BY <1>1, <1>2 DEF NextItr
<1>3. CASE ahead # {}
  <2>1. ahead \subseteq Nat
    BY <1>1
  <2>2. NextItr(i) = Min(ahead)
    BY <1>3 DEF NextItr
  <2>3. \A s \in LiveSlots(tabKeys) : s <= i \/ s \in ahead
    BY <1>1
  <2>4. \A s \in ahead : s \in LiveSlots(tabKeys) /\ s > i
    OBVIOUS
  <2> HIDE DEF ahead
  <2>5. Min(ahead) \in ahead /\ \A y \in ahead : Min(ahead) <= y
    BY <1>3, <2>1, LeastIsMin
  <2> QED BY <2>2, <2>3, <2>4, <2>5
<1> QED BY <1>2, <1>3

\* A visit to the next slot of an iteration that has been at i.
LEMMA TabVisitInv ==
  ASSUME NEW c \in Nat, TabHolds(c), ~tabFailed,
         NEW i \in 0..c - 1 \union {NoItr}, NEW seen, NEW due,
         seen \subseteq due, due \subseteq DOMAIN tabMap,
         \A s \in LiveSlots(tabKeys) : tabKeys[s] \in due => (tabKeys[s] \in seen <=> s <= i),
         Visit(NextItr(i), seen, due)
  PROVE  TabInv'
<1> DEFINE n == NextItr(i)
<1>1. LiveSlots(tabKeys) \subseteq 0..c - 1 /\ i \in Int /\ DOMAIN tabMap = LiveKeys(tabKeys)
      /\ DOMAIN tabKeys = 0..c - 1 /\ WellProbed(tabKeys, c)
  <2>1. tabKeys \in Slots(c) /\ DOMAIN tabMap = LiveKeys(tabKeys) /\ WellProbed(tabKeys, c)
    BY TabIs
  <2> QED BY <2>1 DEF LiveSlots, Slots, NoItr
<1>2. TabHolds(c)'
  BY DEF Visit, TabHolds, Tab
<1>3. /\ tabFailed' = FALSE /\ tabItr' = n /\ tabKeys' = tabKeys /\ tabMap' = tabMap
      /\ tabSeen' = IF n = NoItr THEN {} ELSE seen \union ({tabKeys[n]} \intersect due)
      /\ tabDue' = IF n = NoItr THEN {} ELSE due
      /\ tabItrWrong' = IF n = NoItr THEN ~(due \subseteq seen) ELSE tabKeys[n] \in seen
  BY DEF Visit
<1>4. CASE n = NoItr /\ \A s \in LiveSlots(tabKeys) : s <= i
  <2>1. due \subseteq seen
    <3> SUFFICES ASSUME NEW k \in due PROVE k \in seen
      OBVIOUS
    <3>1. PICK s \in LiveSlots(tabKeys) : tabKeys[s] = k
      BY <1>1 DEF LiveKeys
    <3> QED BY <3>1, <1>4
  <2>2. TabItrHolds'
    BY <1>3, <1>4 DEF TabItrHolds
  <2> QED BY <2>1, <2>2, <1>2, <1>3, <1>4 DEF TabInv
<1>5. CASE /\ n \in LiveSlots(tabKeys) /\ n > i
           /\ \A s \in LiveSlots(tabKeys) : s <= i \/ n <= s
  <2> HIDE DEF n
  <2>1. n # NoItr /\ n \in 0..c - 1
    BY <1>1, <1>5 DEF NoItr
  <2>2. tabKeys[n] \notin seen
    BY <1>1, <1>5
  <2>3. \A s \in LiveSlots(tabKeys) : tabKeys[s] = tabKeys[n] => s = n
    BY <1>1, <1>5 DEF WellProbed, LiveSlots
  <2>4. \A s \in LiveSlots(tabKeys) : tabKeys[s] \in due =>
          (tabKeys[s] \in seen \union ({tabKeys[n]} \intersect due) <=> s <= n)
    <3> SUFFICES ASSUME NEW s \in LiveSlots(tabKeys), tabKeys[s] \in due
                 PROVE  tabKeys[s] \in seen \union ({tabKeys[n]} \intersect due) <=> s <= n
      OBVIOUS
    <3>1. tabKeys[s] \in seen <=> s <= i
      OBVIOUS
    <3>2. s \in Int /\ n \in Int /\ (s <= i \/ n <= s)
      BY <1>1, <1>5
    <3> QED BY <3>1, <3>2, <2>3, <1>1, <1>5
  <2>5. LiveSlots(tabKeys)' = LiveSlots(tabKeys)
    BY <1>3 DEF LiveSlots
  <2>6. tabSeen' = seen \union ({tabKeys[n]} \intersect due) /\ tabDue' = due /\ ~tabItrWrong'
    <3>1. tabItrWrong' = (tabKeys[n] \in seen)
      BY <2>1 DEF Visit, n
    <3> QED BY <1>3, <2>1, <2>2, <3>1
  <2>7. TabItrHolds'
    BY <1>1, <1>3, <2>1, <2>4, <2>5, <2>6 DEF TabItrHolds
  <2> QED BY <1>2, <1>3, <2>6, <2>7 DEF TabInv
<1>6. \/ n = NoItr /\ \A s \in LiveSlots(tabKeys) : s <= i
      \/ /\ n \in LiveSlots(tabKeys) /\ n > i
         /\ \A s \in LiveSlots(tabKeys) : s <= i \/ n <= s
  BY NextItrIs
<1> QED BY <1>4, <1>5, <1>6

\* Every operation of the table keeps the invariant.
LEMMA TabNextInv == TabInv /\ [TabNext]_tabVars => TabInv'
<1> SUFFICES ASSUME TabInv, [TabNext]_tabVars PROVE TabInv'
  OBVIOUS
<1>1. PICK c \in Nat : TabHolds(c)
  BY DEF TabInv
<1>2. ~tabFailed /\ ~tabItrWrong /\ TabItrHolds
  BY DEF TabInv
<1>3. \A k \in Keys : TabHas(k) <=> k \in DOMAIN tabMap
  BY <1>1, TabHasIsRight
<1>4. CASE UNCHANGED tabVars
  <2>1. TabHolds(c)'
    BY <1>1, <1>4 DEF TabHolds, tabVars, Tab
  <2>2. TabItrHolds'
    BY <1>2, <1>4 DEF TabItrHolds, tabVars, LiveSlots
  <2> QED BY <1>2, <1>4, <2>1, <2>2 DEF TabInv, tabVars
<1>5. ASSUME NEW k \in Keys, NEW v \in Values, TabInsert(k, v) PROVE TabInv'
  <2>1. CASE k \in DOMAIN tabMap
    BY <1>1, <1>2, <1>3, <1>5, <2>1, TabReplaceInv DEF TabInsert
  <2>2. CASE k \notin DOMAIN tabMap
    BY <1>1, <1>2, <1>3, <1>5, <2>2, TabAddInv DEF TabInsert
  <2> QED BY <2>1, <2>2
<1>6. ASSUME NEW k \in Keys, TabGetOrCreate(k) PROVE TabInv'
  <2>1. CASE k \in DOMAIN tabMap
    BY <1>3, <1>4, <1>6, <2>1 DEF TabGetOrCreate
  <2>2. CASE k \notin DOMAIN tabMap
    BY <1>1, <1>2, <1>3, <1>6, <2>2, TabAddInv, HashTableAssumption DEF TabGetOrCreate
  <2> QED BY <2>1, <2>2
<1>7. ASSUME NEW k \in Keys, TabRemove(k) \/ TabTake(k) PROVE TabInv'
  <2>1. CASE k \in DOMAIN tabMap
    <3>1. TabClear(Place(tabKeys, k))
      BY <1>3, <1>7, <2>1 DEF TabRemove, TabTake
    <3> QED BY <1>1, <1>2, <2>1, <3>1, TabClearInv
  <2>2. CASE k \notin DOMAIN tabMap
    BY <1>3, <1>4, <1>7, <2>2 DEF TabRemove, TabTake
  <2> QED BY <2>1, <2>2
<1>8. ASSUME NEW k1 \in Keys, NEW k2 \in Keys, TabGetOrCreateMultiple(<<k1, k2>>) PROVE TabInv'
  <2> DEFINE ks == <<k1, k2>>
  <2>1. ks \in Seq(Keys)
    OBVIOUS
  <2>2. TabGetOrCreateMultiple(ks)
    BY <1>8
  <2> HIDE DEF ks
  <2> QED BY <1>1, <1>2, <2>1, <2>2, TabCreateInv
<1>9. CASE TabDestroy
  BY <1>1, <1>2, <1>9, TabDestroyInv
<1>10. LiveSlots(tabKeys) \subseteq 0..c - 1 /\ DOMAIN tabKeys = 0..c - 1
  BY <1>1, TabIs DEF LiveSlots, Slots
<1>11. CASE TabItrBegin
  <2>1. /\ NoItr \in 0..c - 1 \union {NoItr}
        /\ \A s \in LiveSlots(tabKeys) : tabKeys[s] \in DOMAIN tabMap => (tabKeys[s] \in {} <=> s <= NoItr)
    BY <1>10 DEF NoItr
  <2>2. Visit(NextItr(NoItr), {}, DOMAIN tabMap)
    BY <1>11 DEF TabItrBegin
  <2>3. {} \subseteq DOMAIN tabMap /\ DOMAIN tabMap \subseteq DOMAIN tabMap
    OBVIOUS
  <2> QED BY <1>1, <1>2, <2>1, <2>2, <2>3, TabVisitInv
<1>12. CASE TabItrNext
  <2>1. tabItr # NoItr /\ Visit(NextItr(tabItr), tabSeen, tabDue)
    BY <1>12 DEF TabItrNext
  <2>2. tabItr \in 0..c - 1 \union {NoItr}
    BY <1>2, <1>10 DEF TabItrHolds
  <2>3. \A s \in LiveSlots(tabKeys) : tabKeys[s] \in tabDue => (tabKeys[s] \in tabSeen <=> s <= tabItr)
    BY <1>2, <2>1 DEF TabItrHolds
  <2>4. tabSeen \subseteq tabDue /\ tabDue \subseteq DOMAIN tabMap
    BY <1>2 DEF TabItrHolds
  <2> QED BY <1>1, <1>2, <2>1, <2>2, <2>3, <2>4, TabVisitInv
<1> QED BY <1>4, <1>5, <1>6, <1>7, <1>8, <1>9, <1>11, <1>12 DEF TabNext

\* The invariant implies TabAgrees and TabItrComplete.
LEMMA TabInvAgrees ==
  ASSUME TabInv
  PROVE  TabAgrees /\ TabItrComplete
<1>1. PICK c \in Nat : TabHolds(c)
  BY DEF TabInv
<1>2. /\ Tab.ok = TRUE /\ PairsHold(Tab, c, tabMap) /\ Tab.keys = tabKeys /\ Tab.vals = tabVals
      /\ tabKeys \in Slots(c) /\ (tabKeys # NoSlots <=> c # 0)
      /\ tabUsed = Cardinality(LiveSlots(tabKeys)) /\ DOMAIN tabMap = LiveKeys(tabKeys)
  BY <1>1, TabIs
<1>3. \A k \in Keys : TabGet(k) = IF k \in DOMAIN tabMap THEN tabMap[k] ELSE NoValue
  BY <1>1, TabHasIsRight
<1>4. \A i \in DOMAIN tabKeys : tabKeys[i] \in Keys <=> tabVals[i] # NoValue
  <2> SUFFICES ASSUME NEW i \in DOMAIN tabKeys PROVE tabKeys[i] \in Keys <=> tabVals[i] # NoValue
    OBVIOUS
  <2>1. i \in 0..c - 1
    BY <1>2 DEF Slots
  <2>2. tabVals[i] = IF tabKeys[i] \in Keys THEN tabMap[tabKeys[i]] ELSE NoValue
    BY <1>2, <2>1 DEF PairsHold
  <2>3. tabKeys[i] \in Keys => tabKeys[i] \in DOMAIN tabMap
    BY <1>2 DEF LiveKeys, LiveSlots
  <2>4. \A k \in DOMAIN tabMap : tabMap[k] # NoValue
    BY <1>2, HashTableAssumption DEF PairsHold
  <2> QED BY <2>2, <2>3, <2>4
<1>5. EnsureInvariants(tabKeys, tabUsed)
  BY <1>2 DEF Tab
<1>6. tabKeys # NoSlots => \A k \in Keys : HasPlace(tabKeys, k)
  BY <1>1, <1>2, TabHasIsRight
<1>7. ~tabFailed /\ ~tabItrWrong
  BY DEF TabInv
<1> QED BY <1>2, <1>3, <1>4, <1>5, <1>6, <1>7 DEF TabAgrees, TabItrComplete

\* TabAgrees: get_val answers every key with the value last stored for it, and the assertions
\* of hash.h about the table's state never fail.
THEOREM TableIsRight == Spec => []TabAgrees
<1>1. Init => TabInv
  BY TabInitInv DEF Init
<1>2. TabInv /\ [Next]_vars => TabInv'
  <2>1. [Next]_vars => [TabNext]_tabVars
    BY DEF Next, vars, tabVars, SetStep, TabStep, InternStep, DequeStep, BucketsStep, ArrayStep, SortStep
  <2> QED BY <2>1, TabNextInv
<1>3. TabInv => TabAgrees
  BY TabInvAgrees
<1> QED BY <1>1, <1>2, <1>3, PTL DEF Spec

\* TabItrComplete: an iteration that ends has visited, once, every key that was there all the
\* time.
THEOREM TableIterates == Spec => []TabItrComplete
<1>1. Init => TabInv
  BY TabInitInv DEF Init
<1>2. TabInv /\ [Next]_vars => TabInv'
  <2>1. [Next]_vars => [TabNext]_tabVars
    BY DEF Next, vars, tabVars, SetStep, TabStep, InternStep, DequeStep, BucketsStep, ArrayStep, SortStep
  <2> QED BY <2>1, TabNextInv
<1>3. TabInv => TabItrComplete
  BY TabInvAgrees
<1> QED BY <1>1, <1>2, <1>3, PTL DEF Spec

------------------------------------------------------------------------------
\* The texts in the slots: what a set of the texts would hold.
TextSlots(slots, texts) ==
  [s \in DOMAIN slots |-> IF slots[s] = EMPTY THEN EMPTY ELSE texts[slots[s]]]

AddressSlots(texts, c) == [0..c - 1 -> (1..Len(texts)) \union {EMPTY}]

\* An address slot and its text slot are empty together.
LEMMA TextSlotsIs ==
  ASSUME NEW texts \in Seq(Keys), NEW c \in Nat, NEW slots \in AddressSlots(texts, c)
  PROVE  /\ TextSlots(slots, texts) \in Slots(c)
         /\ DOMAIN slots = 0..c - 1 /\ Capacity(slots) = c /\ Capacity(TextSlots(slots, texts)) = c
         /\ \A s \in 0..c - 1 :
              /\ TextSlots(slots, texts)[s] = EMPTY <=> slots[s] = EMPTY
              /\ TextSlots(slots, texts)[s] # TOMBSTONE
              /\ slots[s] # EMPTY => /\ slots[s] \in 1..Len(texts)
                                     /\ TextSlots(slots, texts)[s] = texts[slots[s]]
                                     /\ texts[slots[s]] \in Keys
<1> DEFINE ts == TextSlots(slots, texts)
<1>1. DOMAIN slots = 0..c - 1 /\ DOMAIN ts = 0..c - 1
  BY DEF AddressSlots, TextSlots
<1>2. \A a \in 1..Len(texts) : texts[a] \in Keys
  OBVIOUS
<1>3. \A s \in 0..c - 1 : ts[s] = IF slots[s] = EMPTY THEN EMPTY ELSE texts[slots[s]]
  BY <1>1 DEF TextSlots
<1>4. \A s \in 0..c - 1 : slots[s] # EMPTY => slots[s] \in 1..Len(texts)
  BY DEF AddressSlots
<1>5. Capacity(slots) = c /\ Capacity(ts) = c
  BY <1>1, CapacityIs
<1>6. ts \in Slots(c)
  <2>1. \A s \in 0..c - 1 : ts[s] \in Slot
    BY <1>2, <1>3, <1>4 DEF Slot
  <2>2. ts = [s \in 0..c - 1 |-> ts[s]]
    BY <1>1 DEF TextSlots
  <2> HIDE DEF ts
  <2> QED BY <2>1, <2>2 DEF Slots
<1> HIDE DEF ts
<1>7. \A s \in 0..c - 1 :
              /\ ts[s] = EMPTY <=> slots[s] = EMPTY
              /\ ts[s] # TOMBSTONE
              /\ slots[s] # EMPTY => /\ slots[s] \in 1..Len(texts)
                                     /\ ts[s] = texts[slots[s]]
                                     /\ texts[slots[s]] \in Keys
  BY <1>2, <1>3, <1>4, ProbingAssumption
<1> QED BY <1>1, <1>5, <1>6, <1>7 DEF ts

\* A table without tombstones: the place of a key is the first slot that has it or is empty.
LEMMA PlaceWithoutTombstones ==
  ASSUME NEW c \in Nat \ {0}, NEW ts \in Slots(c), NEW k \in Keys,
         \A s \in 0..c - 1 : ts[s] # TOMBSTONE,
         NEW e \in 0..c - 1, ts[e] = EMPTY,
         NEW ends, ends = {i \in 0..c - 1 : ts[At(c, k, i)] \in {k, EMPTY}}
  PROVE  Place(ts, k) = At(c, k, Min(ends)) /\ Min(ends) \in ends
<1> DEFINE F(what) == Finds(ts, k, what)
           m == Min(ends)
<1>1. \A i \in 0..c - 1 : At(c, k, i) \in 0..c - 1
  BY ProbesVisitAll
<1>2. ends \subseteq Nat /\ ends # {}
  <2>1. PICK i \in 0..c - 1 : At(c, k, i) = e
    BY ProbesVisitAll
  <2> QED BY <2>1
<1>3. m \in ends /\ \A i \in ends : m <= i
  BY <1>2, LeastIsMin
<1> HIDE DEF m
<1>4. \A j \in 0..m - 1 : ts[At(c, k, j)] \notin {k, EMPTY}
  <2> SUFFICES ASSUME NEW j \in 0..m - 1, ts[At(c, k, j)] \in {k, EMPTY} PROVE FALSE
    OBVIOUS
  <2>1. j \in ends
    BY <1>3
  <2> QED BY <2>1, <1>2, <1>3
<1>5. \A what : F(what) = {i \in 0..c - 1 : Found(ts, c, k, what, i)}
  BY FindsIs
<1>6. ASSUME NEW what \in {k, EMPTY}, NEW i \in F(what) PROVE i = m
  <2>1. i \in 0..c - 1 /\ Found(ts, c, k, what, i)
    BY <1>5
  <2>2. i \in ends
    BY <2>1 DEF Found
  <2>3. m <= i /\ ~(m < i)
    BY <2>1, <2>2, <1>2, <1>3 DEF Found
  <2> QED BY <2>1, <2>3, <1>2, <1>3
<1>7. m \in F(k) \/ m \in F(EMPTY)
  BY <1>3, <1>4, <1>5 DEF Found
<1>8. F(TOMBSTONE) = {}
  BY <1>1, <1>5 DEF Found
<1>9. Place(ts, k) = At(c, k, IF F(k) # {} THEN Min(F(k))
                              ELSE IF F(TOMBSTONE) # {} THEN Min(F(TOMBSTONE))
                              ELSE IF F(EMPTY) # {} THEN Min(F(EMPTY)) ELSE 0)
  BY CapacityIs DEF Place, Slots
<1> HIDE DEF F
<1>10. \A what \in {k, EMPTY} : F(what) # {} => F(what) = {m}
  BY <1>6
<1>11. \A what \in {k, EMPTY} : F(what) # {} => Min(F(what)) = m
  <2>1. {m} # {} /\ {m} \subseteq Nat
    BY <1>2, <1>3
  <2>2. Min({m}) \in {m}
    BY <2>1, LeastIsMin
  <2> QED BY <2>2, <1>10
<1>12. Place(ts, k) = At(c, k, m)
  BY <1>7, <1>8, <1>9, <1>11
<1> QED BY <1>3, <1>12 DEF m

\* Table::find ends where the search of a set of texts does.
LEMMA FindTextIs ==
  ASSUME NEW c \in Nat \ {0}, internText \in Seq(Keys), NEW slots \in AddressSlots(internText, c),
         NEW text \in Keys, NEW e \in 0..c - 1, slots[e] = EMPTY
  PROVE  FindText(slots, text) = Place(TextSlots(slots, internText), text)
<1> DEFINE ts == TextSlots(slots, internText)
           ends == {i \in 0..c - 1 : ts[At(c, text, i)] \in {text, EMPTY}}
<1>1. /\ ts \in Slots(c) /\ DOMAIN slots = 0..c - 1 /\ Capacity(slots) = c
      /\ \A s \in 0..c - 1 :
            /\ ts[s] = EMPTY <=> slots[s] = EMPTY
            /\ ts[s] # TOMBSTONE
            /\ slots[s] # EMPTY => ts[s] = internText[slots[s]]
  BY TextSlotsIs
<1> HIDE DEF ts
<1>2. \A i : NthSlot(slots, text, i) = At(c, text, i)
  BY <1>1, CapacityIs
<1>3. \A i \in 0..c - 1 : At(c, text, i) \in 0..c - 1
  BY ProbesVisitAll
<1> DEFINE found == {i \in 0..Capacity(slots) - 1 :
                       \/ slots[NthSlot(slots, text, i)] = EMPTY
                       \/ internText[slots[NthSlot(slots, text, i)]] = text}
<1>4. FindText(slots, text) = NthSlot(slots, text, Min(found))
  BY DEF FindText
<1>5. found = ends
  BY <1>1, <1>2, <1>3
<1> HIDE DEF found, ends
<1>6. Place(ts, text) = At(c, text, Min(ends))
  <2>1. ts[e] = EMPTY
    BY <1>1
  <2>2. ends = {i \in 0..c - 1 : ts[At(c, text, i)] \in {text, EMPTY}}
    BY DEF ends
  <2> QED BY <1>1, <2>1, <2>2, PlaceWithoutTombstones
<1> QED BY <1>2, <1>4, <1>5, <1>6 DEF ts

\* Table::find_empty, for a text that is not there, ends at its place in a set of texts.
LEMMA FindEmptyIs ==
  ASSUME NEW c \in Nat \ {0}, NEW texts \in Seq(Keys), NEW slots \in AddressSlots(texts, c),
         NEW text \in Keys, NEW e \in 0..c - 1, slots[e] = EMPTY,
         text \notin LiveKeys(TextSlots(slots, texts))
  PROVE  FindEmpty(slots, text) = Place(TextSlots(slots, texts), text)
<1> DEFINE ts == TextSlots(slots, texts)
           ends == {i \in 0..c - 1 : ts[At(c, text, i)] \in {text, EMPTY}}
<1>1. /\ ts \in Slots(c) /\ DOMAIN slots = 0..c - 1 /\ Capacity(slots) = c
      /\ \A s \in 0..c - 1 :
            /\ ts[s] = EMPTY <=> slots[s] = EMPTY
            /\ ts[s] # TOMBSTONE
  BY TextSlotsIs
<1> HIDE DEF ts
<1>2. \A i : NthSlot(slots, text, i) = At(c, text, i)
  BY <1>1, CapacityIs
<1>3. \A i \in 0..c - 1 : At(c, text, i) \in 0..c - 1
  BY ProbesVisitAll
<1>7. \A s \in 0..c - 1 : ts[s] # text
  BY <1>1 DEF LiveKeys, LiveSlots, Slots, ts
<1> DEFINE found == {i \in 0..Capacity(slots) - 1 : slots[NthSlot(slots, text, i)] = EMPTY}
<1>4. FindEmpty(slots, text) = NthSlot(slots, text, Min(found))
  BY DEF FindEmpty
<1>5. found = ends
  BY <1>1, <1>2, <1>3, <1>7
<1> HIDE DEF found, ends
<1>6. Place(ts, text) = At(c, text, Min(ends))
  <2>1. ts[e] = EMPTY
    BY <1>1
  <2>2. ends = {i \in 0..c - 1 : ts[At(c, text, i)] \in {text, EMPTY}}
    BY DEF ends
  <2> QED BY <1>1, <2>1, <2>2, PlaceWithoutTombstones
<1> QED BY <1>2, <1>4, <1>5, <1>6 DEF ts

\* One address put into the first empty slot on the way of its text.
Rehoused(x, texts, a) == [x EXCEPT ![FindEmpty(x, texts[a])] = a]

\* The loop of Table::try_resize.
LEMMA InternMovedSteps ==
  ASSUME NEW texts \in Seq(Keys), NEW c0 \in Nat, NEW slots \in AddressSlots(texts, c0), NEW c \in Nat
  PROVE  /\ InternMoved(slots, texts, c)[0] = FreshSlots(c)
         /\ \A n \in 0..c0 - 1 :
              InternMoved(slots, texts, c)[n + 1] =
                IF slots[n] # EMPTY THEN Rehoused(InternMoved(slots, texts, c)[n], texts, slots[n])
                ELSE InternMoved(slots, texts, c)[n]
<1> DEFINE S == AddressSlots(texts, c)
           step(n, x) == IF slots[n] # EMPTY THEN Rehoused(x, texts, slots[n]) ELSE x
           G == [n \in Nat |-> [x \in S |-> IF n \in 0..c0 - 1 THEN step(n, x) ELSE x]]
           F(f) == [n \in 0..c0 |-> IF n = 0 THEN FreshSlots(c) ELSE step(n - 1, f[n - 1])]
           M == InternMoved(slots, texts, c)
<1>1. FreshSlots(c) \in S
  BY DEF FreshSlots, AddressSlots
<1>2. \A n \in 0..c0 - 1 : \A x \in S : step(n, x) \in S
  <2>1. \A n \in 0..c0 - 1 : slots[n] # EMPTY => slots[n] \in 1..Len(texts)
    BY DEF AddressSlots
  <2> QED BY <2>1 DEF AddressSlots, Rehoused
<1>7. M = CHOOSE f : f = F(f)
  <2>1. Capacity(slots) = c0
    BY TextSlotsIs
  <2> QED BY <2>1 DEF InternMoved, Rehoused
<1> HIDE DEF S, step
<1>3. G \in [Nat -> [S -> S]]
  BY <1>2
<1>4. PICK h : IsIteration(h, FreshSlots(c), G, S)
  <2> HIDE DEF G
  <2> QED BY <1>1, <1>3, Iterates
<1>5. /\ h[0] = FreshSlots(c)
      /\ \A n \in 0..c0 - 1 : h[n + 1] = step(n, h[n])
  <2>1. h \in [Nat -> S] /\ h[0] = FreshSlots(c) /\ \A n \in Nat : h[n + 1] = G[n][h[n]]
    BY <1>4 DEF IsIteration
  <2>2. \A n \in 0..c0 - 1 : n \in Nat /\ h[n] \in S
    BY <2>1
  <2>3. \A n \in 0..c0 - 1 : \A x \in S : G[n][x] = step(n, x)
    OBVIOUS
  <2> HIDE DEF G
  <2> QED BY <2>1, <2>2, <2>3
<1> DEFINE g == [n \in 0..c0 |-> h[n]]
<1>6. g = F(g)
  <2>1. \A n \in 0..c0 : g[n] = F(g)[n]
    <3> SUFFICES ASSUME NEW n \in 0..c0 PROVE g[n] = F(g)[n]
      OBVIOUS
    <3>1. CASE n = 0
      BY <3>1, <1>5
    <3>2. CASE n # 0
      <4>1. n - 1 \in 0..c0 - 1 /\ n - 1 \in 0..c0 /\ (n - 1) + 1 = n
        BY <3>2
      <4>2. h[(n - 1) + 1] = step(n - 1, h[n - 1])
        BY <4>1, <1>5
      <4> QED BY <3>2, <4>1, <4>2
    <3> QED BY <3>1, <3>2
  <2> QED BY <2>1
<1>8. M = F(M)
  <2> HIDE DEF F, M
  <2> QED BY <1>6, <1>7
<1> HIDE DEF M
<1>9. M[0] = FreshSlots(c)
  BY <1>8
<1>10. ASSUME NEW n \in 0..c0 - 1 PROVE M[n + 1] = step(n, M[n])
  <2>1. n + 1 \in 0..c0 /\ n + 1 # 0 /\ (n + 1) - 1 = n
    OBVIOUS
  <2>2. F(M)[n + 1] = step(n, M[n])
    BY <2>1
  <2> QED BY <2>2, <1>8
<1> QED BY <1>9, <1>10 DEF M, step

\* Seen as the texts they stand for, the addresses move as the keys of a set do.
LEMMA AddressPut ==
  ASSUME NEW c \in Nat \ {0}, NEW texts \in Seq(Keys), NEW x \in AddressSlots(texts, c),
         NEW a \in 1..Len(texts), texts[a] \notin LiveKeys(TextSlots(x, texts)),
         WellProbed(TextSlots(x, texts), c), Cardinality(LiveSlots(TextSlots(x, texts))) < c
  PROVE  /\ Rehoused(x, texts, a) \in AddressSlots(texts, c)
         /\ TextSlots(Rehoused(x, texts, a), texts) = Put(TextSlots(x, texts), texts[a])
<1> DEFINE ts == TextSlots(x, texts)
           k == texts[a]
           p == Place(ts, k)
           y == Rehoused(x, texts, a)
<1>1. k \in Keys
  OBVIOUS
<1>2. /\ ts \in Slots(c) /\ DOMAIN x = 0..c - 1 /\ Capacity(x) = c
      /\ \A s \in 0..c - 1 : ts[s] = EMPTY <=> x[s] = EMPTY
      /\ \A s \in 0..c - 1 : ts[s] # TOMBSTONE
  BY TextSlotsIs
<1>3. LiveSlots(ts) # 0..c - 1
  BY FS_Interval
<1>4. p \in 0..c - 1
  <2> HIDE DEF ts, k
  <2>1. WellProbed(ts, c) /\ k \notin LiveKeys(ts)
    BY DEF ts, k
  <2> QED BY <1>1, <1>3, <2>1, PutIsRight
<1>5. PICK e \in 0..c - 1 : x[e] = EMPTY
  <2>1. \E e \in 0..c - 1 : ts[e] \notin Keys
    BY <1>2, <1>3, LiveSlotsFinite
  <2> QED BY <2>1, <1>2 DEF Slots, Slot
<1>6. FindEmpty(x, k) = p
  <2> HIDE DEF k
  <2>1. k \notin LiveKeys(TextSlots(x, texts))
    BY DEF k
  <2> QED BY <1>1, <1>5, <2>1, FindEmptyIs
<1>7. y = [x EXCEPT ![p] = a]
  BY <1>6 DEF Rehoused
<1> HIDE DEF p, k, ts
<1>8. y \in AddressSlots(texts, c)
  BY <1>4, <1>7 DEF AddressSlots
<1>9. TextSlots(y, texts) = [ts EXCEPT ![p] = k]
  <2>1. a # EMPTY
    BY InternerAssumption
  <2>2. DOMAIN y = 0..c - 1 /\ \A s \in 0..c - 1 : y[s] = IF s = p THEN a ELSE x[s]
    BY <1>2, <1>4, <1>7
  <2>3. DOMAIN ts = 0..c - 1
    BY <1>2 DEF Slots
  <2>4. \A s \in 0..c - 1 : ts[s] = IF x[s] = EMPTY THEN EMPTY ELSE texts[x[s]]
    BY <1>2 DEF ts, TextSlots
  <2> HIDE DEF y
  <2>5. TextSlots(y, texts) = [s \in 0..c - 1 |-> IF s = p THEN k ELSE ts[s]]
    BY <2>1, <2>2, <2>4 DEF TextSlots, k
  <2>6. ts = [s \in 0..c - 1 |-> ts[s]]
    BY <1>2 DEF Slots
  <2>7. [ts EXCEPT ![p] = k] = [s \in 0..c - 1 |-> IF s = p THEN k ELSE ts[s]]
    BY <1>4, <2>3
  <2> QED BY <2>5, <2>7
<1> QED BY <1>8, <1>9 DEF Put, p, k, ts

\* The addresses move as the keys of a set of their texts do.
LEMMA InternMovedIsMoved ==
  ASSUME NEW texts \in Seq(Keys), NEW c0 \in Nat, NEW slots \in AddressSlots(texts, c0),
         WellProbed(TextSlots(slots, texts), c0), NEW c \in Nat \ {0}, c0 <= c
  PROVE  /\ InternMoved(slots, texts, c)[c0] \in AddressSlots(texts, c)
         /\ TextSlots(InternMoved(slots, texts, c)[c0], texts) = Moved(TextSlots(slots, texts), c)[c0]
<1> DEFINE ts == TextSlots(slots, texts)
           N == InternMoved(slots, texts, c)
           M == Moved(ts, c)
           Right(n) == N[n] \in AddressSlots(texts, c) /\ TextSlots(N[n], texts) = M[n]
           T == {n \in Nat : n <= c0 => Right(n)}
<1>1. /\ ts \in Slots(c0)
      /\ \A s \in 0..c0 - 1 :
            /\ ts[s] = EMPTY <=> slots[s] = EMPTY
            /\ ts[s] # TOMBSTONE
            /\ slots[s] # EMPTY => slots[s] \in 1..Len(texts) /\ ts[s] = texts[slots[s]] /\ ts[s] \in Keys
  BY TextSlotsIs
<1>2. WellProbed(ts, c0)
  OBVIOUS
<1> HIDE DEF ts
<1>3. /\ M[0] = FreshSlots(c)
      /\ \A n \in 0..c0 - 1 : M[n + 1] = IF ts[n] \in Keys THEN Put(M[n], ts[n]) ELSE M[n]
  BY <1>1, MovedSteps
<1>4. \A n \in 0..c0 : MovedPart(ts, M[n], c, n)
  BY <1>2, MovedPrefix
<1>5. /\ N[0] = FreshSlots(c)
      /\ \A n \in 0..c0 - 1 : N[n + 1] = IF slots[n] # EMPTY THEN Rehoused(N[n], texts, slots[n]) ELSE N[n]
  BY InternMovedSteps
<1> HIDE DEF M, N
<1>6. 0 \in T
  <2>1. FreshSlots(c) \in AddressSlots(texts, c)
    BY DEF FreshSlots, AddressSlots
  <2>2. TextSlots(FreshSlots(c), texts) = FreshSlots(c)
    BY DEF FreshSlots, TextSlots
  <2> QED BY <2>1, <2>2, <1>3, <1>5
<1>7. ASSUME NEW n \in Nat, n \in T, n + 1 <= c0 PROVE Right(n + 1)
  <2>1. n \in 0..c0 - 1 /\ n \in 0..c0 /\ Right(n)
    BY <1>7
  <2>2. CASE slots[n] = EMPTY
    <3>1. ts[n] \notin Keys
      BY <1>1, <2>1, <2>2, ProbingAssumption
    <3>2. N[n + 1] = N[n] /\ M[n + 1] = M[n]
      BY <1>3, <1>5, <2>1, <2>2, <3>1
    <3> QED BY <2>1, <3>2
  <2>3. CASE slots[n] # EMPTY
    <3> DEFINE a == slots[n]
               x == N[n]
    <3>1. a \in 1..Len(texts) /\ ts[n] = texts[a] /\ ts[n] \in Keys
      BY <1>1, <2>1, <2>3
    <3>2. N[n + 1] = Rehoused(x, texts, a) /\ M[n + 1] = Put(M[n], texts[a])
      BY <1>3, <1>5, <2>1, <2>3, <3>1
    <3>3. x \in AddressSlots(texts, c) /\ TextSlots(x, texts) = M[n]
      BY <2>1
    <3>4. MovedPart(ts, M[n], c, n)
      BY <1>4, <2>1
    <3> HIDE DEF a, x
    <3>5. WellProbed(TextSlots(x, texts), c)
      BY <3>3, <3>4 DEF MovedPart
    <3>6. Cardinality(LiveSlots(TextSlots(x, texts))) < c
      <4>1. Cardinality(LiveSlots(TextSlots(x, texts))) \in Nat
        BY <3>5, LiveSlotsFinite DEF WellProbed
      <4>2. Cardinality(LiveSlots(TextSlots(x, texts))) <= n
        BY <3>3, <3>4 DEF MovedPart
      <4> QED BY <4>1, <4>2, <2>1
    <3>7. texts[a] \notin LiveKeys(TextSlots(x, texts))
      <4>1. LiveKeys(TextSlots(x, texts)) = {ts[i] : i \in LiveUpTo(ts, n)}
        BY <3>3, <3>4 DEF MovedPart
      <4>2. \A i \in LiveUpTo(ts, n) : i \in 0..c0 - 1 /\ i # n
        BY <2>1 DEF LiveUpTo
      <4>3. \A i \in LiveUpTo(ts, n) : ts[i] # ts[n]
        BY <4>2, <2>1, <3>1, <1>2 DEF WellProbed
      <4> QED BY <4>1, <4>3, <3>1
    <3>8. /\ Rehoused(x, texts, a) \in AddressSlots(texts, c)
          /\ TextSlots(Rehoused(x, texts, a), texts) = Put(TextSlots(x, texts), texts[a])
      BY <3>1, <3>3, <3>5, <3>6, <3>7, AddressPut
    <3> QED BY <3>2, <3>3, <3>8
  <2> QED BY <2>2, <2>3
<1> HIDE DEF Right
<1>8. \A n \in Nat : n \in T => n + 1 \in T
  BY <1>7
<1>9. Nat \subseteq T
  <2> HIDE DEF T
  <2> QED BY <1>6, <1>8, SetInduction
<1>10. Right(c0)
  BY <1>9
<1> QED BY <1>10 DEF Right, M, N, ts

\* Table::try_resize does to the texts what try_extend does to the keys of a set.
LEMMA ResizedIsRehashed ==
  ASSUME NEW texts \in Seq(Keys), NEW c, IsCapacity(c), NEW slots \in AddressSlots(texts, c),
         WellProbed(TextSlots(slots, texts), c), NEW full \in Nat
  PROVE  /\ TextSlots(Resized(slots, full, texts), texts) = Rehashed(TextSlots(slots, texts), full, 0)
         /\ \E d \in Nat : Resized(slots, full, texts) \in AddressSlots(texts, d)
<1> DEFINE d == Extended(c, full, 0)
<1>1. c \in Nat \ {0} /\ c >= 2
  BY CapacityType
<1>2. Capacity(slots) = c /\ Capacity(TextSlots(slots, texts)) = c
  BY <1>1, TextSlotsIs
<1>3. CASE NeedsResize(c, full, 0)
  <2>1. Resized(slots, full, texts) = InternMoved(slots, texts, d)[c]
    BY <1>2, <1>3 DEF Resized
  <2>2. Rehashed(TextSlots(slots, texts), full, 0) = Moved(TextSlots(slots, texts), d)[c]
    BY <1>2, <1>3 DEF Rehashed
  <2>3. d \in Nat \ {0} /\ c <= d
    <3>1. 0 \in Nat
      OBVIOUS
    <3>2. d \in Nat /\ d >= c
      BY <1>1, <3>1, ExtendedLeavesRoom
    <3> QED BY <3>2, <1>1
  <2> HIDE DEF d
  <2>4. /\ InternMoved(slots, texts, d)[c] \in AddressSlots(texts, d)
        /\ TextSlots(InternMoved(slots, texts, d)[c], texts) = Moved(TextSlots(slots, texts), d)[c]
    BY <1>1, <2>3, InternMovedIsMoved
  <2> QED BY <2>1, <2>2, <2>3, <2>4
<1>4. CASE ~NeedsResize(c, full, 0)
  BY <1>1, <1>2, <1>4 DEF Resized, Rehashed
<1> QED BY <1>3, <1>4

\* The table holds the address of every text, in one slot where a search for it arrives.
Texts(texts) == {texts[a] : a \in 1..Len(texts)}

Houses(slots, texts, c) ==
  /\ IsCapacity(c) /\ texts \in Seq(Keys) /\ slots \in AddressSlots(texts, c)
  /\ WellProbed(TextSlots(slots, texts), c)
  /\ LiveKeys(TextSlots(slots, texts)) = Texts(texts)
  /\ Cardinality(LiveSlots(TextSlots(slots, texts))) = Len(texts) /\ Len(texts) < c
  /\ \A a, b \in 1..Len(texts) : texts[a] = texts[b] => a = b

InternInv ==
  /\ \E c : Houses(internSlots, internText, c)
  /\ internFull = Len(internText)
  /\ DOMAIN internGiven \ {EmptyText} = Texts(internText)
  /\ \A a \in 1..Len(internText) : internGiven[internText[a]] = a
  /\ EmptyText \in DOMAIN internGiven => internGiven[EmptyText] = EmptyAddress

\* The interner is right at the start.
LEMMA InternInitInv == InternInit => InternInv
<1> SUFFICES ASSUME InternInit PROVE InternInv
  OBVIOUS
<1> DEFINE c == FirstCapacity
<1>1. /\ internSlots = FreshSlots(c) /\ internFull = 0 /\ internText = <<>>
      /\ DOMAIN internGiven = {}
  BY DEF InternInit
<1>2. IsCapacity(c) /\ c \in Nat \ {0}
  BY FirstIsCapacity, CapacityType
<1> HIDE DEF c
<1>3. TextSlots(FreshSlots(c), <<>>) = FreshSlots(c)
  BY DEF TextSlots, FreshSlots
<1>4. FreshSlots(c) \in AddressSlots(<<>>, c)
  BY DEF FreshSlots, AddressSlots
<1>5. /\ WellProbed(FreshSlots(c), c) /\ LiveSlots(FreshSlots(c)) = {} /\ LiveKeys(FreshSlots(c)) = {}
  BY <1>2, FreshIsRight
<1>6. <<>> \in Seq(Keys) /\ Len(<<>>) = 0 /\ Texts(<<>>) = {} /\ 0 < c
  BY <1>2 DEF Texts
<1>7. Houses(internSlots, internText, c)
  <2>1. 1..Len(<<>>) = {}
    BY <1>6
  <2>2. Houses(FreshSlots(c), <<>>, c)
    BY <1>2, <1>3, <1>4, <1>5, <1>6, <2>1, FS_EmptySet DEF Houses
  <2> QED BY <1>1, <2>2
<1> QED BY <1>1, <1>6, <1>7 DEF InternInv

\* Table::find ends at the string or at an empty slot, where it may be put.
LEMMA FindIs ==
  ASSUME NEW c, Houses(internSlots, internText, c), NEW text \in Keys
  PROVE  LET p == FindText(internSlots, text)
         IN  /\ p = Place(TextSlots(internSlots, internText), text) /\ p \in 0..c - 1
             /\ text \in Texts(internText) =>
                  internSlots[p] \in 1..Len(internText) /\ internText[internSlots[p]] = text
             /\ text \notin Texts(internText) => internSlots[p] = EMPTY
<1> DEFINE ts == TextSlots(internSlots, internText)
           p == Place(ts, text)
<1>1. /\ internText \in Seq(Keys) /\ internSlots \in AddressSlots(internText, c) /\ c \in Nat \ {0}
      /\ WellProbed(ts, c) /\ LiveKeys(ts) = Texts(internText) /\ Len(internText) < c
      /\ Cardinality(LiveSlots(ts)) = Len(internText)
  BY CapacityType DEF Houses
<1>2. /\ ts \in Slots(c)
      /\ \A s \in 0..c - 1 :
            /\ ts[s] = EMPTY <=> internSlots[s] = EMPTY
            /\ ts[s] # TOMBSTONE
            /\ internSlots[s] # EMPTY =>
                  internSlots[s] \in 1..Len(internText) /\ ts[s] = internText[internSlots[s]]
  BY <1>1, TextSlotsIs
<1> HIDE DEF ts
<1>3. LiveSlots(ts) # 0..c - 1
  BY <1>1, FS_Interval
<1>4. PICK e \in 0..c - 1 : internSlots[e] = EMPTY
  <2>0. LiveSlots(ts) = {i \in 0..c - 1 : ts[i] \in Keys}
    BY <1>1, <1>2, LiveSlotsFinite
  <2>1. \E e \in 0..c - 1 : ts[e] \notin Keys
    BY <1>3, <2>0
  <2> QED BY <2>1, <1>2 DEF Slots, Slot
<1>5. FindText(internSlots, text) = p
  BY <1>1, <1>4, FindTextIs DEF ts
<1>6. CASE text \in Texts(internText)
  <2>1. p \in 0..c - 1 /\ ts[p] = text
    BY <1>1, <1>6, PlaceOfMember
  <2> HIDE DEF p
  <2> QED BY <2>1, <1>2, <1>5, <1>6, ProbingAssumption DEF ts, p
<1>7. CASE text \notin Texts(internText)
  <2>1. p \in 0..c - 1 /\ ts[p] \in {EMPTY, TOMBSTONE}
    BY <1>1, <1>3, <1>7, PutIsRight
  <2> HIDE DEF p
  <2> QED BY <2>1, <1>2, <1>5, <1>7 DEF ts, p
<1> QED BY <1>6, <1>7

\* intern of a new text keeps the invariant.
LEMMA InternNewInv ==
  ASSUME InternInv, NEW text \in Keys, text \notin Texts(internText), Intern(text)
  PROVE  InternInv'
<1>1. PICK c : Houses(internSlots, internText, c)
  BY DEF InternInv
<1> DEFINE a == Len(internText) + 1
           p == FindText(internSlots, text)
           texts == Append(internText, text)
           ts == TextSlots(internSlots, internText)
           put == [internSlots EXCEPT ![p] = a]
<1>2. p = Place(ts, text) /\ p \in 0..c - 1 /\ internSlots[p] = EMPTY
  BY <1>1, FindIs
<1>3. /\ internText' = texts /\ internFull' = internFull + 1 /\ internFull = Len(internText)
      /\ internSlots' = Resized(put, internFull + 1, texts)
      /\ Gives(text, a)
  <2>1. text # EmptyText
    BY InternerAssumption
  <2>2. Find(text) = EMPTY
    BY <1>2, <2>1 DEF Find
  <2> QED BY <2>2 DEF Intern, InternInv
<1>4. /\ internText \in Seq(Keys) /\ internSlots \in AddressSlots(internText, c)
      /\ IsCapacity(c) /\ c \in Nat \ {0} /\ WellProbed(ts, c) /\ LiveKeys(ts) = Texts(internText)
      /\ Cardinality(LiveSlots(ts)) = Len(internText) /\ Len(internText) < c /\ Len(internText) \in Nat
      /\ \A i, j \in 1..Len(internText) : internText[i] = internText[j] => i = j
  <2>1. IsCapacity(c) /\ internText \in Seq(Keys)
    BY <1>1 DEF Houses
  <2>2. c \in Nat \ {0} /\ Len(internText) \in Nat
    BY <2>1, CapacityType
  <2> QED BY <1>1, <2>1, <2>2 DEF Houses
<1>5. /\ texts \in Seq(Keys) /\ Len(texts) = a /\ texts[a] = text
      /\ \A i \in 1..Len(internText) : texts[i] = internText[i]
  BY <1>4, AppendProperties
<1>6. internSlots \in AddressSlots(texts, c)
  BY <1>4, <1>5 DEF AddressSlots
<1>7. TextSlots(internSlots, texts) = ts
  <2>1. \A s \in 0..c - 1 : internSlots[s] # EMPTY => internSlots[s] \in 1..Len(internText)
    BY <1>4 DEF AddressSlots
  <2>2. DOMAIN internSlots = 0..c - 1
    BY <1>4 DEF AddressSlots
  <2> HIDE DEF texts
  <2> QED BY <2>1, <2>2, <1>5 DEF TextSlots
<1>8. /\ put \in AddressSlots(texts, c)
      /\ TextSlots(put, texts) = Put(ts, text)
  <2>1. FindEmpty(internSlots, text) = p
    <3>1. text \notin LiveKeys(TextSlots(internSlots, texts))
      BY <1>4, <1>7
    <3> HIDE DEF texts, p
    <3>2. FindEmpty(internSlots, text) = Place(TextSlots(internSlots, texts), text)
      BY <1>2, <1>4, <1>5, <1>6, <3>1, FindEmptyIs
    <3> QED BY <3>2, <1>2, <1>7
  <2>2. put = Rehoused(internSlots, texts, a)
    BY <2>1, <1>5 DEF Rehoused
  <2> HIDE DEF put, texts, a, p
  <2>3. a \in 1..Len(texts)
    BY <1>4, <1>5 DEF a
  <2>4. texts[a] \notin LiveKeys(TextSlots(internSlots, texts))
    BY <1>4, <1>5, <1>7
  <2>5. WellProbed(TextSlots(internSlots, texts), c)
        /\ Cardinality(LiveSlots(TextSlots(internSlots, texts))) < c
    BY <1>4, <1>7
  <2>6. /\ Rehoused(internSlots, texts, a) \in AddressSlots(texts, c)
        /\ TextSlots(Rehoused(internSlots, texts, a), texts) = Put(TextSlots(internSlots, texts), texts[a])
    BY <1>4, <1>5, <1>6, <2>3, <2>4, <2>5, AddressPut
  <2> QED BY <2>2, <2>6, <1>5, <1>7
<1>9. /\ WellProbed(Put(ts, text), c) /\ LiveKeys(Put(ts, text)) = LiveKeys(ts) \union {text}
      /\ Cardinality(LiveSlots(Put(ts, text))) = a
  <2>1. LiveSlots(ts) # 0..c - 1
    BY <1>4, FS_Interval
  <2> HIDE DEF ts
  <2>2. /\ WellProbed(Put(ts, text), c) /\ LiveKeys(Put(ts, text)) = LiveKeys(ts) \union {text}
        /\ LiveSlots(Put(ts, text)) = LiveSlots(ts) \union {Place(ts, text)}
        /\ Place(ts, text) \notin LiveSlots(ts)
    BY <1>4, <2>1, PutIsRight
  <2>3. IsFiniteSet(LiveSlots(ts))
    BY <1>4, LiveSlotsFinite DEF WellProbed
  <2> QED BY <2>2, <2>3, <1>4, FS_AddElement
<1> HIDE DEF put, ts, p
<1>10. a \in Nat /\ internFull + 1 = a
  BY <1>3, <1>4
<1>11. Texts(texts) = Texts(internText) \union {text}
  <2>1. 1..Len(texts) = 1..Len(internText) \union {a}
    BY <1>4, <1>5
  <2> HIDE DEF texts, a
  <2> QED BY <2>1, <1>5 DEF Texts
<1>12. \A i, j \in 1..Len(texts) : texts[i] = texts[j] => i = j
  <2>1. \A i \in 1..Len(texts) : i = a \/ i \in 1..Len(internText)
    BY <1>4, <1>5
  <2>2. \A i \in 1..Len(internText) : internText[i] # text
    BY DEF Texts
  <2> HIDE DEF texts, a
  <2> QED BY <2>1, <2>2, <1>4, <1>5
<1> HIDE DEF texts, a
<1> DEFINE pt == Put(ts, text)
           re == Rehashed(pt, a, 0)
<1>13. TextSlots(put, texts) = pt
  BY <1>8
<1>14. PICK d : /\ IsCapacity(d) /\ a < d /\ Capacity(re) = d
               /\ WellProbed(re, d) /\ LiveKeys(re) = LiveKeys(pt)
               /\ Cardinality(LiveSlots(re)) = a
  <2>1. WellProbed(pt, c) /\ a = Cardinality(LiveSlots(pt)) /\ 0 \in Nat
    BY <1>9
  <2> HIDE DEF pt, re
  <2> QED BY <1>4, <2>1, RehashedIsRight DEF re
<1>15. TextSlots(internSlots', texts) = re /\ \E e \in Nat : internSlots' \in AddressSlots(texts, e)
  <2>1. internSlots' = Resized(put, a, texts)
    BY <1>3, <1>10
  <2>2. WellProbed(TextSlots(put, texts), c)
    BY <1>9, <1>13
  <2> HIDE DEF pt, re
  <2>3. /\ TextSlots(Resized(put, a, texts), texts) = Rehashed(TextSlots(put, texts), a, 0)
        /\ \E e \in Nat : Resized(put, a, texts) \in AddressSlots(texts, e)
    BY <1>4, <1>5, <1>8, <1>10, <2>2, ResizedIsRehashed
  <2> QED BY <2>1, <2>3, <1>13 DEF re
<1> HIDE DEF pt, re
<1>16. internSlots' \in AddressSlots(texts, d)
  <2>1. PICK e \in Nat : internSlots' \in AddressSlots(texts, e)
    BY <1>15
  <2>2. Capacity(re) = e
    BY <1>5, <1>15, <2>1, TextSlotsIs
  <2> QED BY <2>1, <2>2, <1>14
<1>17. Houses(internSlots', texts, d)
  BY <1>5, <1>9, <1>11, <1>12, <1>14, <1>15, <1>16, <1>4 DEF Houses, pt
<1>18. \E e : Houses(internSlots, internText, e)'
  BY <1>3, <1>17
<1>19. text \notin DOMAIN internGiven /\ text # EmptyText
  BY InternerAssumption DEF InternInv
<1>20. /\ DOMAIN internGiven' = DOMAIN internGiven \union {text} /\ internGiven'[text] = a
       /\ \A t \in DOMAIN internGiven : internGiven'[t] = internGiven[t]
  BY <1>3, <1>19 DEF Gives
<1>21. DOMAIN internGiven' \ {EmptyText} = Texts(texts)
  BY <1>11, <1>19, <1>20 DEF InternInv
<1>22. EmptyText \in DOMAIN internGiven' => internGiven'[EmptyText] = EmptyAddress
  BY <1>19, <1>20 DEF InternInv
<1>23. ASSUME NEW i \in 1..Len(texts) PROVE internGiven'[texts[i]] = i
  <2>1. CASE i = a
    BY <2>1, <1>5, <1>20
  <2>2. CASE i # a
    <3>1. i \in 1..Len(internText)
      BY <2>2, <1>4, <1>5 DEF a
    <3>2. texts[i] = internText[i] /\ internText[i] \in DOMAIN internGiven
      BY <3>1, <1>5 DEF InternInv, Texts
    <3>3. internGiven[internText[i]] = i
      BY <3>1 DEF InternInv
    <3> QED BY <3>2, <3>3, <1>20
  <2> QED BY <2>1, <2>2
<1>24. internFull' = Len(texts)
  BY <1>3, <1>5, <1>10
<1> QED BY <1>3, <1>18, <1>21, <1>22, <1>23, <1>24 DEF InternInv

\* Every operation of the interner keeps the invariant.
LEMMA InternNextInv == InternInv /\ [InternNext]_internVars => InternInv'
<1> SUFFICES ASSUME InternInv, [InternNext]_internVars PROVE InternInv'
  OBVIOUS
<1>1. PICK c : Houses(internSlots, internText, c)
  BY DEF InternInv
<1>2. ASSUME UNCHANGED <<internSlots, internFull, internText>>,
             NEW text, Gives(text, Find(text)),
             text \in DOMAIN internGiven \/ (text = EmptyText /\ Find(text) = EmptyAddress)
      PROVE  InternInv'
  <2>1. \E e : Houses(internSlots, internText, e)'
    BY <1>1, <1>2
  <2>2. CASE text \in DOMAIN internGiven
    <3>1. DOMAIN internGiven' = DOMAIN internGiven /\ \A t \in DOMAIN internGiven : internGiven'[t] = internGiven[t]
      BY <1>2, <2>2 DEF Gives
    <3>2. \A a \in 1..Len(internText) : internText[a] \in DOMAIN internGiven
      BY DEF InternInv, Texts
    <3> QED BY <1>2, <2>1, <3>1, <3>2 DEF InternInv
  <2>3. CASE text \notin DOMAIN internGiven
    <3>1. text = EmptyText /\ Find(text) = EmptyAddress
      BY <1>2, <2>3
    <3>2. /\ DOMAIN internGiven' = DOMAIN internGiven \union {EmptyText} /\ internGiven'[EmptyText] = EmptyAddress
          /\ \A t \in DOMAIN internGiven : internGiven'[t] = internGiven[t]
      BY <1>2, <2>3, <3>1 DEF Gives
    <3>3. \A a \in 1..Len(internText) : internText[a] \in DOMAIN internGiven
      BY DEF InternInv, Texts
    <3> QED BY <1>2, <2>1, <3>2, <3>3 DEF InternInv
  <2> QED BY <2>2, <2>3
<1>3. ASSUME NEW text \in Keys \union {EmptyText}, Intern(text) PROVE InternInv'
  <2>1. CASE text = EmptyText
    <3>1. Find(text) = EmptyAddress /\ Find(text) # EMPTY
      BY <2>1, InternerAssumption DEF Find, EmptyAddress
    <3>2. Gives(text, Find(text)) /\ UNCHANGED <<internSlots, internFull, internText>>
      BY <1>3, <3>1 DEF Intern
    <3> QED BY <1>2, <2>1, <3>1, <3>2
  <2>2. CASE text \in Keys /\ text \in Texts(internText)
    <3>1. text # EmptyText
      BY <2>2, InternerAssumption
    <3>2. Find(text) \in 1..Len(internText)
      BY <1>1, <2>2, <3>1, FindIs DEF Find
    <3>3. Find(text) # EMPTY
      BY <3>2, InternerAssumption
    <3>4. Gives(text, Find(text)) /\ UNCHANGED <<internSlots, internFull, internText>>
      BY <1>3, <3>3 DEF Intern
    <3>5. text \in DOMAIN internGiven
      BY <2>2 DEF InternInv
    <3> QED BY <1>2, <3>4, <3>5
  <2>3. CASE text \in Keys /\ text \notin Texts(internText)
    BY <1>3, <2>3, InternNewInv
  <2> QED BY <2>1, <2>2, <2>3
<1>4. CASE UNCHANGED internVars
  BY <1>4 DEF InternInv, internVars
<1> QED BY <1>3, <1>4 DEF InternNext

\* The invariant implies InternedOnce.
LEMMA InternInvOnce ==
  ASSUME InternInv
  PROVE  InternedOnce
<1>1. PICK c : Houses(internSlots, internText, c)
  BY DEF InternInv
<1>2. ASSUME NEW text \in Keys
      PROVE  /\ text \in DOMAIN internGiven <=> text \in Texts(internText)
             /\ text \notin Texts(internText) => Find(text) = EMPTY
             /\ text \in Texts(internText) =>
                  /\ Find(text) \in 1..Len(internText) /\ internText[Find(text)] = text
                  /\ Find(text) = internGiven[text]
  <2>1. text # EmptyText
    BY InternerAssumption
  <2>2. Find(text) = internSlots[FindText(internSlots, text)]
    BY <2>1 DEF Find
  <2>3. text \in DOMAIN internGiven <=> text \in Texts(internText)
    BY <2>1 DEF InternInv
  <2>4. /\ text \notin Texts(internText) => Find(text) = EMPTY
        /\ text \in Texts(internText) => Find(text) \in 1..Len(internText) /\ internText[Find(text)] = text
    BY <1>1, <2>2, FindIs
  <2>5. text \in Texts(internText) => internGiven[text] = Find(text)
    BY <2>4 DEF InternInv
  <2> QED BY <2>3, <2>4, <2>5
<1>3. Texts(internText) \subseteq Keys
  BY <1>1 DEF Houses, Texts
<1>4. DOMAIN internGiven \subseteq Keys \union {EmptyText}
  BY <1>3 DEF InternInv
<1>5. EmptyText \in DOMAIN internGiven => internGiven[EmptyText] = 0 /\ Find(EmptyText) = 0
  BY DEF InternInv, Find, EmptyAddress
<1>6. \A t \in DOMAIN internGiven : Find(t) = internGiven[t]
  BY <1>2, <1>4, <1>5
<1>7. \A t \in Keys \ DOMAIN internGiven : Find(t) = EMPTY
  BY <1>2
<1>8. \A t, u \in DOMAIN internGiven : internGiven[t] = internGiven[u] => t = u
  <2>1. \A t \in DOMAIN internGiven : t \in Keys =>
          internGiven[t] \in 1..Len(internText) /\ internText[internGiven[t]] = t
    BY <1>2
  <2>2. \A t \in DOMAIN internGiven : t \in Keys => internGiven[t] # 0
    BY <2>1
  <2> QED BY <2>1, <2>2, <1>4, <1>5
<1> QED BY <1>6, <1>7, <1>8 DEF InternedOnce

\* InternedOnce: each text keeps the address it was first given, and no two texts share one.
THEOREM InternerIsRight == Spec => []InternedOnce
<1>1. Init => InternInv
  BY InternInitInv DEF Init
<1>2. InternInv /\ [Next]_vars => InternInv'
  <2>1. [Next]_vars => [InternNext]_internVars
    BY DEF Next, vars, internVars, SetStep, TabStep, InternStep, DequeStep, BucketsStep, ArrayStep, SortStep
  <2> QED BY <2>1, InternNextInv
<1>3. InternInv => InternedOnce
  BY InternInvOnce
<1> QED BY <1>1, <1>2, <1>3, PTL DEF Spec

-----------------------------------------------------------------------------
(* Queue *)

Held == Items \union {NoItem}

\* _ptr_index, without the modulo.
RingSlot(b, c, k) == IF b + k < c THEN b + k ELSE b + k - c

\* A ring h of c slots holds n items in their order, from slot b on.
RingOf(h, c, b, n, items) ==
  /\ c \in Nat /\ h \in [0..c - 1 -> Held]
  /\ b \in Nat /\ (IF c = 0 THEN b = 0 ELSE b < c)
  /\ n \in 0..c /\ items \in [1..n -> Items]
  /\ \A k \in 1..n : items[k] = h[RingSlot(b, c, k - 1)]

DequeInv ==
  /\ RingOf(dequeHolder, DequeCapacity, dequeStart, dequeSize, dequeItems)
  /\ DequeCapacity <= DequeMaxCapacity

-----------------------------------------------------------------------------
\* The slot of the k-th item, as the code computes it.
LEMMA SlotIndex ==
  ASSUME NEW c \in Nat \ {0}, NEW b \in 0..c - 1, NEW k \in 0..c
  PROVE  DequeIndex(b, k, c) = RingSlot(b, c, k)
<1>1. (b + k) % c = IF b + k < c THEN b + k ELSE b + k - c
  BY SMT
<1> QED
  BY <1>1 DEF DequeIndex, RingSlot

\* The capacity of a ring of c slots.
LEMMA RingCapacity ==
  ASSUME NEW c \in Nat, NEW h, DOMAIN h = 0..c - 1
  PROVE  Cardinality(DOMAIN h) = c
BY FS_Interval

\* The items with one more behind them, in front of them, and without the first or the last.
LEMMA AtBack ==
  ASSUME NEW n \in Nat, NEW s \in [1..n -> Items], NEW x \in Items
  PROVE  /\ Append(s, x) \in [1..n + 1 -> Items]
         /\ \A k \in 1..n + 1 : Append(s, x)[k] = IF k = n + 1 THEN x ELSE s[k]
<1>1. s \in Seq(Items) /\ Len(s) = n
  BY SequenceIs
<1>2. /\ Append(s, x) \in Seq(Items) /\ Len(Append(s, x)) = n + 1
      /\ Append(s, x)[n + 1] = x /\ \A k \in 1..n : Append(s, x)[k] = s[k]
  BY <1>1, AppendProperties
<1>3. Append(s, x) \in [1..n + 1 -> Items]
  BY <1>2, LenProperties
<1>4. \A k \in 1..n + 1 : Append(s, x)[k] = IF k = n + 1 THEN x ELSE s[k]
  BY <1>2
<1> QED
  BY <1>3, <1>4

\* A sequence put in front of another.
LEMMA AtFront ==
  ASSUME NEW n \in Nat, NEW s \in [1..n -> Items], NEW t \in [1..1 -> Items]
  PROVE  /\ t \o s \in [1..n + 1 -> Items]
         /\ \A k \in 1..n + 1 : (t \o s)[k] = IF k = 1 THEN t[1] ELSE s[k - 1]
<1>1. s \in Seq(Items) /\ Len(s) = n
  BY SequenceIs
<1>2. t \in Seq(Items) /\ Len(t) = 1
  BY SequenceIs
<1>3. /\ t \o s \in Seq(Items) /\ Len(t \o s) = Len(t) + Len(s)
      /\ \A k \in 1..Len(t) + Len(s) : (t \o s)[k] = IF k <= Len(t) THEN t[k] ELSE s[k - Len(t)]
  BY <1>1, <1>2, ConcatProperties
<1>4. Len(t \o s) = n + 1
  BY <1>1, <1>2, <1>3
<1>5. t \o s \in [1..n + 1 -> Items]
  BY <1>3, <1>4, LenProperties
<1>6. \A k \in 1..n + 1 : (t \o s)[k] = IF k = 1 THEN t[1] ELSE s[k - 1]
  BY <1>1, <1>2, <1>3
<1> QED
  BY <1>5, <1>6

\* A sequence without its first or its last item.
LEMMA WithoutEnds ==
  ASSUME NEW n \in Nat \ {0}, NEW s \in [1..n -> Items]
  PROVE  /\ Tail(s) \in [1..n - 1 -> Items] /\ \A k \in 1..n - 1 : Tail(s)[k] = s[k + 1]
         /\ Front(s) \in [1..n - 1 -> Items] /\ \A k \in 1..n - 1 : Front(s)[k] = s[k]
<1>1. s \in Seq(Items) /\ Len(s) = n
  BY SequenceIs
<1>2. s # <<>>
  BY <1>1, EmptySeq
<1>3. Tail(s) \in Seq(Items) /\ Len(Tail(s)) = n - 1 /\ \A k \in 1..n - 1 : Tail(s)[k] = s[k + 1]
  BY <1>1, <1>2, HeadTailProperties
<1>4. /\ Front(s) \in Seq(Items) /\ Len(Front(s)) = n - 1
      /\ \A k \in 1..n - 1 : Front(s)[k] = s[k]
  BY <1>1, SubSeqProperties DEF Front
<1> QED
  BY <1>3, <1>4, LenProperties

-----------------------------------------------------------------------------
\* extend keeps the items in their order and makes slot 0 the first.
LEMMA RingExtended ==
  ASSUME NEW h, NEW c, NEW b, NEW n, NEW items, RingOf(h, c, b, n, items)
  PROVE  /\ DequeExtended(h, b, n) \in
              [0..(IF c = 0 THEN DequeFirstCapacity ELSE 2 * c) - 1 -> Held]
         /\ RingOf(DequeExtended(h, b, n), IF c = 0 THEN DequeFirstCapacity ELSE 2 * c, 0, n, items)
<1> USE DequeAssumption DEF RingOf
<1>0. Cardinality(DOMAIN h) = c
  BY RingCapacity
<1>1. CASE c = 0
  BY <1>0, <1>1 DEF DequeExtended, Held
<1>2. CASE c # 0
  <2>1. \A i \in 0..n : DequeIndex(b, i, c) = RingSlot(b, c, i)
    BY <1>2, SlotIndex
  <2>2. \A i \in 0..n : RingSlot(b, c, i) \in 0..c - 1
    BY <1>2 DEF RingSlot
  <2>3. DequeExtended(h, b, n) = [i \in 0..2 * c - 1 |-> IF i <= n THEN h[DequeIndex(b, i, c)] ELSE NoItem]
    BY <1>0, <1>2 DEF DequeExtended
  <2>4. DequeExtended(h, b, n) \in [0..2 * c - 1 -> Held]
    BY <2>1, <2>2, <2>3 DEF Held
  <2>5. \A k \in 1..n : items[k] = DequeExtended(h, b, n)[RingSlot(0, 2 * c, k - 1)]
    <3>1. \A k \in 1..n : RingSlot(0, 2 * c, k - 1) = k - 1 /\ k - 1 \in 0..2 * c - 1
      BY <1>2 DEF RingSlot
    <3>2. \A k \in 1..n : DequeExtended(h, b, n)[k - 1] = h[RingSlot(b, c, k - 1)]
      BY <2>1, <2>3, <3>1
    <3> QED
      BY <3>1, <3>2
  <2> QED
    BY <1>2, <2>4, <2>5
<1> QED
  BY <1>1, <1>2

\* What both pushes start from: a ring with the same items and a slot more.
LEMMA RingRoom ==
  ASSUME DequeInv
  PROVE  \E c \in Nat :
           /\ Cardinality(DOMAIN DequeRoom.holder) = c /\ dequeSize < c
           /\ RingOf(DequeRoom.holder, c, DequeRoom.start, dequeSize, dequeItems)
<1> USE DequeAssumption DEF DequeInv
<1>1. CASE dequeSize = DequeCapacity
  <2> DEFINE c == IF DequeCapacity = 0 THEN DequeFirstCapacity ELSE 2 * DequeCapacity
  <2>1. /\ DequeRoom.holder = DequeExtended(dequeHolder, dequeStart, dequeSize)
        /\ DequeRoom.start = 0
    BY <1>1 DEF DequeRoom
  <2>2. RingOf(DequeRoom.holder, c, DequeRoom.start, dequeSize, dequeItems)
    BY <2>1, RingExtended
  <2>3. c \in Nat /\ dequeSize < c
    BY <1>1 DEF RingOf
  <2>4. Cardinality(DOMAIN DequeRoom.holder) = c
    BY <2>2, <2>3, RingCapacity DEF RingOf
  <2> QED
    BY <2>2, <2>3, <2>4
<1>2. CASE dequeSize # DequeCapacity
  <2>1. DequeRoom.holder = dequeHolder /\ DequeRoom.start = dequeStart
    BY <1>2 DEF DequeRoom
  <2>2. DequeCapacity \in Nat /\ dequeSize < DequeCapacity
    BY <1>2 DEF RingOf
  <2> QED
    BY <2>1, <2>2 DEF DequeCapacity
<1> QED
  BY <1>1, <1>2

\* A ring of c slots after a step.
LEMMA InvAfter ==
  ASSUME NEW c \in 0..DequeMaxCapacity,
         RingOf(dequeHolder', c, dequeStart', dequeSize', dequeItems')
  PROVE  DequeInv'
<1>1. DequeCapacity' = c
  BY DequeAssumption, RingCapacity DEF RingOf, DequeCapacity
<1> QED
  BY <1>1, DequeAssumption DEF DequeInv

\* push_front keeps the ring, also where it grows and where start wraps around.
LEMMA PushFrontInv ==
  ASSUME DequeInv, NEW x \in Items, PushFront(x)
  PROVE  DequeInv'
<1> USE DequeAssumption
<1>1. PICK c \in Nat : /\ Cardinality(DOMAIN DequeRoom.holder) = c /\ dequeSize < c
                       /\ RingOf(DequeRoom.holder, c, DequeRoom.start, dequeSize, dequeItems)
  BY RingRoom
<1> DEFINE h == DequeRoom.holder
           b == DequeRoom.start
           at == IF b = 0 THEN c - 1 ELSE b - 1
<1>2. /\ c <= DequeMaxCapacity
      /\ dequeHolder' = [h EXCEPT ![at] = x] /\ dequeStart' = at
      /\ dequeSize' = dequeSize + 1 /\ dequeItems' = <<x>> \o dequeItems
  BY <1>1 DEF PushFront
<1>3. RingOf(h, c, b, dequeSize, dequeItems) /\ dequeSize < c
  BY <1>1
<1> HIDE DEF h, b
<1>4. at \in 0..c - 1 /\ dequeSize \in Nat /\ c # 0
  BY <1>3 DEF RingOf
<1>5. dequeHolder' \in [0..c - 1 -> Held]
  BY <1>2, <1>3, <1>4 DEF RingOf, Held
<1>6. /\ dequeItems' \in [1..dequeSize + 1 -> Items]
      /\ \A k \in 1..dequeSize + 1 : dequeItems'[k] = IF k = 1 THEN x ELSE dequeItems[k - 1]
  <2>1. dequeItems \in [1..dequeSize -> Items]
    BY <1>3 DEF RingOf
  <2> QED
    <3> DEFINE t == <<x>>
    <3>1. t \in [1..1 -> Items] /\ t[1] = x
      OBVIOUS
    <3>2. dequeItems' = t \o dequeItems
      BY <1>2
    <3> HIDE DEF t
    <3> QED
      BY <1>4, <2>1, <3>1, <3>2, AtFront
<1>7. /\ RingSlot(at, c, 0) = at
      /\ \A k \in 1..dequeSize : RingSlot(at, c, k) = RingSlot(b, c, k - 1) /\ RingSlot(b, c, k - 1) \in 0..c - 1 \ {at}
  BY <1>3, <1>4 DEF RingOf, RingSlot
<1>8. ASSUME NEW k \in 1..dequeSize + 1
      PROVE  dequeItems'[k] = dequeHolder'[RingSlot(at, c, k - 1)]
  <2>1. CASE k = 1
    BY <1>2, <1>3, <1>4, <1>6, <1>7, <2>1 DEF RingOf
  <2>2. CASE k # 1
    <3>1. k - 1 \in 1..dequeSize
      BY <1>4, <2>2
    <3> QED
      BY <1>2, <1>3, <1>6, <1>7, <2>2, <3>1 DEF RingOf
  <2> QED
    BY <2>1, <2>2
<1>9. c \in 0..DequeMaxCapacity /\ dequeSize + 1 \in 0..c
  BY <1>2, <1>3, <1>4
<1>10. RingOf(dequeHolder', c, dequeStart', dequeSize', dequeItems')
  <2>1. at \in Nat /\ at < c
    BY <1>4
  <2> HIDE DEF at
  <2> QED
    BY <1>2, <1>4, <1>5, <1>6, <1>8, <1>9, <2>1 DEF RingOf
<1> QED
  BY <1>9, <1>10, InvAfter

\* push_back keeps the ring, also where it grows.
LEMMA PushBackInv ==
  ASSUME DequeInv, NEW x \in Items, PushBack(x)
  PROVE  DequeInv'
<1> USE DequeAssumption
<1>1. PICK c \in Nat : /\ Cardinality(DOMAIN DequeRoom.holder) = c /\ dequeSize < c
                       /\ RingOf(DequeRoom.holder, c, DequeRoom.start, dequeSize, dequeItems)
  BY RingRoom
<1> DEFINE h == DequeRoom.holder
           b == DequeRoom.start
           at == RingSlot(b, c, dequeSize)
<1>2. RingOf(h, c, b, dequeSize, dequeItems) /\ dequeSize < c
  BY <1>1
<1>3. DequeIndex(b, dequeSize, c) = at
  <2> HIDE DEF h, b
  <2>1. c \in Nat \ {0} /\ b \in 0..c - 1 /\ dequeSize \in 0..c
    BY <1>2 DEF RingOf
  <2> QED
    BY <2>1, SlotIndex
<1>4. /\ c <= DequeMaxCapacity
      /\ dequeHolder' = [h EXCEPT ![at] = x] /\ dequeStart' = b
      /\ dequeSize' = dequeSize + 1 /\ dequeItems' = Append(dequeItems, x)
  BY <1>1, <1>3 DEF PushBack
<1> HIDE DEF h, b
<1>5. at \in 0..c - 1 /\ dequeSize \in Nat /\ c # 0
  BY <1>2 DEF RingOf, RingSlot
<1>6. dequeHolder' \in [0..c - 1 -> Held]
  BY <1>2, <1>4, <1>5 DEF RingOf, Held
<1>7. /\ dequeItems' \in [1..dequeSize + 1 -> Items]
      /\ \A k \in 1..dequeSize + 1 : dequeItems'[k] = IF k = dequeSize + 1 THEN x ELSE dequeItems[k]
  <2>1. dequeItems \in [1..dequeSize -> Items]
    BY <1>2 DEF RingOf
  <2> QED
    BY <1>4, <1>5, <2>1, AtBack
<1>8. \A k \in 1..dequeSize : RingSlot(b, c, k - 1) \in 0..c - 1 \ {at}
  BY <1>2, <1>5 DEF RingOf, RingSlot
<1>9. ASSUME NEW k \in 1..dequeSize + 1
      PROVE  dequeItems'[k] = dequeHolder'[RingSlot(b, c, k - 1)]
  <2>1. CASE k = dequeSize + 1
    <3>1. k - 1 = dequeSize
      BY <1>5, <2>1
    <3> QED
      BY <1>2, <1>4, <1>5, <1>7, <2>1, <3>1 DEF RingOf
  <2>2. CASE k # dequeSize + 1
    <3>1. k \in 1..dequeSize
      BY <1>5, <2>2
    <3> QED
      BY <1>2, <1>4, <1>7, <1>8, <2>2, <3>1 DEF RingOf
  <2> QED
    BY <2>1, <2>2
<1>10. RingOf(dequeHolder', c, dequeStart', dequeSize', dequeItems')
  BY <1>2, <1>4, <1>5, <1>6, <1>7, <1>9 DEF RingOf
<1> QED
  <2>1. c \in 0..DequeMaxCapacity
    BY <1>4
  <2> QED
    BY <1>10, <2>1, InvAfter

\* pop_front and pop_back keep the ring.
LEMMA PopInv ==
  ASSUME DequeInv, PopFront \/ PopBack
  PROVE  DequeInv'
<1> USE DequeAssumption
<1> DEFINE c == DequeCapacity
<1>1. RingOf(dequeHolder, c, dequeStart, dequeSize, dequeItems) /\ c <= DequeMaxCapacity /\ c \in Nat
  BY DEF DequeInv, RingOf
<1> HIDE DEF c
<1>2. dequeSize \in Nat \ {0}
  BY <1>1 DEF RingOf, PopFront, PopBack
<1>3. CASE PopFront
  <2>1. /\ dequeStart' = RingSlot(dequeStart, c, 1) /\ dequeHolder' = dequeHolder
        /\ dequeSize' = dequeSize - 1 /\ dequeItems' = Tail(dequeItems)
    BY <1>1, <1>2, <1>3 DEF PopFront, RingSlot, RingOf, c
  <2>2. \A k \in 1..dequeSize - 1 : RingSlot(RingSlot(dequeStart, c, 1), c, k - 1) = RingSlot(dequeStart, c, (k + 1) - 1)
    BY <1>1, <1>2 DEF RingOf, RingSlot
  <2>3. /\ dequeItems' \in [1..dequeSize - 1 -> Items]
        /\ \A k \in 1..dequeSize - 1 : dequeItems'[k] = dequeItems[k + 1]
    BY <1>1, <1>2, <2>1, WithoutEnds DEF RingOf
  <2>4. \A k \in 1..dequeSize - 1 : dequeItems'[k] = dequeHolder'[RingSlot(dequeStart', c, k - 1)]
    BY <1>1, <1>2, <2>1, <2>2, <2>3 DEF RingOf
  <2>5. RingSlot(dequeStart, c, 1) \in 0..c - 1
    BY <1>1, <1>2 DEF RingOf, RingSlot
  <2>6. RingOf(dequeHolder', c, dequeStart', dequeSize', dequeItems')
    BY <1>1, <1>2, <2>1, <2>3, <2>4, <2>5 DEF RingOf
  <2> QED
    BY <1>1, <2>6, InvAfter
<1>4. CASE PopBack
  <2>1. /\ dequeStart' = dequeStart /\ dequeHolder' = dequeHolder
        /\ dequeSize' = dequeSize - 1 /\ dequeItems' = Front(dequeItems)
    BY <1>4 DEF PopBack
  <2>2. /\ dequeItems' \in [1..dequeSize - 1 -> Items]
        /\ \A k \in 1..dequeSize - 1 : dequeItems'[k] = dequeItems[k]
    BY <1>1, <1>2, <2>1, WithoutEnds DEF RingOf
  <2>3. RingOf(dequeHolder', c, dequeStart', dequeSize', dequeItems')
    BY <1>1, <1>2, <2>1, <2>2 DEF RingOf
  <2> QED
    BY <1>1, <2>3, InvAfter
<1> QED
  BY <1>3, <1>4

\* Every operation of the queue keeps the ring.
LEMMA DequeInductive == DequeInv /\ [DequeNext]_dequeVars => DequeInv'
<1> SUFFICES ASSUME DequeInv, [DequeNext]_dequeVars PROVE DequeInv'
  OBVIOUS
<1> USE DequeAssumption
<1>1. CASE UNCHANGED dequeVars
  BY <1>1 DEF dequeVars, DequeInv, DequeCapacity
<1>2. CASE \E x \in Items : PushFront(x) \/ PushBack(x)
  BY <1>2, PushFrontInv, PushBackInv
<1>3. CASE PopFront \/ PopBack
  BY <1>3, PopInv
<1>4. CASE DequeExtend
  <2> DEFINE c == IF DequeCapacity = 0 THEN DequeFirstCapacity ELSE 2 * DequeCapacity
  <2>1. RingOf(dequeHolder', c, 0, dequeSize, dequeItems)
    BY <1>4, RingExtended DEF DequeExtend, DequeInv
  <2>2. c \in Nat /\ Cardinality(DOMAIN dequeHolder') = c
    BY <2>1, RingCapacity DEF RingOf
  <2>3. c \in 0..DequeMaxCapacity
    BY <1>4, <2>2 DEF DequeExtend
  <2>4. dequeStart' = 0 /\ dequeSize' = dequeSize /\ dequeItems' = dequeItems
    BY <1>4 DEF DequeExtend, DequeInv, RingOf
  <2> QED
    BY <2>1, <2>3, <2>4, InvAfter
<1>5. CASE DequeClear
  <2>1. RingOf(dequeHolder', DequeCapacity, dequeStart', dequeSize', dequeItems')
    BY <1>5 DEF DequeClear, DequeInv, RingOf
  <2> QED
    <3>1. DequeCapacity \in 0..DequeMaxCapacity
      BY DEF DequeInv, RingOf
    <3> QED
      BY <2>1, <3>1, InvAfter
<1>6. CASE DequeFree
  <2>1. RingOf(dequeHolder', 0, dequeStart', dequeSize', dequeItems')
    BY <1>6 DEF DequeFree, NoHolder, RingOf
  <2> QED
    BY <2>1, InvAfter
<1> QED
  BY <1>1, <1>2, <1>3, <1>4, <1>5, <1>6 DEF DequeNext

\* The queue without slots is a ring.
LEMMA DequeInitially == DequeInit => DequeInv
<1> SUFFICES ASSUME DequeInit PROVE DequeInv
  OBVIOUS
<1>1. DequeCapacity = 0
  BY FS_EmptySet DEF DequeInit, NoHolder, DequeCapacity
<1> QED
  BY <1>1, DequeAssumption DEF DequeInit, NoHolder, DequeInv, RingOf

\* The type invariant and the sequence follow.
LEMMA DequeInvType == DequeInv => DequeTypeOK /\ DequeAgrees
<1> SUFFICES ASSUME DequeInv PROVE DequeTypeOK /\ DequeAgrees
  OBVIOUS
<1>1. RingOf(dequeHolder, DequeCapacity, dequeStart, dequeSize, dequeItems)
  BY DEF DequeInv
<1>2. DequeAgrees
  <2>1. \A k \in 1..dequeSize : DequeIndex(dequeStart, k - 1, DequeCapacity) = RingSlot(dequeStart, DequeCapacity, k - 1)
    BY <1>1, SlotIndex DEF RingOf
  <2> QED
    BY <1>1, <2>1 DEF RingOf, DequeAgrees
<1>3. DequeTypeOK
  <2>1. dequeItems \in Seq(Items)
    BY <1>1, SequenceIs DEF RingOf
  <2>2. DequeCapacity \in 0..DequeMaxCapacity
    BY <1>1, DequeAssumption DEF DequeInv, RingOf
  <2> QED
    BY <1>1, <2>1, <2>2 DEF DequeTypeOK, RingOf, Held
<1> QED
  BY <1>2, <1>3

\* DequeAgrees: the ring has the items the caller expects, in their order, after pushes and
\* pops at both ends, extends, clears and frees in any order (struct Queue).
THEOREM QueueIsRight == Spec => []DequeAgrees
<1>1. Init => DequeInv
  BY DequeInitially DEF Init
<1>2. DequeInv /\ [Next]_vars => DequeInv'
  <2>1. [Next]_vars => [DequeNext]_dequeVars
    BY DEF Next, vars, dequeVars, SetStep, TabStep, InternStep, DequeStep, BucketsStep, ArrayStep, SortStep
  <2> QED BY <2>1, DequeInductive
<1> QED
  BY <1>1, <1>2, DequeInvType, PTL DEF Spec
-----------------------------------------------------------------------------
(* Array, ArrayMax and OwnedArr *)

ArrHeld == Elems \union {DefaultElem}
Data(c) == [0..c - 1 -> ArrHeld]

\* The size of a buffer of c slots.
LEMMA DataSize ==
  ASSUME NEW c \in Nat, NEW d, DOMAIN d = 0..c - 1
  PROVE  SizeOfData(d) = c
BY FS_Interval DEF SizeOfData

\* Making room keeps what the slots there are hold.
LEMMA ReservedKeeps ==
  ASSUME NEW c \in Nat, NEW d \in Data(c), NEW total \in Nat
  PROVE  \E k \in Nat : /\ k >= c /\ k >= total /\ Reserved(d, total) \in Data(k)
                        /\ \A j \in 0..c - 1 : Reserved(d, total)[j] = d[j]
<1>1. SizeOfData(d) = c /\ DOMAIN d = 0..c - 1
  BY DataSize DEF Data
<1>2. ASSUME NEW k \in Nat, k >= c PROVE Resize(d, k) \in Data(k) /\ \A j \in 0..c - 1 : Resize(d, k)[j] = d[j]
  BY <1>1, <1>2 DEF Resize, Data, ArrHeld
<1>3. CASE total <= c
  BY <1>1, <1>3 DEF Reserved
<1>4. CASE total > c /\ total < ArrFirstCapacity
  <2>1. Reserved(d, total) = Resize(d, ArrFirstCapacity)
    BY <1>1, <1>4 DEF Reserved
  <2>2. ArrFirstCapacity \in Nat
    BY ArraysAssumption
  <2> QED BY <1>2, <1>4, <2>1, <2>2
<1>5. CASE total > c /\ ~(total < ArrFirstCapacity)
  <2>1. Reserved(d, total) = Resize(d, CeilToPow2(total))
    BY <1>1, <1>5 DEF Reserved
  <2> QED BY <1>2, <1>5, <2>1, CeilIsEnough
<1> QED BY <1>3, <1>4, <1>5

\* Moved up from the last to the one behind index, each slot has what the one before it had.
LEMMA MovedUpIs ==
  ASSUME NEW c \in Nat, NEW d \in Data(c), NEW index \in Nat, NEW size \in Nat, index < size, size <= c
  PROVE  /\ MovedUp(d, index, size) \in Data(c)
         /\ \A j \in 0..c - 1 :
              MovedUp(d, index, size)[j] = IF index < j /\ j < size THEN d[j - 1] ELSE d[j]
<1> DEFINE m == size - index - 1
           step(n, x) == [x EXCEPT ![size - n] = x[size - n - 1]]
           F(f) == [n \in 0..m |-> IF n = 0 THEN d ELSE step(n, f[n - 1])]
           g == [n \in 0..m |-> [j \in 0..c - 1 |-> IF size - n <= j /\ j < size THEN d[j - 1] ELSE d[j]]]
           M == CHOOSE f : f = F(f)
<1>0. m \in Nat
  OBVIOUS
<1>1. ASSUME NEW n \in 0..m PROVE g[n] = F(g)[n]
  <2>1. CASE n = 0
    BY <2>1, <1>0 DEF Data
  <2>2. CASE n # 0
    <3>1. n - 1 \in 0..m /\ size - n \in 0..c - 1 /\ size - n - 1 \in 0..c - 1
      BY <2>2
    <3>2. g[n - 1] = [j \in 0..c - 1 |-> IF size - (n - 1) <= j /\ j < size THEN d[j - 1] ELSE d[j]]
      BY <3>1
    <3>3. g[n - 1][size - n - 1] = d[size - n - 1]
      BY <3>1, <3>2
    <3>4. step(n, g[n - 1]) = [j \in 0..c - 1 |-> IF j = size - n THEN d[size - n - 1] ELSE g[n - 1][j]]
      BY <3>1, <3>2, <3>3
    <3>5. \A j \in 0..c - 1 : (IF j = size - n THEN d[size - n - 1] ELSE g[n - 1][j]) = IF size - n <= j /\ j < size THEN d[j - 1] ELSE d[j]
      BY <3>1, <3>2
    <3>6. g[n] = [j \in 0..c - 1 |-> IF size - n <= j /\ j < size THEN d[j - 1] ELSE d[j]]
      OBVIOUS
    <3>7. step(n, g[n - 1]) = g[n]
      <4> HIDE DEF g, step
      <4> QED BY <3>4, <3>5, <3>6
    <3> QED BY <3>7, <2>2
  <2> QED BY <2>1, <2>2
<1>2. M = F(M)
  <2>1. g = F(g)
    BY <1>1
  <2> HIDE DEF F, g
  <2> QED BY <2>1
<1>3. MovedUp(d, index, size) = M[m]
  BY DEF MovedUp
<1> DEFINE T == {n \in Nat : n <= m => M[n] = g[n]}
<1> HIDE DEF g, M, m, step
<1>4. 0 \in T
  BY <1>0, <1>1, <1>2
<1>5. ASSUME NEW n \in Nat, n \in T PROVE n + 1 \in T
  <2> SUFFICES ASSUME n + 1 <= m PROVE M[n + 1] = g[n + 1]
    OBVIOUS
  <2>1. M[n] = g[n] /\ n + 1 \in 0..m /\ n + 1 # 0 /\ (n + 1) - 1 = n
    BY <1>0, <1>5
  <2>2. M[n + 1] = step(n + 1, M[n]) /\ g[n + 1] = step(n + 1, g[n])
    BY <1>1, <1>2, <2>1
  <2> QED BY <2>1, <2>2
<1>6. M[m] = g[m]
  <2>1. Nat \subseteq T
    <3> HIDE DEF T
    <3> QED BY <1>4, <1>5, SetInduction
  <2> QED BY <2>1, <1>0
<1>7. g[m] = [j \in 0..c - 1 |-> IF size - m <= j /\ j < size THEN d[j - 1] ELSE d[j]]
  BY <1>0 DEF g
<1>8. \A j \in 0..c - 1 : (IF size - m <= j /\ j < size THEN d[j - 1] ELSE d[j]) = IF index < j /\ j < size THEN d[j - 1] ELSE d[j]
  BY DEF m
<1>9. MovedUp(d, index, size) = [j \in 0..c - 1 |-> IF index < j /\ j < size THEN d[j - 1] ELSE d[j]]
  BY <1>3, <1>6, <1>7, <1>8
<1>10. \A j \in 0..c - 1 : (IF index < j /\ j < size THEN d[j - 1] ELSE d[j]) \in ArrHeld
  BY DEF Data
<1>11. [j \in 0..c - 1 |-> IF index < j /\ j < size THEN d[j - 1] ELSE d[j]] \in Data(c)
  BY <1>10 DEF Data
<1> QED BY <1>9, <1>11

\* Moved down from index on, each slot has what the one after it had.
LEMMA MovedDownIs ==
  ASSUME NEW c \in Nat, NEW d \in Data(c), NEW index \in Nat, NEW size \in Nat, index < size, size <= c
  PROVE  /\ MovedDown(d, index, size) \in Data(c)
         /\ \A j \in 0..c - 1 :
              MovedDown(d, index, size)[j] = IF index <= j /\ j < size - 1 THEN d[j + 1] ELSE d[j]
<1> DEFINE m == size - index - 1
           step(n, x) == [x EXCEPT ![index + n - 1] = x[index + n]]
           F(f) == [n \in 0..m |-> IF n = 0 THEN d ELSE step(n, f[n - 1])]
           g == [n \in 0..m |-> [j \in 0..c - 1 |-> IF index <= j /\ j < index + n THEN d[j + 1] ELSE d[j]]]
           M == CHOOSE f : f = F(f)
<1>0. m \in Nat
  OBVIOUS
<1>1. ASSUME NEW n \in 0..m PROVE g[n] = F(g)[n]
  <2>1. CASE n = 0
    BY <2>1, <1>0 DEF Data
  <2>2. CASE n # 0
    <3>1. n - 1 \in 0..m /\ index + n - 1 \in 0..c - 1 /\ index + n \in 0..c - 1
      BY <2>2
    <3>2. g[n - 1] = [j \in 0..c - 1 |-> IF index <= j /\ j < index + (n - 1) THEN d[j + 1] ELSE d[j]]
      BY <3>1
    <3>3. g[n - 1][index + n] = d[index + n]
      BY <3>1, <3>2
    <3>4. step(n, g[n - 1]) = [j \in 0..c - 1 |-> IF j = index + n - 1 THEN d[index + n] ELSE g[n - 1][j]]
      BY <3>1, <3>2, <3>3
    <3>5. \A j \in 0..c - 1 : (IF j = index + n - 1 THEN d[index + n] ELSE g[n - 1][j]) = IF index <= j /\ j < index + n THEN d[j + 1] ELSE d[j]
      BY <3>1, <3>2
    <3>6. g[n] = [j \in 0..c - 1 |-> IF index <= j /\ j < index + n THEN d[j + 1] ELSE d[j]]
      OBVIOUS
    <3>7. step(n, g[n - 1]) = g[n]
      <4> HIDE DEF g, step
      <4> QED BY <3>4, <3>5, <3>6
    <3> QED BY <3>7, <2>2
  <2> QED BY <2>1, <2>2
<1>2. M = F(M)
  <2>1. g = F(g)
    BY <1>1
  <2> HIDE DEF F, g
  <2> QED BY <2>1
<1>3. MovedDown(d, index, size) = M[m]
  BY DEF MovedDown
<1> DEFINE T == {n \in Nat : n <= m => M[n] = g[n]}
<1> HIDE DEF g, M, m, step
<1>4. 0 \in T
  BY <1>0, <1>1, <1>2
<1>5. ASSUME NEW n \in Nat, n \in T PROVE n + 1 \in T
  <2> SUFFICES ASSUME n + 1 <= m PROVE M[n + 1] = g[n + 1]
    OBVIOUS
  <2>1. M[n] = g[n] /\ n + 1 \in 0..m /\ n + 1 # 0 /\ (n + 1) - 1 = n
    BY <1>0, <1>5
  <2>2. M[n + 1] = step(n + 1, M[n]) /\ g[n + 1] = step(n + 1, g[n])
    BY <1>1, <1>2, <2>1
  <2> QED BY <2>1, <2>2
<1>6. M[m] = g[m]
  <2>1. Nat \subseteq T
    <3> HIDE DEF T
    <3> QED BY <1>4, <1>5, SetInduction
  <2> QED BY <2>1, <1>0
<1>7. g[m] = [j \in 0..c - 1 |-> IF index <= j /\ j < index + m THEN d[j + 1] ELSE d[j]]
  BY <1>0 DEF g
<1>8. \A j \in 0..c - 1 : (IF index <= j /\ j < index + m THEN d[j + 1] ELSE d[j]) = IF index <= j /\ j < size - 1 THEN d[j + 1] ELSE d[j]
  BY DEF m
<1>9. MovedDown(d, index, size) = [j \in 0..c - 1 |-> IF index <= j /\ j < size - 1 THEN d[j + 1] ELSE d[j]]
  BY <1>3, <1>6, <1>7, <1>8
<1>10. \A j \in 0..c - 1 : (IF index <= j /\ j < size - 1 THEN d[j + 1] ELSE d[j]) \in ArrHeld
  BY DEF Data
<1>11. [j \in 0..c - 1 |-> IF index <= j /\ j < size - 1 THEN d[j + 1] ELSE d[j]] \in Data(c)
  BY <1>10 DEF Data
<1> QED BY <1>9, <1>11

\* A sequence written from slot size on.
LEMMA WrittenIs ==
  ASSUME NEW c \in Nat, NEW d \in Data(c), NEW size \in Nat, NEW s \in Seq(ArrHeld), size + Len(s) <= c
  PROVE  /\ Written(d, size, s) \in Data(c)
         /\ \A j \in 0..c - 1 :
              Written(d, size, s)[j] = IF size <= j /\ j < size + Len(s) THEN s[j - size + 1] ELSE d[j]
<1> DEFINE m == Len(s)
           step(n, x) == [x EXCEPT ![size + n - 1] = s[n]]
           F(f) == [n \in 0..m |-> IF n = 0 THEN d ELSE step(n, f[n - 1])]
           g == [n \in 0..m |-> [j \in 0..c - 1 |-> IF size <= j /\ j < size + n THEN s[j - size + 1] ELSE d[j]]]
           M == CHOOSE f : f = F(f)
<1>0. m \in Nat
  BY LenProperties
<1>1. ASSUME NEW n \in 0..m PROVE g[n] = F(g)[n]
  <2>1. CASE n = 0
    BY <2>1, <1>0 DEF Data
  <2>2. CASE n # 0
    <3>1. n - 1 \in 0..m /\ size + n - 1 \in 0..c - 1 /\ (size + n - 1) - size + 1 = n
      BY <2>2, <1>0
    <3>2. g[n - 1] = [j \in 0..c - 1 |-> IF size <= j /\ j < size + (n - 1) THEN s[j - size + 1] ELSE d[j]]
      BY <3>1
    <3>3. step(n, g[n - 1]) = [j \in 0..c - 1 |-> IF j = size + n - 1 THEN s[n] ELSE g[n - 1][j]]
      BY <3>1, <3>2
    <3>4. ASSUME NEW j \in 0..c - 1
          PROVE  (IF j = size + n - 1 THEN s[n] ELSE g[n - 1][j]) = IF size <= j /\ j < size + n THEN s[j - size + 1] ELSE d[j]
      <4>1. CASE j = size + n - 1
        <5>1. size <= j /\ j < size + n /\ j - size + 1 = n
          BY <3>1, <4>1
        <5> QED BY <4>1, <5>1
      <4>2. CASE j # size + n - 1
        BY <3>1, <3>2, <4>2, <1>0
      <4> QED BY <4>1, <4>2
    <3>5. g[n] = [j \in 0..c - 1 |-> IF size <= j /\ j < size + n THEN s[j - size + 1] ELSE d[j]]
      OBVIOUS
    <3>6. step(n, g[n - 1]) = g[n]
      <4> HIDE DEF g, step
      <4> QED BY <3>3, <3>4, <3>5
    <3> QED BY <3>6, <2>2
  <2> QED BY <2>1, <2>2
<1>2. M = F(M)
  <2>1. g = F(g)
    BY <1>1
  <2> HIDE DEF F, g
  <2> QED BY <2>1
<1>3. Written(d, size, s) = M[m]
  BY DEF Written
<1> DEFINE T == {n \in Nat : n <= m => M[n] = g[n]}
<1> HIDE DEF g, M, m, step
<1>4. 0 \in T
  BY <1>0, <1>1, <1>2
<1>5. ASSUME NEW n \in Nat, n \in T PROVE n + 1 \in T
  <2> SUFFICES ASSUME n + 1 <= m PROVE M[n + 1] = g[n + 1]
    OBVIOUS
  <2>1. M[n] = g[n] /\ n + 1 \in 0..m /\ n + 1 # 0 /\ (n + 1) - 1 = n
    BY <1>0, <1>5
  <2>2. M[n + 1] = step(n + 1, M[n]) /\ g[n + 1] = step(n + 1, g[n])
    BY <1>1, <1>2, <2>1
  <2> QED BY <2>1, <2>2
<1>6. M[m] = g[m]
  <2>1. Nat \subseteq T
    <3> HIDE DEF T
    <3> QED BY <1>4, <1>5, SetInduction
  <2> QED BY <2>1, <1>0
<1>7. g[m] = [j \in 0..c - 1 |-> IF size <= j /\ j < size + m THEN s[j - size + 1] ELSE d[j]]
  BY <1>0 DEF g
<1>8. \A j \in 0..c - 1 : (IF size <= j /\ j < size + m THEN s[j - size + 1] ELSE d[j]) = IF size <= j /\ j < size + Len(s) THEN s[j - size + 1] ELSE d[j]
  BY DEF m
<1>9. Written(d, size, s) = [j \in 0..c - 1 |-> IF size <= j /\ j < size + Len(s) THEN s[j - size + 1] ELSE d[j]]
  BY <1>3, <1>6, <1>7, <1>8
<1>10. \A j \in 0..c - 1 : (IF size <= j /\ j < size + Len(s) THEN s[j - size + 1] ELSE d[j]) \in ArrHeld
  BY <1>0, ElementOfSeq DEF Data, m
<1>11. [j \in 0..c - 1 |-> IF size <= j /\ j < size + Len(s) THEN s[j - size + 1] ELSE d[j]] \in Data(c)
  BY <1>10 DEF Data
<1> QED BY <1>9, <1>11

\* Exchanged pair by pair from the outside in, slot j has what slot size - 1 - j had.
LEMMA ReversedIs ==
  ASSUME NEW c \in Nat, NEW d \in Data(c), NEW size \in 0..c
  PROVE  /\ Reversed(d, size) \in Data(c)
         /\ \A j \in 0..c - 1 :
              Reversed(d, size)[j] = IF j < size THEN d[size - 1 - j] ELSE d[j]
<1> DEFINE m == size \div 2
           step(n, x) == [x EXCEPT ![n - 1] = x[size - n], ![size - n] = x[n - 1]]
           F(f) == [n \in 0..m |-> IF n = 0 THEN d ELSE step(n, f[n - 1])]
           g == [n \in 0..m |-> [j \in 0..c - 1 |-> IF j < size /\ (j < n \/ size - n <= j) THEN d[size - 1 - j] ELSE d[j]]]
           M == CHOOSE f : f = F(f)
<1>0. m \in Nat
  OBVIOUS
<1>1. ASSUME NEW n \in 0..m PROVE g[n] = F(g)[n]
  <2>1. CASE n = 0
    BY <2>1, <1>0 DEF Data
  <2>2. CASE n # 0
    <3>1. n - 1 \in 0..m /\ n - 1 \in 0..c - 1 /\ size - n \in 0..c - 1 /\ n - 1 < size - n
      BY <2>2
    <3>2. g[n - 1] = [j \in 0..c - 1 |-> IF j < size /\ (j < (n - 1) \/ size - (n - 1) <= j) THEN d[size - 1 - j] ELSE d[j]]
      BY <3>1
    <3>3. g[n - 1][size - n] = d[size - n] /\ g[n - 1][n - 1] = d[n - 1]
      BY <3>1, <3>2
    <3>4. step(n, g[n - 1]) = [j \in 0..c - 1 |-> IF j = size - n THEN d[n - 1]
                                                 ELSE IF j = n - 1 THEN d[size - n] ELSE g[n - 1][j]]
      BY <3>1, <3>2, <3>3
    <3>5. \A j \in 0..c - 1 : (IF j = size - n THEN d[n - 1] ELSE IF j = n - 1 THEN d[size - n] ELSE g[n - 1][j])
                            = IF j < size /\ (j < n \/ size - n <= j) THEN d[size - 1 - j] ELSE d[j]
      BY <3>1, <3>2
    <3>6. g[n] = [j \in 0..c - 1 |-> IF j < size /\ (j < n \/ size - n <= j) THEN d[size - 1 - j] ELSE d[j]]
      OBVIOUS
    <3>7. step(n, g[n - 1]) = g[n]
      <4> HIDE DEF g, step
      <4> QED BY <3>4, <3>5, <3>6
    <3> QED BY <3>7, <2>2
  <2> QED BY <2>1, <2>2
<1>2. M = F(M)
  <2>1. g = F(g)
    BY <1>1
  <2> HIDE DEF F, g
  <2> QED BY <2>1
<1>3. Reversed(d, size) = M[m]
  BY DEF Reversed
<1> DEFINE T == {n \in Nat : n <= m => M[n] = g[n]}
<1> HIDE DEF g, M, m, step
<1>4. 0 \in T
  BY <1>0, <1>1, <1>2
<1>5. ASSUME NEW n \in Nat, n \in T PROVE n + 1 \in T
  <2> SUFFICES ASSUME n + 1 <= m PROVE M[n + 1] = g[n + 1]
    OBVIOUS
  <2>1. M[n] = g[n] /\ n + 1 \in 0..m /\ n + 1 # 0 /\ (n + 1) - 1 = n
    BY <1>0, <1>5
  <2>2. M[n + 1] = step(n + 1, M[n]) /\ g[n + 1] = step(n + 1, g[n])
    BY <1>1, <1>2, <2>1
  <2> QED BY <2>1, <2>2
<1>6. M[m] = g[m]
  <2>1. Nat \subseteq T
    <3> HIDE DEF T
    <3> QED BY <1>4, <1>5, SetInduction
  <2> QED BY <2>1, <1>0
<1>7. g[m] = [j \in 0..c - 1 |-> IF j < size /\ (j < m \/ size - m <= j) THEN d[size - 1 - j] ELSE d[j]]
  BY <1>0 DEF g
<1>8. \A j \in 0..c - 1 : (IF j < size /\ (j < m \/ size - m <= j) THEN d[size - 1 - j] ELSE d[j]) = IF j < size THEN d[size - 1 - j] ELSE d[j]
  BY <1>0 DEF m
<1>9. Reversed(d, size) = [j \in 0..c - 1 |-> IF j < size THEN d[size - 1 - j] ELSE d[j]]
  BY <1>3, <1>6, <1>7, <1>8
<1>10. \A j \in 0..c - 1 : (IF j < size THEN d[size - 1 - j] ELSE d[j]) \in ArrHeld
  BY DEF Data
<1>11. [j \in 0..c - 1 |-> IF j < size THEN d[size - 1 - j] ELSE d[j]] \in Data(c)
  BY <1>10 DEF Data
<1> QED BY <1>9, <1>11

\* How many of the first m items of s are not in S.
Staying(s, S, m) == Cardinality({j \in {i \in DOMAIN s : s[i] \notin S} : j <= m})

CountsStaying(s, S, n) ==
  /\ Staying(s, S, 0) = 0
  /\ \A m \in 0..n - 1 : Staying(s, S, m + 1) = Staying(s, S, m) + (IF s[m + 1] \in S THEN 0 ELSE 1)
  /\ \A m \in 0..n : Staying(s, S, m) \in 0..m
  /\ Staying(s, S, n) = Cardinality({i \in DOMAIN s : s[i] \notin S})

\* How many of the first items stay, one item at a time.
LEMMA StayingCounts ==
  ASSUME NEW n \in Nat, NEW s \in [1..n -> ArrHeld], NEW S
  PROVE  CountsStaying(s, S, n)
<1> DEFINE stays == {i \in DOMAIN s : s[i] \notin S}
           upTo(m) == {j \in stays : j <= m}
<1>1. stays \subseteq 1..n /\ \A i \in 1..n : i \in stays <=> s[i] \notin S
  OBVIOUS
<1>0. \A j \in stays : j \in 1..n
  OBVIOUS
<1>2. \A m : Staying(s, S, m) = Cardinality(upTo(m))
  BY DEF Staying
<1> HIDE DEF stays
<1>3. \A m \in 0..n : IsFiniteSet(upTo(m))
  <2> TAKE m \in 0..n
  <2>1. stays \subseteq 1..n
    BY <1>1
  <2>2. IsFiniteSet(1..n)
    BY FS_Interval
  <2> QED BY <2>1, <2>2, FS_Subset
<1>4. upTo(0) = {}
  <2>1. \A j \in stays : ~(j <= 0)
    BY <1>0
  <2> QED BY <2>1
<1>5. ASSUME NEW m \in 0..n - 1
      PROVE  Cardinality(upTo(m + 1)) = Cardinality(upTo(m)) + (IF s[m + 1] \in S THEN 0 ELSE 1)
  <2>1. m + 1 \in 1..n /\ m \in 0..n /\ m + 1 \notin upTo(m)
    OBVIOUS
  <2>2. CASE s[m + 1] \in S
    <3>0. m + 1 \notin stays
      BY <1>1, <2>1, <2>2
    <3>1. \A j \in stays : j <= m + 1 <=> j <= m
      BY <1>0, <3>0
    <3>2. upTo(m + 1) = upTo(m)
      BY <3>1
    <3>3. Cardinality(upTo(m)) \in Nat
      <4> HIDE DEF upTo
      <4> QED BY <1>3, <2>1, FS_CardinalityType
    <3> QED
      <4> HIDE DEF upTo
      <4> QED BY <2>2, <3>2, <3>3
  <2>3. CASE s[m + 1] \notin S
    <3>0. m + 1 \in stays
      BY <1>1, <2>1, <2>3
    <3>1. \A j \in stays : j <= m + 1 <=> j <= m \/ j = m + 1
      BY <1>0
    <3>2. upTo(m + 1) = upTo(m) \union {m + 1}
      BY <3>0, <3>1
    <3> HIDE DEF upTo
    <3> QED BY <1>3, <2>1, <2>3, <3>2, FS_AddElement
  <2> QED BY <2>2, <2>3
<1>6. \A m \in 0..n : Cardinality(upTo(m)) \in 0..m
  <2> TAKE m \in 0..n
  <2>0. upTo(m) \subseteq 1..m
    BY <1>0
  <2>1. IsFiniteSet(1..m) /\ Cardinality(1..m) = m
    BY FS_Interval
  <2>2. Cardinality(upTo(m)) <= m /\ Cardinality(upTo(m)) \in Nat
    <3> HIDE DEF upTo
    <3> QED BY <2>0, <2>1, FS_Subset, FS_CardinalityType
  <2> QED BY <2>2
<1>7. upTo(n) = stays
  BY <1>0
<1>8. Staying(s, S, 0) = 0
  BY <1>2, <1>4, FS_EmptySet
<1>9. Staying(s, S, n) = Cardinality(stays)
  BY <1>2, <1>7
<1>10. \A m \in 0..n - 1 : Staying(s, S, m + 1) = Staying(s, S, m) + (IF s[m + 1] \in S THEN 0 ELSE 1)
  BY <1>2, <1>5
<1>11. \A m \in 0..n : Staying(s, S, m) \in 0..m
  BY <1>2, <1>6
<1> QED BY <1>8, <1>9, <1>10, <1>11 DEF stays, CountsStaying

\* An item that stays comes after as many as stay before it.
KeepsStaying(w, s, S, n) ==
  /\ w \in [1..Staying(s, S, n) -> ArrHeld]
  /\ \A m \in 0..n - 1 : s[m + 1] \notin S => w[Staying(s, S, m + 1)] = s[m + 1]

\* The items that stay are in their order.
LEMMA WithoutIs ==
  ASSUME NEW n \in Nat, NEW s \in [1..n -> ArrHeld], NEW S
  PROVE  KeepsStaying(Without(s, S), s, S, n)
<1> DEFINE stays == {i \in DOMAIN s : s[i] \notin S}
           cnt(m) == Staying(s, S, m)
           nth(k) == CHOOSE i \in stays : cnt(i) = k
<1>1. stays \subseteq 1..n /\ \A i \in 1..n : i \in stays <=> s[i] \notin S
  OBVIOUS
<1>0. CountsStaying(s, S, n)
  BY StayingCounts
<1>2. Without(s, S) = [k \in 1..cnt(n) |-> s[nth(k)]]
  <2>1. cnt(n) = Cardinality(stays)
    BY <1>0 DEF CountsStaying
  <2> QED BY <2>1 DEF Without, Staying
<1>3. cnt(0) = 0 /\ \A m \in 0..n - 1 : cnt(m + 1) = cnt(m) + (IF m + 1 \in stays THEN 1 ELSE 0)
  <2>1. cnt(0) = 0 /\ \A m \in 0..n - 1 : cnt(m + 1) = cnt(m) + (IF s[m + 1] \in S THEN 0 ELSE 1)
    BY <1>0 DEF CountsStaying
  <2>2. \A m \in 0..n - 1 : m + 1 \in stays <=> s[m + 1] \notin S
    BY <1>1
  <2> HIDE DEF stays, cnt
  <2> QED BY <2>1, <2>2
<1>4. \A m \in 0..n : cnt(m) \in Nat
  <2>1. \A m \in 0..n : cnt(m) \in 0..m
    BY <1>0 DEF CountsStaying
  <2> HIDE DEF cnt
  <2> QED BY <2>1
<1> HIDE DEF stays, cnt
<1>5. \A m \in 0..n : \A k \in 1..cnt(m) : \E i \in stays : i <= m /\ cnt(i) = k
  <2> DEFINE T == {m \in Nat : m <= n => \A k \in 1..cnt(m) : \E i \in stays : i <= m /\ cnt(i) = k}
  <2>1. 0 \in T
    BY <1>3
  <2>2. ASSUME NEW m \in Nat, m \in T PROVE m + 1 \in T
    <3> SUFFICES ASSUME m + 1 <= n, NEW k \in 1..cnt(m + 1) PROVE \E i \in stays : i <= m + 1 /\ cnt(i) = k
      OBVIOUS
    <3>1. m \in 0..n - 1 /\ m \in 0..n /\ m + 1 \in 1..n
      OBVIOUS
    <3>2. CASE k \in 1..cnt(m)
      <4>1. PICK i \in stays : i <= m /\ cnt(i) = k
        BY <2>2, <3>1, <3>2
      <4> QED BY <4>1, <3>1, <1>1
    <3>3. CASE k \notin 1..cnt(m)
      <4>1. cnt(m) \in Nat /\ cnt(m + 1) = cnt(m) + (IF m + 1 \in stays THEN 1 ELSE 0)
        BY <3>1, <1>3, <1>4
      <4>2. k = cnt(m + 1) /\ m + 1 \in stays
        BY <4>1, <3>3
      <4> QED BY <4>2
    <3> QED BY <3>2, <3>3
  <2>3. Nat \subseteq T
    <3> HIDE DEF T
    <3> QED BY <2>1, <2>2, SetInduction
  <2> QED BY <2>3
<1>6. \A i, j \in 0..n : i <= j => cnt(i) <= cnt(j)
  <2> SUFFICES ASSUME NEW i \in 0..n PROVE \A j \in 0..n : i <= j => cnt(i) <= cnt(j)
    OBVIOUS
  <2> DEFINE T == {j \in Nat : j <= n /\ i <= j => cnt(i) <= cnt(j)}
  <2>1. 0 \in T
    BY <1>4
  <2>2. ASSUME NEW j \in Nat, j \in T PROVE j + 1 \in T
    <3> SUFFICES ASSUME j + 1 <= n, i <= j + 1 PROVE cnt(i) <= cnt(j + 1)
      OBVIOUS
    <3>1. CASE i = j + 1
      BY <3>1, <1>4
    <3>2. CASE i <= j
      <4>1. cnt(i) <= cnt(j) /\ j \in 0..n - 1 /\ cnt(i) \in Nat /\ cnt(j) \in Nat
        BY <2>2, <3>2, <1>4
      <4> QED BY <4>1, <1>3
    <3> QED BY <3>1, <3>2
  <2>3. Nat \subseteq T
    <3> HIDE DEF T
    <3> QED BY <2>1, <2>2, SetInduction
  <2> QED BY <2>3
<1>7. \A i, j \in stays : cnt(i) = cnt(j) => i = j
  <2>1. ASSUME NEW i \in stays, NEW j \in stays, i < j PROVE cnt(i) < cnt(j)
    <3>1. i \in 0..n /\ j - 1 \in 0..n /\ j - 1 \in 0..n - 1 /\ i <= j - 1 /\ (j - 1) + 1 = j
      BY <2>1, <1>1
    <3>2. cnt(i) <= cnt(j - 1)
      BY <3>1, <1>6
    <3>3. cnt(j) = cnt(j - 1) + 1 /\ cnt(j - 1) \in Nat /\ cnt(i) \in Nat
      BY <3>1, <1>3, <1>4
    <3> QED BY <3>2, <3>3
  <2>2. SUFFICES ASSUME NEW i \in stays, NEW j \in stays, cnt(i) = cnt(j), i # j PROVE FALSE
    OBVIOUS
  <2>3. i \in 1..n /\ j \in 1..n
    BY <1>1
  <2>4. i < j \/ j < i
    BY <2>2, <2>3
  <2>5. cnt(i) < cnt(j) \/ cnt(j) < cnt(i)
    BY <2>1, <2>4
  <2> QED BY <2>2, <2>3, <2>5, <1>4
<1>8. \A k \in 1..cnt(n) : nth(k) \in stays /\ cnt(nth(k)) = k
  <2> TAKE k \in 1..cnt(n)
  <2>1. \E i \in stays : cnt(i) = k
    BY <1>5
  <2> QED BY <2>1
<1> HIDE DEF nth
<1>9. Without(s, S) \in [1..cnt(n) -> ArrHeld]
  BY <1>1, <1>2, <1>8
<1>10. ASSUME NEW m \in 0..n - 1, s[m + 1] \notin S PROVE Without(s, S)[cnt(m + 1)] = s[m + 1]
  <2>1. m + 1 \in stays /\ m + 1 \in 0..n /\ m \in 0..n /\ n \in 0..n
    BY <1>1, <1>10
  <2>2. cnt(m + 1) \in 1..cnt(n)
    <3>1. cnt(m + 1) = cnt(m) + 1 /\ cnt(m) \in Nat /\ cnt(n) \in Nat
      BY <2>1, <1>3, <1>4
    <3>2. cnt(m + 1) <= cnt(n)
      BY <2>1, <1>6
    <3> QED BY <3>1, <3>2
  <2>3. nth(cnt(m + 1)) = m + 1
    BY <2>1, <2>2, <1>7, <1>8
  <2> QED BY <2>2, <2>3, <1>2
<1> QED BY <1>9, <1>10 DEF cnt, KeepsStaying

\* remove_if leaves in front what stays, and what the other slots had.
LEMMA KeptIs ==
  ASSUME NEW c \in Nat, NEW d \in Data(c), NEW size \in 0..c, NEW S, NEW s \in [1..size -> ArrHeld],
         \A i \in 1..size : s[i] = d[i - 1]
  PROVE  /\ Kept(d, size, S).data \in Data(c)
         /\ Kept(d, size, S).removed = size - Staying(s, S, size)
         /\ \A k \in 1..Staying(s, S, size) : Without(s, S)[k] = Kept(d, size, S).data[k - 1]
<1> DEFINE w == Without(s, S)
           cnt(n) == Staying(s, S, n)
           slots(n) == [j \in 0..c - 1 |-> IF j < cnt(n) THEN w[j + 1] ELSE d[j]]
           step(n, x) == IF x.data[n - 1] \in S THEN [data |-> x.data, removed |-> x.removed + 1]
                         ELSE [data |-> [x.data EXCEPT ![n - 1 - x.removed] = x.data[n - 1]],
                               removed |-> x.removed]
           F(f) == [n \in 0..size |-> IF n = 0 THEN [data |-> d, removed |-> 0] ELSE step(n, f[n - 1])]
           g == [n \in 0..size |-> [data |-> slots(n), removed |-> n - cnt(n)]]
           M == CHOOSE f : f = F(f)
<1>0. size \in Nat
  OBVIOUS
<1>1. /\ cnt(0) = 0
      /\ \A n \in 0..size - 1 : cnt(n + 1) = cnt(n) + (IF s[n + 1] \in S THEN 0 ELSE 1)
      /\ \A n \in 0..size : cnt(n) \in 0..n
  <2>1. CountsStaying(s, S, size)
    BY <1>0, StayingCounts
  <2> QED BY <2>1 DEF CountsStaying
<1>2. w \in [1..cnt(size) -> ArrHeld] /\ \A n \in 0..size - 1 : s[n + 1] \notin S => w[cnt(n + 1)] = s[n + 1]
  <2>1. KeepsStaying(w, s, S, size)
    BY <1>0, WithoutIs
  <2> QED BY <2>1 DEF KeepsStaying
<1>3. Kept(d, size, S) = M[size]
  BY DEF Kept
<1> HIDE DEF w, cnt
<1>4. ASSUME NEW n \in 0..size PROVE g[n] = F(g)[n]
  <2>1. CASE n = 0
    <3>1. slots(0) = d
      BY <1>1 DEF Data
    <3> QED BY <2>1, <3>1, <1>1
  <2>2. CASE n # 0
    <3> DEFINE p == cnt(n - 1)
    <3>1. /\ n - 1 \in 0..size /\ n - 1 \in 0..size - 1 /\ (n - 1) + 1 = n /\ n \in 1..size /\ n - 1 \in 0..c - 1
          /\ p \in 0..n - 1 /\ p \in 0..c - 1
      <4>1. /\ n - 1 \in 0..size /\ n - 1 \in 0..size - 1 /\ (n - 1) + 1 = n /\ n \in 1..size
            /\ n - 1 \in 0..c - 1
        BY <2>2
      <4>2. p \in 0..n - 1
        BY <1>1, <4>1
      <4> HIDE DEF p
      <4> QED BY <4>1, <4>2
    <3>2. g[n - 1] = [data |-> slots(n - 1), removed |-> (n - 1) - p]
      BY <3>1
    <3>3. slots(n - 1)[n - 1] = d[n - 1] /\ d[n - 1] = s[n]
      BY <3>1
    <3>4. g[n] = [data |-> slots(n), removed |-> n - cnt(n)]
      OBVIOUS
    <3>5. cnt(n) = p + (IF s[n] \in S THEN 0 ELSE 1)
      BY <3>1, <1>1
    <3>6. CASE s[n] \in S
      <4>0. cnt(n) = p /\ slots(n) = slots(n - 1)
        BY <3>1, <3>5, <3>6
      <4>1. cnt(n) = p /\ slots(n) = slots(n - 1) /\ n - cnt(n) = ((n - 1) - p) + 1
        <5> HIDE DEF p, slots
        <5> QED BY <3>1, <4>0
      <4>2. step(n, g[n - 1]) = [data |-> slots(n - 1), removed |-> ((n - 1) - p) + 1]
        <5> HIDE DEF g, slots, p
        <5> QED BY <3>2, <3>3, <3>6
      <4>3. step(n, g[n - 1]) = g[n]
        <5> HIDE DEF g, slots, step
        <5> QED BY <4>1, <4>2, <3>4
      <4> QED BY <4>3, <2>2
    <3>7. CASE s[n] \notin S
      <4>1. cnt(n) = p + 1 /\ n - cnt(n) = (n - 1) - p /\ (n - 1) - ((n - 1) - p) = p
        <5> HIDE DEF p
        <5> QED BY <3>1, <3>5, <3>7
      <4>2. step(n, g[n - 1]) = [data |-> [slots(n - 1) EXCEPT ![p] = s[n]], removed |-> (n - 1) - p]
        <5> HIDE DEF g, slots, p
        <5> QED BY <3>2, <3>3, <3>7, <4>1
      <4>3. w[p + 1] = s[n]
        BY <3>1, <3>7, <4>1, <1>2
      <4>4. slots(n) = [j \in 0..c - 1 |-> IF j < p + 1 THEN w[j + 1] ELSE d[j]]
        BY <4>1
      <4>5. [slots(n - 1) EXCEPT ![p] = s[n]] = [j \in 0..c - 1 |-> IF j = p THEN s[n] ELSE IF j < p THEN w[j + 1] ELSE d[j]]
        OBVIOUS
      <4>6. \A j \in 0..c - 1 : (IF j = p THEN s[n] ELSE IF j < p THEN w[j + 1] ELSE d[j])
                              = IF j < p + 1 THEN w[j + 1] ELSE d[j]
        <5> HIDE DEF p
        <5> QED BY <3>1, <4>3
      <4>7. slots(n) = [slots(n - 1) EXCEPT ![p] = s[n]]
        <5> HIDE DEF slots, p
        <5> QED BY <4>4, <4>5, <4>6
      <4>8. step(n, g[n - 1]) = g[n]
        <5> HIDE DEF g, slots, step
        <5> QED BY <4>1, <4>2, <4>7, <3>4
      <4> QED BY <4>8, <2>2
    <3> QED BY <3>6, <3>7
  <2> QED BY <2>1, <2>2
<1>5. M = F(M)
  <2>1. g = F(g)
    BY <1>4
  <2> HIDE DEF F, g
  <2> QED BY <2>1
<1> DEFINE T == {n \in Nat : n <= size => M[n] = g[n]}
<1> HIDE DEF g, M, step
<1>6. 0 \in T
  BY <1>0, <1>4, <1>5
<1>7. ASSUME NEW n \in Nat, n \in T PROVE n + 1 \in T
  <2> SUFFICES ASSUME n + 1 <= size PROVE M[n + 1] = g[n + 1]
    OBVIOUS
  <2>1. M[n] = g[n] /\ n + 1 \in 0..size /\ n + 1 # 0 /\ (n + 1) - 1 = n
    BY <1>0, <1>7
  <2>2. M[n + 1] = step(n + 1, M[n]) /\ g[n + 1] = step(n + 1, g[n])
    BY <1>4, <1>5, <2>1
  <2> QED BY <2>1, <2>2
<1>8. M[size] = g[size]
  <2>1. Nat \subseteq T
    <3> HIDE DEF T
    <3> QED BY <1>6, <1>7, SetInduction
  <2> QED BY <2>1, <1>0
<1>9. Kept(d, size, S) = [data |-> slots(size), removed |-> size - cnt(size)]
  BY <1>0, <1>3, <1>8 DEF g
<1>10. slots(size) \in Data(c)
  <2>1. \A j \in 0..c - 1 : (IF j < cnt(size) THEN w[j + 1] ELSE d[j]) \in ArrHeld
    <3> TAKE j \in 0..c - 1
    <3>1. d[j] \in ArrHeld /\ cnt(size) \in Nat
      BY <1>0, <1>1 DEF Data
    <3>2. j < cnt(size) => j + 1 \in 1..cnt(size)
      BY <3>1
    <3> QED BY <3>1, <3>2, <1>2
  <2> QED BY <2>1 DEF Data
<1>11. \A k \in 1..cnt(size) : w[k] = slots(size)[k - 1]
  BY <1>0, <1>1
<1>12. Kept(d, size, S).data = slots(size) /\ Kept(d, size, S).removed = size - cnt(size)
  <2> HIDE DEF slots
  <2> QED BY <1>9
<1> HIDE DEF slots
<1> QED BY <1>10, <1>11, <1>12 DEF cnt, w

\* A buffer of c slots holds n items in its first slots.
ArrOK(d, c, n, items) ==
  /\ c \in Nat /\ d \in Data(c) /\ n \in 0..c
  /\ items \in [1..n -> ArrHeld] /\ \A k \in 1..n : items[k] = d[k - 1]

\* An array of no items is right whatever its slots hold.
LEMMA EmptyOK ==
  ASSUME NEW c \in Nat, NEW d \in Data(c)
  PROVE  ArrOK(d, c, 0, <<>>)
<1>1. <<>> \in [1..0 -> ArrHeld]
  BY SequenceIs, EmptySeq
<1> QED BY <1>1 DEF ArrOK

\* So is one just allocated.
LEMMA AllocatedOK ==
  ASSUME NEW c \in Nat
  PROVE  Allocated(c) \in Data(c)
BY DEF Allocated, Data, ArrHeld

\* A reallocation keeps the items and gives the room asked for.
LEMMA ReserveOK ==
  ASSUME NEW d, NEW c, NEW n, NEW items, ArrOK(d, c, n, items), NEW total \in Nat
  PROVE  \E k \in Nat : k >= total /\ ArrOK(Reserved(d, total), k, n, items)
<1>1. c \in Nat /\ d \in Data(c)
  BY DEF ArrOK
<1>2. PICK k \in Nat : /\ k >= c /\ k >= total /\ Reserved(d, total) \in Data(k)
                       /\ \A j \in 0..c - 1 : Reserved(d, total)[j] = d[j]
  BY <1>1, ReservedKeeps
<1>3. ArrOK(Reserved(d, total), k, n, items)
  BY <1>2 DEF ArrOK
<1> QED BY <1>2, <1>3

\* Items written behind the last one.
LEMMA WriteOK ==
  ASSUME NEW d, NEW c, NEW n, NEW items, ArrOK(d, c, n, items), NEW s \in Seq(ArrHeld), n + Len(s) <= c
  PROVE  ArrOK(Written(d, n, s), c, n + Len(s), items \o s)
<1>1. c \in Nat /\ d \in Data(c) /\ n \in Nat /\ n <= c /\ Len(s) \in Nat
  BY LenProperties DEF ArrOK
<1>2. items \in Seq(ArrHeld) /\ Len(items) = n /\ \A k \in 1..n : items[k] = d[k - 1]
  <2>1. items \in [1..n -> ArrHeld]
    BY DEF ArrOK
  <2> QED BY <1>1, <2>1, SequenceIs DEF ArrOK
<1>3. /\ Written(d, n, s) \in Data(c)
      /\ \A j \in 0..c - 1 : Written(d, n, s)[j] = IF n <= j /\ j < n + Len(s) THEN s[j - n + 1] ELSE d[j]
  BY <1>1, WrittenIs
<1>4. /\ items \o s \in Seq(ArrHeld) /\ Len(items \o s) = n + Len(s)
      /\ \A k \in 1..n + Len(s) : (items \o s)[k] = IF k <= n THEN items[k] ELSE s[k - n]
  BY <1>2, ConcatProperties
<1>5. items \o s \in [1..n + Len(s) -> ArrHeld]
  BY <1>1, <1>4, LenProperties
<1>6. ASSUME NEW k \in 1..n + Len(s) PROVE (items \o s)[k] = Written(d, n, s)[k - 1]
  <2>1. k - 1 \in 0..c - 1 /\ (k - 1) - n + 1 = k - n
    BY <1>1
  <2>2. CASE k <= n
    <3>1. ~(n <= k - 1) /\ k \in 1..n
      BY <1>1, <2>2
    <3>2. (items \o s)[k] = items[k]
      BY <1>4, <2>2
    <3>3. Written(d, n, s)[k - 1] = d[k - 1]
      BY <1>3, <2>1, <3>1
    <3> QED BY <1>2, <3>1, <3>2, <3>3
  <2>3. CASE ~(k <= n)
    <3>1. n <= k - 1 /\ k - 1 < n + Len(s)
      BY <1>1, <2>3
    <3> QED BY <1>3, <1>4, <2>1, <2>3, <3>1
  <2> QED BY <2>2, <2>3
<1> QED BY <1>1, <1>3, <1>5, <1>6 DEF ArrOK

\* insert at the end.
LEMMA AppendOK ==
  ASSUME NEW d, NEW c, NEW n, NEW items, ArrOK(d, c, n, items), NEW x \in ArrHeld, n < c
  PROVE  ArrOK([d EXCEPT ![n] = x], c, n + 1, Append(items, x))
<1>1. c \in Nat /\ d \in [0..c - 1 -> ArrHeld] /\ n \in Nat /\ n <= c
  BY DEF ArrOK, Data
<1>2. items \in Seq(ArrHeld) /\ Len(items) = n /\ \A k \in 1..n : items[k] = d[k - 1]
  <2>1. items \in [1..n -> ArrHeld]
    BY DEF ArrOK
  <2> QED BY <1>1, <2>1, SequenceIs DEF ArrOK
<1>3. /\ Append(items, x) \in Seq(ArrHeld) /\ Len(Append(items, x)) = n + 1
      /\ Append(items, x)[n + 1] = x /\ \A k \in 1..n : Append(items, x)[k] = items[k]
  BY <1>2, AppendProperties
<1>4. Append(items, x) \in [1..n + 1 -> ArrHeld]
  BY <1>1, <1>3, LenProperties
<1>5. \A k \in 1..n + 1 : Append(items, x)[k] = [d EXCEPT ![n] = x][k - 1]
  BY <1>1, <1>2, <1>3
<1>6. [d EXCEPT ![n] = x] \in [0..c - 1 -> ArrHeld]
  BY <1>1
<1> QED BY <1>1, <1>4, <1>5, <1>6 DEF ArrOK, Data

\* insert_at: the slots from i on moved up by one, and the item put there.
LEMMA InsertAtOK ==
  ASSUME NEW d, NEW c, NEW n, NEW items, ArrOK(d, c, n, items), NEW x \in ArrHeld, n < c, NEW i \in 0..n
  PROVE  ArrOK([MovedUp(d, i, n + 1) EXCEPT ![i] = x], c, n + 1, InsertAt(items, i + 1, x))
<1> DEFINE u == MovedUp(d, i, n + 1)
           w == InsertAt(items, i + 1, x)
<1>1. c \in Nat /\ d \in Data(c) /\ n \in Nat /\ n <= c /\ items \in [1..n -> ArrHeld]
      /\ \A k \in 1..n : items[k] = d[k - 1]
  BY DEF ArrOK
<1>2. /\ u \in Data(c)
      /\ \A j \in 0..c - 1 : u[j] = IF i < j /\ j < n + 1 THEN d[j - 1] ELSE d[j]
  BY <1>1, MovedUpIs
<1>3. w = [k \in 1..n + 1 |-> IF k < i + 1 THEN items[k] ELSE IF k = i + 1 THEN x ELSE items[k - 1]]
  <2>1. i + 1 \in 1..n + 1
    BY <1>1
  <2> HIDE DEF u
  <2>2. n \in Nat /\ items \in [1..n -> ArrHeld]
    BY <1>1
  <2>3. PICK at \in 1..n + 1 : at = i + 1
    BY <2>1
  <2>4. InsertAt(items, at, x) = [k \in 1..n + 1 |-> IF k < at THEN items[k] ELSE IF k = at THEN x ELSE items[k - 1]]
    <3>1. HasItems(items, n)
      BY <2>2 DEF HasItems
    <3> QED BY <2>2, <3>1, InsertAtIs
  <2> QED BY <2>3, <2>4
<1> HIDE DEF u, w
<1>4. [u EXCEPT ![i] = x] \in Data(c)
  BY <1>2 DEF Data
<1>5. \A j \in 0..c - 1 : [u EXCEPT ![i] = x][j] = IF j = i THEN x ELSE u[j]
  BY <1>2 DEF Data
<1>6. w \in [1..n + 1 -> ArrHeld]
  BY <1>1, <1>3
<1>7. ASSUME NEW k \in 1..n + 1 PROVE w[k] = [u EXCEPT ![i] = x][k - 1]
  <2>0. k - 1 \in 0..c - 1
    BY <1>1
  <2>1. CASE k < i + 1
    <3>1. w[k] = items[k] /\ items[k] = d[k - 1]
      BY <1>1, <1>3, <2>1
    <3>2. u[k - 1] = d[k - 1]
      BY <1>2, <2>0, <2>1
    <3>3. k - 1 # i
      BY <2>1
    <3> QED BY <1>5, <2>0, <3>1, <3>2, <3>3
  <2>2. CASE k = i + 1
    BY <1>3, <1>5, <2>0, <2>2
  <2>3. CASE k > i + 1
    <3>1. w[k] = items[k - 1]
      BY <1>3, <2>3
    <3>2. items[k - 1] = d[(k - 1) - 1]
      BY <1>1, <2>3
    <3>3. u[k - 1] = d[(k - 1) - 1]
      <4>1. i < k - 1 /\ k - 1 < n + 1
        BY <2>3, <1>1
      <4> QED BY <1>2, <2>0, <4>1
    <3>4. k - 1 # i
      BY <2>3
    <3> QED BY <1>5, <2>0, <3>1, <3>2, <3>3, <3>4
  <2>4. k < i + 1 \/ k = i + 1 \/ k > i + 1
    OBVIOUS
  <2> QED BY <2>1, <2>2, <2>3, <2>4
<1>8. n + 1 \in 0..c
  BY <1>1
<1> QED BY <1>1, <1>4, <1>6, <1>7, <1>8 DEF ArrOK, u, w

\* remove_at: the slots behind i moved down by one.
LEMMA RemoveAtOK ==
  ASSUME NEW d, NEW c, NEW n, NEW items, ArrOK(d, c, n, items), NEW i \in 0..n - 1
  PROVE  ArrOK(MovedDown(d, i, n), c, n - 1, RemoveAt(items, i + 1))
<1> DEFINE u == MovedDown(d, i, n)
           w == RemoveAt(items, i + 1)
<1>1. c \in Nat /\ d \in Data(c) /\ n \in Nat /\ n <= c /\ items \in [1..n -> ArrHeld]
      /\ \A k \in 1..n : items[k] = d[k - 1]
  BY DEF ArrOK
<1>2. /\ u \in Data(c)
      /\ \A j \in 0..c - 1 : u[j] = IF i <= j /\ j < n - 1 THEN d[j + 1] ELSE d[j]
  BY <1>1, MovedDownIs
<1>3. w = [k \in 1..n - 1 |-> IF k < i + 1 THEN items[k] ELSE items[k + 1]]
  <2>1. HasItems(items, n)
    BY <1>1 DEF HasItems
  <2>2. PICK at \in 1..n : at = i + 1
    BY <1>1
  <2>3. RemoveAt(items, at) = [k \in 1..n - 1 |-> IF k < at THEN items[k] ELSE items[k + 1]]
    BY <1>1, <2>1, RemoveAtIs
  <2> QED BY <2>2, <2>3
<1> HIDE DEF u, w
<1>6. w \in [1..n - 1 -> ArrHeld]
  BY <1>1, <1>3
<1>7. ASSUME NEW k \in 1..n - 1 PROVE w[k] = u[k - 1]
  <2>0. k - 1 \in 0..c - 1
    BY <1>1
  <2>1. CASE k < i + 1
    BY <1>1, <1>2, <1>3, <2>0, <2>1
  <2>2. CASE ~(k < i + 1)
    <3>1. w[k] = items[k + 1]
      BY <1>3, <2>2
    <3>2. items[k + 1] = d[(k + 1) - 1]
      BY <1>1
    <3>3. u[k - 1] = d[(k - 1) + 1]
      <4>1. i <= k - 1 /\ k - 1 < n - 1
        BY <2>2, <1>1
      <4> QED BY <1>2, <2>0, <4>1
    <3>4. (k + 1) - 1 = (k - 1) + 1
      OBVIOUS
    <3> QED BY <3>1, <3>2, <3>3, <3>4
  <2> QED BY <2>1, <2>2
<1>8. n - 1 \in 0..c
  BY <1>1
<1> QED BY <1>1, <1>2, <1>6, <1>7, <1>8 DEF ArrOK, u, w

\* remove_if: the slots that stay moved down over the others.
LEMMA RemoveIfOK ==
  ASSUME NEW d, NEW c, NEW n, NEW items, ArrOK(d, c, n, items), NEW S
  PROVE  ArrOK(Kept(d, n, S).data, c, n - Kept(d, n, S).removed, Without(items, S))
<1> DEFINE m == Staying(items, S, n)
           w == Without(items, S)
           u == Kept(d, n, S).data
<1>1. c \in Nat /\ d \in Data(c) /\ n \in 0..c /\ n \in Nat /\ items \in [1..n -> ArrHeld]
      /\ \A k \in 1..n : items[k] = d[k - 1]
  BY DEF ArrOK
<1>2. /\ u \in Data(c) /\ Kept(d, n, S).removed = n - m
      /\ \A k \in 1..m : w[k] = u[k - 1]
  <2>1. c \in Nat /\ d \in Data(c) /\ n \in 0..c /\ items \in [1..n -> ArrHeld]
        /\ \A k \in 1..n : items[k] = d[k - 1]
    BY <1>1
  <2> HIDE DEF m, w, u
  <2>2. /\ Kept(d, n, S).data \in Data(c)
        /\ Kept(d, n, S).removed = n - Staying(items, S, n)
        /\ \A k \in 1..Staying(items, S, n) : Without(items, S)[k] = Kept(d, n, S).data[k - 1]
    BY ONLY <2>1, KeptIs
  <2> QED BY <2>2 DEF m, w, u
<1>3. KeepsStaying(w, items, S, n)
  BY <1>1, WithoutIs
<1>4. CountsStaying(items, S, n)
  BY <1>1, StayingCounts
<1>5. m \in 0..n
  BY <1>1, <1>4 DEF CountsStaying
<1>6. w \in [1..m -> ArrHeld]
  BY <1>3 DEF KeepsStaying
<1>7. n - (n - m) = m
  BY <1>1, <1>5
<1> HIDE DEF m, w, u
<1>8. ArrOK(u, c, m, w)
  BY <1>1, <1>2, <1>5, <1>6 DEF ArrOK
<1> QED BY <1>2, <1>7, <1>8 DEF m, w, u

DataReplaced(d, n, a, b) == [i \in DOMAIN d |-> IF i < n /\ d[i] = a THEN b ELSE d[i]]
ItemsReplaced(items, a, b) == [i \in DOMAIN items |-> IF items[i] = a THEN b ELSE items[i]]

\* replace_a_b: every a is a b afterwards.
LEMMA ReplaceOK ==
  ASSUME NEW d, NEW c, NEW n, NEW items, ArrOK(d, c, n, items), NEW a, NEW b \in ArrHeld
  PROVE  ArrOK(DataReplaced(d, n, a, b), c, n, ItemsReplaced(items, a, b))
<1> DEFINE u == DataReplaced(d, n, a, b)
           w == ItemsReplaced(items, a, b)
<1>1. c \in Nat /\ d \in [0..c - 1 -> ArrHeld] /\ n \in 0..c /\ items \in [1..n -> ArrHeld]
      /\ \A k \in 1..n : items[k] = d[k - 1]
  BY DEF ArrOK, Data
<1>2. u \in [0..c - 1 -> ArrHeld] /\ w \in [1..n -> ArrHeld]
  BY <1>1 DEF DataReplaced, ItemsReplaced
<1>3. ASSUME NEW k \in 1..n PROVE w[k] = u[k - 1]
  <2>1. k - 1 \in 0..c - 1 /\ k - 1 < n
    BY <1>1
  <2>2. items[k] = d[k - 1]
    BY <1>1
  <2> QED BY <1>1, <2>1, <2>2 DEF DataReplaced, ItemsReplaced
<1> HIDE DEF u, w
<1>4. ArrOK(u, c, n, w)
  BY <1>1, <1>2, <1>3 DEF ArrOK, Data
<1> QED BY <1>4 DEF u, w

\* A buffer made smaller or larger keeps the items when it has room for them.
LEMMA ResizeOK ==
  ASSUME NEW d, NEW c, NEW n, NEW items, ArrOK(d, c, n, items), NEW k \in Nat, n <= k
  PROVE  ArrOK(Resize(d, k), k, n, items)
<1> DEFINE u == Resize(d, k)
<1>1. c \in Nat /\ d \in [0..c - 1 -> ArrHeld] /\ n \in 0..c /\ items \in [1..n -> ArrHeld]
      /\ \A i \in 1..n : items[i] = d[i - 1]
  BY DEF ArrOK, Data
<1>2. u \in [0..k - 1 -> ArrHeld]
  BY <1>1 DEF Resize, ArrHeld
<1>3. ASSUME NEW i \in 1..n PROVE u[i - 1] = d[i - 1]
  BY <1>1 DEF Resize
<1> HIDE DEF u
<1>4. ArrOK(u, k, n, items)
  BY <1>1, <1>2, <1>3 DEF ArrOK, Data
<1> QED BY <1>4 DEF u

\* pop and pop_n: the last items are dropped.
LEMMA PopOK ==
  ASSUME NEW d, NEW c, NEW n, NEW items, ArrOK(d, c, n, items), NEW m \in 0..n
  PROVE  ArrOK(d, c, n - m, SubSeq(items, 1, Len(items) - m))
<1>1. c \in Nat /\ d \in Data(c) /\ n \in 0..c /\ n \in Nat /\ items \in [1..n -> ArrHeld]
      /\ \A i \in 1..n : items[i] = d[i - 1]
  BY DEF ArrOK
<1>2. Len(items) = n
  BY <1>1, SequenceIs
<1>3. SubSeq(items, 1, n - m) = [i \in 1..n - m |-> items[i]]
  <2>1. \A j \in 1..n - m : items[j] \in ArrHeld
    BY <1>1
  <2>2. /\ SubSeq(items, 1, n - m) \in Seq(ArrHeld)
        /\ Len(SubSeq(items, 1, n - m)) = n - m
        /\ \A i \in 1..n - m : SubSeq(items, 1, n - m)[i] = items[i]
    BY <1>1, <2>1, SubSeqProperties
  <2>3. SubSeq(items, 1, n - m) \in [1..n - m -> ArrHeld]
    BY <2>2, LenProperties
  <2> QED BY <2>2, <2>3
<1> DEFINE w == SubSeq(items, 1, n - m)
<1> HIDE DEF w
<1>4. w = [i \in 1..n - m |-> items[i]]
  BY <1>3 DEF w
<1>5. w \in [1..n - m -> ArrHeld] /\ \A i \in 1..n - m : w[i] = d[i - 1]
  BY <1>1, <1>4
<1>6. ArrOK(d, c, n - m, w)
  BY <1>1, <1>5 DEF ArrOK
<1> QED BY <1>2, <1>6 DEF w

\* reverse_array.
LEMMA ReverseOK ==
  ASSUME NEW d, NEW c, NEW n, NEW items, ArrOK(d, c, n, items)
  PROVE  ArrOK(Reversed(d, n), c, n, Reverse(items))
<1> DEFINE u == Reversed(d, n)
           w == Reverse(items)
<1>1. c \in Nat /\ d \in Data(c) /\ n \in 0..c /\ n \in Nat /\ items \in [1..n -> ArrHeld]
      /\ \A i \in 1..n : items[i] = d[i - 1]
  BY DEF ArrOK
<1>2. Len(items) = n
  BY <1>1, SequenceIs
<1>3. w = [i \in 1..n |-> items[(n - i) + 1]]
  BY <1>2 DEF Reverse
<1>4. u \in Data(c) /\ \A j \in 0..c - 1 : u[j] = IF j < n THEN d[n - 1 - j] ELSE d[j]
  BY <1>1, ReversedIs
<1> HIDE DEF u, w
<1>5. w \in [1..n -> ArrHeld]
  BY <1>1, <1>3
<1>6. ASSUME NEW k \in 1..n PROVE w[k] = u[k - 1]
  <2>1. k - 1 \in 0..c - 1 /\ k - 1 < n /\ n - 1 - (k - 1) = n - k /\ (n - k) + 1 \in 1..n
        /\ ((n - k) + 1) - 1 = n - k
    BY <1>1
  <2>2. u[k - 1] = d[n - k]
    BY <1>4, <2>1
  <2>3. items[(n - k) + 1] = d[n - k]
    BY <1>1, <2>1
  <2> QED BY <1>3, <2>2, <2>3
<1>7. ArrOK(u, c, n, w)
  BY <1>1, <1>4, <1>5, <1>6 DEF ArrOK
<1> QED BY <1>7 DEF u, w

ArrHolds(kind, d, c, n, items) ==
  /\ ArrOK(d, c, n, items)
  /\ kind \in {"Array", "ArrayMax", "OwnedArr"}
  /\ kind = "ArrayMax" => c = ArrMaxCapacity
  /\ kind = "OwnedArr" => c = n

ArrInv == \E c \in 0..ArrMaxCapacity : ArrHolds(arrKind, arrData, c, arrSize, arrItems)

\* What every operation of an Array or an ArrayMax ends with.
LEMMA ArrSetKeeps ==
  ASSUME arrKind \in {"Array", "ArrayMax"}, NEW data, NEW size, NEW items, NEW k \in Nat,
         ArrOK(data, k, size, items), arrKind = "ArrayMax" => k = ArrMaxCapacity,
         ArrSet(data, size, items)
  PROVE  ArrInv'
<1>1. SizeOfData(data) = k
  BY DataSize DEF ArrOK, Data
<1>2. k \in 0..ArrMaxCapacity
  BY <1>1, ArraysAssumption DEF ArrSet
<1>3. ArrHolds(arrKind', arrData', k, arrSize', arrItems')
  BY DEF ArrSet, ArrHolds
<1> QED BY <1>2, <1>3 DEF ArrInv

\* concat: room is made and the items are written behind those there are.
LEMMA ConcatKeeps ==
  ASSUME ArrInv, arrKind = "Array", NEW s \in Seq(ArrHeld), NEW n \in Nat, n = Len(s),
         ArrSet(Written(Reserved(arrData, arrSize + n), arrSize, s), arrSize + n, arrItems \o s)
  PROVE  ArrInv'
<1>1. PICK c \in 0..ArrMaxCapacity : ArrHolds(arrKind, arrData, c, arrSize, arrItems)
  BY DEF ArrInv
<1>2. ArrOK(arrData, c, arrSize, arrItems) /\ arrSize \in Nat /\ c \in Nat
  BY <1>1 DEF ArrHolds, ArrOK
<1>3. arrSize + n \in Nat
  BY <1>2
<1>4. PICK k \in Nat : k >= arrSize + n /\ ArrOK(Reserved(arrData, arrSize + n), k, arrSize, arrItems)
  BY <1>2, <1>3, ReserveOK
<1>5. arrSize + Len(s) <= k
  BY <1>2, <1>4
<1>6. ArrOK(Written(Reserved(arrData, arrSize + n), arrSize, s), k, arrSize + Len(s), arrItems \o s)
  BY <1>4, <1>5, WriteOK
<1> QED BY <1>4, <1>6, ArrSetKeeps

\* Every operation of an Array keeps its invariant.
LEMMA ArrNextKeeps ==
  ASSUME ArrInv, ArrNext
  PROVE  ArrInv'
<1>1. PICK c \in 0..ArrMaxCapacity : ArrHolds(arrKind, arrData, c, arrSize, arrItems)
  BY DEF ArrInv
<1>2. /\ ArrOK(arrData, c, arrSize, arrItems) /\ c \in Nat /\ arrKind = "Array"
      /\ arrSize \in 0..c /\ arrSize \in Nat /\ arrItems \in [1..arrSize -> ArrHeld] /\ arrData \in Data(c)
  BY <1>1 DEF ArrHolds, ArrOK, ArrNext
<1>3. Elems \subseteq ArrHeld /\ DefaultElem \in ArrHeld
  BY DEF ArrHeld
<1>4. arrItems \in Seq(ArrHeld) /\ Len(arrItems) = arrSize
  BY <1>2, SequenceIs
<1>5. ASSUME NEW s \in Seq(ArrHeld), ArrConcat(s) PROVE ArrInv'
  <2>1. Len(s) \in Nat
    BY LenProperties
  <2> QED BY <1>2, <1>5, <2>1, ConcatKeeps DEF ArrConcat
<1>6. \A x \in ArrHeld : <<x>> \in Seq(ArrHeld)
  OBVIOUS
<1>7. \A a, b \in ArrHeld : <<a, b>> \in Seq(ArrHeld) /\ <<a, b>> \in [1..2 -> ArrHeld] /\ Len(<<a, b>>) = 2
  OBVIOUS
<1>8. ASSUME NEW x \in Elems, ArrInsert(x) PROVE ArrInv'
  BY <1>3, <1>5, <1>6, <1>8 DEF ArrInsert
<1>9. ASSUME NEW x \in Elems, NEW i \in 0..arrSize, ArrInsertAt(i, x) PROVE ArrInv'
  <2>1. PICK k \in Nat : k >= arrSize + 1 /\ ArrOK(Reserved(arrData, arrSize + 1), k, arrSize, arrItems)
    <3>1. arrSize + 1 \in Nat
      BY <1>2
    <3> QED BY <1>2, <3>1, ReserveOK
  <2>2. arrSize < k /\ x \in ArrHeld
    BY <1>2, <1>3, <2>1
  <2>3. ArrOK([MovedUp(Reserved(arrData, arrSize + 1), i, arrSize + 1) EXCEPT ![i] = x], k, arrSize + 1,
              InsertAt(arrItems, i + 1, x))
    BY <2>1, <2>2, InsertAtOK
  <2> QED BY <1>2, <1>9, <2>3, ArrSetKeeps DEF ArrInsertAt
<1>10. ASSUME NEW a \in Elems, NEW b \in Elems, ArrConcat(<<a, b>>) PROVE ArrInv'
  BY <1>3, <1>5, <1>7, <1>10
<1>11. ASSUME NEW a \in Elems, NEW b \in Elems, ArrCombineUnique(<<a, b>>) PROVE ArrInv'
  <2>1. ArrConcat(Without(<<a, b>>, Range(Contents(arrData, arrSize))))
    BY <1>11 DEF ArrCombineUnique, Missing
  <2>2. <<a, b>> \in [1..2 -> ArrHeld]
    BY <1>3, <1>7
  <2> DEFINE there == Range(Contents(arrData, arrSize))
  <2> HIDE DEF there
  <2>3. KeepsStaying(Without(<<a, b>>, there), <<a, b>>, there, 2) /\ CountsStaying(<<a, b>>, there, 2)
    BY <2>2, WithoutIs, StayingCounts, 2 \in Nat
  <2>4. Staying(<<a, b>>, there, 2) \in Nat
    BY <2>3 DEF CountsStaying
  <2>5. Without(<<a, b>>, there) \in Seq(ArrHeld)
    BY <2>3, <2>4, SequenceIs DEF KeepsStaying
  <2> QED BY <1>5, <2>1, <2>5 DEF there
<1>12. ASSUME NEW a \in Elems, NEW b \in Elems, ArrReplace(a, b) PROVE ArrInv'
  <2>1. b \in ArrHeld
    BY <1>3
  <2>2. ArrSet(DataReplaced(arrData, arrSize, a, b), arrSize, ItemsReplaced(arrItems, a, b))
    BY <1>12 DEF ArrReplace, DataReplaced, ItemsReplaced
  <2>3. ArrOK(DataReplaced(arrData, arrSize, a, b), c, arrSize, ItemsReplaced(arrItems, a, b))
    BY <1>2, <2>1, ReplaceOK
  <2> QED BY <1>2, <2>2, <2>3, ArrSetKeeps
<1>13. ASSUME NEW a \in Elems, NEW b \in Elems, ArrCopyTo(<<a, b>>) PROVE ArrInv'
  <2> DEFINE s == <<a, b>>
  <2>1. s \in Seq(ArrHeld) /\ Len(s) = 2
    BY <1>3, <1>7
  <2>2. ArrSet(Written(Reserved(arrData, Len(s)), 0, s), Len(s), s)
    BY <1>13 DEF ArrCopyTo
  <2> HIDE DEF s
  <2>3. ArrOK(arrData, c, 0, <<>>)
    BY <1>2, EmptyOK
  <2>4. PICK k \in Nat : k >= 2 /\ ArrOK(Reserved(arrData, 2), k, 0, <<>>)
    BY <2>3, ReserveOK, 2 \in Nat
  <2>5. 0 + Len(s) <= k
    BY <2>1, <2>4
  <2>6. ArrOK(Written(Reserved(arrData, 2), 0, s), k, 0 + Len(s), <<>> \o s)
    BY <2>1, <2>4, <2>5, WriteOK
  <2>7. <<>> \o s = s /\ 0 + Len(s) = Len(s)
    BY <2>1, ConcatEmptySeq
  <2>8. ArrOK(Written(Reserved(arrData, Len(s)), 0, s), k, Len(s), s)
    BY <2>1, <2>6, <2>7
  <2> QED BY <1>2, <2>2, <2>4, <2>8, ArrSetKeeps
<1>14. ASSUME NEW i \in 0..arrSize - 1, ArrRemoveAt(i) PROVE ArrInv'
  BY <1>2, <1>14, RemoveAtOK, ArrSetKeeps DEF ArrRemoveAt
<1>15. ASSUME NEW S \in SUBSET Elems, ArrRemoveIf(S) PROVE ArrInv'
  <2>1. ArrOK(Kept(arrData, arrSize, S).data, c, arrSize - Kept(arrData, arrSize, S).removed, Without(arrItems, S))
    BY <1>2, RemoveIfOK
  <2>2. ArrSet(Kept(arrData, arrSize, S).data, arrSize - Kept(arrData, arrSize, S).removed, Without(arrItems, S))
    BY <1>15 DEF ArrRemoveIf
  <2> QED BY <1>2, <2>1, <2>2, ArrSetKeeps
<1>16. ASSUME NEW n \in 1..2, ArrInsertUninit(n) PROVE ArrInv'
  <2> DEFINE s == [i \in 1..n |-> DefaultElem]
  <2>1. s \in [1..n -> ArrHeld] /\ n \in Nat
    BY <1>3
  <2>2. ArrSet(Written(Reserved(arrData, arrSize + n), arrSize, s), arrSize + n, arrItems \o s)
    BY <1>16 DEF ArrInsertUninit
  <2> HIDE DEF s
  <2>3. s \in Seq(ArrHeld) /\ Len(s) = n
    BY <2>1, SequenceIs
  <2> QED BY <1>2, <2>1, <2>2, <2>3, ConcatKeeps
<1>17. ASSUME NEW n \in 0..arrSize, ArrPopN(n) PROVE ArrInv'
  BY <1>2, <1>17, PopOK, ArrSetKeeps DEF ArrPopN
<1>18. ASSUME NEW n \in 0..ArrMaxCapacity, ArrReserve(n) PROVE ArrInv'
  <2>1. PICK k \in Nat : k >= n /\ ArrOK(Reserved(arrData, n), k, arrSize, arrItems)
    BY <1>2, ReserveOK
  <2> QED BY <1>2, <1>18, <2>1, ArrSetKeeps DEF ArrReserve
<1>19. ASSUME ArrShrink PROVE ArrInv'
  <2>1. ArrOK(Resize(arrData, arrSize), arrSize, arrSize, arrItems)
    BY <1>2, ResizeOK
  <2> QED BY <1>2, <1>19, <2>1, ArrSetKeeps DEF ArrShrink
<1>20. ASSUME ArrReverse PROVE ArrInv'
  BY <1>2, <1>20, ReverseOK, ArrSetKeeps DEF ArrReverse
<1>21. ASSUME ArrFree PROVE ArrInv'
  <2>1. ArrOK(Allocated(0), 0, 0, <<>>)
    BY AllocatedOK, EmptyOK, 0 \in Nat
  <2> QED BY <1>2, <1>21, <2>1, ArrSetKeeps, 0 \in Nat DEF ArrFree
<1>22. ASSUME ArrBake PROVE ArrInv'
  <2>1. ArrOK(Resize(arrData, arrSize), arrSize, arrSize, arrItems)
    BY <1>2, ResizeOK
  <2>2. ArrHolds(arrKind', arrData', arrSize, arrSize', arrItems')
    BY <1>22, <2>1 DEF ArrBake, ArrHolds
  <2>3. arrSize \in 0..ArrMaxCapacity
    BY <1>1, <1>2, ArraysAssumption
  <2> QED BY <2>2, <2>3 DEF ArrInv
<1>23. /\ (\E x \in Elems : ArrInsert(x)) \/ (\E x \in Elems : \E i \in 0..arrSize : ArrInsertAt(i, x))
          \/ (\E a, b \in Elems : ArrConcat(<<a, b>>)) \/ (\E a, b \in Elems : ArrCombineUnique(<<a, b>>))
          \/ (\E a, b \in Elems : ArrReplace(a, b)) \/ (\E a, b \in Elems : ArrCopyTo(<<a, b>>))
          \/ (\E i \in 0..arrSize - 1 : ArrRemoveAt(i))
          \/ (\E S \in SUBSET Elems : ArrRemoveIf(S))
          \/ (\E n \in 1..2 : ArrInsertUninit(n))
          \/ (\E n \in 0..arrSize : ArrPopN(n))
          \/ (\E n \in 0..ArrMaxCapacity : ArrReserve(n))
          \/ ArrShrink \/ ArrReverse \/ ArrFree \/ ArrBake
  BY DEF ArrNext
<1> QED BY <1>8, <1>9, <1>10, <1>11, <1>12, <1>13, <1>14, <1>15, <1>16, <1>17, <1>18, <1>19, <1>20,
           <1>21, <1>22, <1>23

\* Every operation of an ArrayMax does.
LEMMA MaxNextKeeps ==
  ASSUME ArrInv, MaxNext
  PROVE  ArrInv'
<1>1. PICK c \in 0..ArrMaxCapacity : ArrHolds(arrKind, arrData, c, arrSize, arrItems)
  BY DEF ArrInv
<1>2. /\ ArrOK(arrData, c, arrSize, arrItems) /\ c \in Nat /\ arrKind = "ArrayMax" /\ c = ArrMaxCapacity
      /\ arrSize \in 0..c /\ arrSize \in Nat /\ arrItems \in [1..arrSize -> ArrHeld] /\ arrData \in Data(c)
  BY <1>1 DEF ArrHolds, ArrOK, MaxNext
<1>3. Elems \subseteq ArrHeld /\ DefaultElem \in ArrHeld
  BY DEF ArrHeld
<1>4. SizeOfData(arrData) = c
  BY <1>2, DataSize DEF Data
<1>5. ASSUME NEW x \in Elems, MaxInsert(x) PROVE ArrInv'
  <2>1. arrSize < c /\ x \in ArrHeld
    BY <1>3, <1>4, <1>5 DEF MaxInsert
  <2> QED BY <1>2, <1>5, <2>1, AppendOK, ArrSetKeeps DEF MaxInsert
<1>6. ASSUME NEW n \in 1..2, MaxInsertUninit(n) PROVE ArrInv'
  <2> DEFINE s == [i \in 1..n |-> DefaultElem]
  <2>1. s \in [1..n -> ArrHeld] /\ n \in Nat
    BY <1>3
  <2>2. /\ ArrSet(Written(arrData, arrSize, s), arrSize + n, arrItems \o s)
        /\ arrSize + n <= c
    BY <1>4, <1>6 DEF MaxInsertUninit
  <2> HIDE DEF s
  <2>3. s \in Seq(ArrHeld) /\ Len(s) = n
    BY <2>1, SequenceIs
  <2>4. ArrOK(Written(arrData, arrSize, s), c, arrSize + Len(s), arrItems \o s)
    BY <1>2, <2>2, <2>3, WriteOK
  <2> QED BY <1>2, <2>2, <2>3, <2>4, ArrSetKeeps
<1>7. ASSUME NEW x \in Elems, NEW i \in 0..arrSize, MaxInsertAt(i, x) PROVE ArrInv'
  <2>1. arrSize < c /\ x \in ArrHeld
    BY <1>3, <1>4, <1>7 DEF MaxInsertAt
  <2>2. ArrOK([MovedUp(arrData, i, arrSize + 1) EXCEPT ![i] = x], c, arrSize + 1, InsertAt(arrItems, i + 1, x))
    BY <1>2, <2>1, InsertAtOK
  <2> QED BY <1>2, <1>7, <2>2, ArrSetKeeps DEF MaxInsertAt
<1>8. ASSUME NEW i \in 0..arrSize - 1, MaxRemoveAt(i) PROVE ArrInv'
  BY <1>2, <1>8, RemoveAtOK, ArrSetKeeps DEF MaxRemoveAt
<1>9. ASSUME NEW n \in 0..arrSize, MaxPopN(n) PROVE ArrInv'
  BY <1>2, <1>9, PopOK, ArrSetKeeps DEF MaxPopN
<1>10. ASSUME NEW S \in SUBSET Elems, MaxRemoveIf(S) PROVE ArrInv'
  <2>1. ArrOK(Kept(arrData, arrSize, S).data, c, arrSize - Kept(arrData, arrSize, S).removed, Without(arrItems, S))
    BY <1>2, RemoveIfOK
  <2>2. ArrSet(Kept(arrData, arrSize, S).data, arrSize - Kept(arrData, arrSize, S).removed, Without(arrItems, S))
    BY <1>10 DEF MaxRemoveIf
  <2> QED BY <1>2, <2>1, <2>2, ArrSetKeeps
<1> QED BY <1>5, <1>6, <1>7, <1>8, <1>9, <1>10 DEF MaxNext

\* So do those of an OwnedArr.
LEMMA OwnedNextKeeps ==
  ASSUME ArrInv, OwnedNext
  PROVE  ArrInv'
<1>1. ArrOK(Allocated(0), 0, 0, <<>>)
  BY AllocatedOK, EmptyOK, 0 \in Nat
<1>2. ASSUME OwnedFree PROVE ArrInv'
  <2>1. ArrHolds(arrKind', arrData', 0, arrSize', arrItems')
    BY <1>1, <1>2 DEF OwnedFree, ArrHolds
  <2> QED BY <2>1, ArraysAssumption DEF ArrInv
<1>3. ASSUME NEW a \in Elems, NEW b \in Elems, OwnedCopy(<<a, b>>) PROVE ArrInv'
  <2> DEFINE s == <<a, b>>
  <2>1. s \in Seq(ArrHeld) /\ Len(s) = 2
    BY DEF ArrHeld
  <2>2. /\ 2 <= ArrMaxCapacity /\ arrData' = Written(Allocated(2), 0, s) /\ arrSize' = 2 /\ arrItems' = s
        /\ arrKind' = arrKind
    BY <2>1, <1>3 DEF OwnedCopy
  <2> HIDE DEF s
  <2>3. ArrOK(Allocated(2), 2, 0, <<>>)
    BY AllocatedOK, EmptyOK, 2 \in Nat
  <2>4. 0 + Len(s) <= 2 /\ 0 + Len(s) = 2
    BY <2>1
  <2>5. ArrOK(Written(Allocated(2), 0, s), 2, 0 + Len(s), <<>> \o s)
    BY <2>1, <2>3, <2>4, WriteOK
  <2>6. <<>> \o s = s
    BY <2>1, ConcatEmptySeq
  <2>7. ArrHolds(arrKind', arrData', 2, arrSize', arrItems')
    <3>1. ArrOK(arrData', 2, arrSize', arrItems')
      BY <2>2, <2>4, <2>5, <2>6
    <3>2. arrKind = "OwnedArr"
      BY DEF OwnedNext
    <3> QED BY <2>2, <3>1, <3>2 DEF ArrHolds
  <2>8. 2 \in 0..ArrMaxCapacity
    BY <2>2, ArraysAssumption
  <2> QED BY <2>7, <2>8 DEF ArrInv
<1> QED BY <1>2, <1>3 DEF OwnedNext

\* The invariant holds of each kind of array as it is made.
LEMMA ArrInitHolds ==
  ASSUME ArrInit
  PROVE  ArrInv
<1>1. CASE arrKind = "ArrayMax"
  <2>1. ArrMaxCapacity \in Nat /\ ArrMaxCapacity \in 0..ArrMaxCapacity
    BY ArraysAssumption
  <2>2. ArrOK(arrData, ArrMaxCapacity, arrSize, arrItems)
    BY <1>1, <2>1, AllocatedOK, EmptyOK DEF ArrInit
  <2>3. ArrHolds(arrKind, arrData, ArrMaxCapacity, arrSize, arrItems)
    BY <1>1, <2>2 DEF ArrHolds
  <2> QED BY <2>1, <2>3 DEF ArrInv
<1>2. CASE arrKind = "Array"
  <2>2. ArrOK(arrData, 0, arrSize, arrItems)
    BY <1>2, AllocatedOK, EmptyOK, 0 \in Nat DEF ArrInit
  <2>3. ArrHolds(arrKind, arrData, 0, arrSize, arrItems)
    BY <1>2, <2>2 DEF ArrHolds
  <2> QED BY <2>3, ArraysAssumption DEF ArrInv
<1> QED BY <1>1, <1>2 DEF ArrInit

\* The type invariant and the sequence follow.
LEMMA ArrInvType == ArrInv => ArrTypeOK /\ ArrayAgrees
<1> SUFFICES ASSUME ArrInv PROVE ArrTypeOK /\ ArrayAgrees
  OBVIOUS
<1>1. PICK c \in 0..ArrMaxCapacity : ArrHolds(arrKind, arrData, c, arrSize, arrItems)
  BY DEF ArrInv
<1>2. ArrOK(arrData, c, arrSize, arrItems) /\ c \in Nat
  BY <1>1 DEF ArrHolds, ArrOK
<1>3. SizeOfData(arrData) = c
  BY <1>2, DataSize DEF ArrOK, Data
<1>4. ArrTypeOK
  BY <1>1, <1>2, <1>3 DEF ArrTypeOK, ArrHolds, ArrOK, Data, ArrHeld
<1>5. ArrayAgrees
  <2>1. arrItems \in [1..arrSize -> ArrHeld] /\ \A k \in 1..arrSize : arrItems[k] = arrData[k - 1]
    BY <1>2 DEF ArrOK
  <2> QED BY <2>1 DEF ArrayAgrees, Contents
<1> QED BY <1>4, <1>5

\* ArrayAgrees: the first size slots are the sequence that the same operations give on
\* sequences, of an Array, an ArrayMax and an OwnedArr.
THEOREM ArraysAreRight == Spec => []ArrayAgrees
<1>1. Init => ArrInv
  BY ArrInitHolds DEF Init
<1>2. ArrInv /\ [Next]_vars => ArrInv'
  <2> SUFFICES ASSUME ArrInv, [Next]_vars PROVE ArrInv'
    OBVIOUS
  <2>1. ArrNext \/ MaxNext \/ OwnedNext \/ UNCHANGED arrVars
    BY DEF Next, vars, arrVars, SetStep, TabStep, InternStep, DequeStep, BucketsStep, ArrayStep, SortStep
  <2>2. CASE UNCHANGED arrVars
    BY <2>2 DEF ArrInv, arrVars
  <2> QED
    BY <2>1, <2>2, ArrNextKeeps, MaxNextKeeps, OwnedNextKeeps
<1> QED
  BY <1>1, <1>2, ArrInvType, PTL DEF Spec

-----------------------------------------------------------------------------
(* BucketArray *)

\* The elements of a list of blocks are numbered through.
BlocksHold(blocks, m) ==
  /\ blocks \in Seq(Seq(Nat))
  /\ \A b \in 1..Len(blocks) : Len(blocks[b]) \in 1..BucketSize
  /\ \A b \in 1..Len(blocks) - 1 : Len(blocks[b]) = BucketSize
  /\ \A b \in 1..Len(blocks) : \A k \in 1..Len(blocks[b]) - 1 : blocks[b][k + 1] = blocks[b][k] + 1
  /\ \A b \in 1..Len(blocks) - 1 : blocks[b + 1][1] = blocks[b][Len(blocks[b])] + 1
  /\ IF blocks = <<>> THEN m = 0 ELSE blocks[1][1] = 1 /\ blocks[Len(blocks)][Len(blocks[Len(blocks)])] = m

BucketElements == UNION {Range(bucketBlocks[b]) : b \in DOMAIN bucketBlocks}

\* Where an iterator is, it has been at that element and at all that were inserted before.
ItrHolds ==
  /\ bucketItr \in [block : 0..Len(bucketBlocks), index : 0..BucketSize - 1]
  /\ bucketItr.block # 0 =>
       /\ bucketItr.index + 1 <= Len(bucketBlocks[bucketItr.block])
       /\ bucketSeen = [i \in 1..bucketBlocks[bucketItr.block][bucketItr.index + 1] |-> i]

BucketInv ==
  /\ \E m \in 0..MaxElements : BlocksHold(bucketBlocks, m) /\ BucketElements = 1..m
  /\ ItrHolds
  /\ bucketSeen \in Seq(1..MaxElements)

\* Sequences of numbers have their elements where they should.
LEMMA BlockElements ==
  ASSUME NEW m \in Nat, BlocksHold(bucketBlocks, m), BucketElements = 1..m
  PROVE  /\ \A b \in 1..Len(bucketBlocks) : \A k \in 1..Len(bucketBlocks[b]) : bucketBlocks[b][k] \in 1..m
         /\ \A b \in 1..Len(bucketBlocks) : bucketBlocks[b] \in Seq(Nat) /\ Len(bucketBlocks[b]) \in Nat
         /\ DOMAIN bucketBlocks = 1..Len(bucketBlocks) /\ Len(bucketBlocks) \in Nat
         /\ BucketCount = m
<1>1. bucketBlocks \in Seq(Seq(Nat))
  BY DEF BlocksHold
<1>2. DOMAIN bucketBlocks = 1..Len(bucketBlocks) /\ Len(bucketBlocks) \in Nat
  BY <1>1, LenProperties
<1>3. \A b \in 1..Len(bucketBlocks) : bucketBlocks[b] \in Seq(Nat)
  BY <1>1, ElementOfSeq
<1>4. \A b \in 1..Len(bucketBlocks) : Len(bucketBlocks[b]) \in Nat /\ DOMAIN bucketBlocks[b] = 1..Len(bucketBlocks[b])
  BY <1>3, LenProperties
<1>5. \A b \in 1..Len(bucketBlocks) : \A k \in 1..Len(bucketBlocks[b]) : bucketBlocks[b][k] \in 1..m
  <2> SUFFICES ASSUME NEW b \in 1..Len(bucketBlocks), NEW k \in 1..Len(bucketBlocks[b])
               PROVE  bucketBlocks[b][k] \in BucketElements
    OBVIOUS
  <2>1. bucketBlocks[b][k] \in Range(bucketBlocks[b])
    BY <1>4 DEF Range
  <2> QED BY <1>2, <2>1 DEF BucketElements
<1>6. BucketCount = m
  <2>1. BucketCount = Cardinality(BucketElements)
    BY DEF BucketCount, BucketElements
  <2>2. Cardinality(1..m) = m
    BY FS_Interval
  <2> QED BY <2>1, <2>2
<1> QED BY <1>2, <1>3, <1>4, <1>5, <1>6

\* insert keeps the blocks in order, also where it starts a new one.
LEMMA BucketInsertInv ==
  ASSUME BucketInv, BucketInsert
  PROVE  BucketInv'
<1>1. PICK m \in 0..MaxElements : BlocksHold(bucketBlocks, m) /\ BucketElements = 1..m
  BY DEF BucketInv
<1> DEFINE bs == bucketBlocks
           n == Len(bs)
<1>2. /\ \A b \in 1..n : \A k \in 1..Len(bs[b]) : bs[b][k] \in 1..m
      /\ \A b \in 1..n : bs[b] \in Seq(Nat) /\ Len(bs[b]) \in Nat
      /\ DOMAIN bs = 1..n /\ n \in Nat /\ bs \in Seq(Seq(Nat))
      /\ BucketCount = m
  <2>1. m \in Nat
    OBVIOUS
  <2> QED BY <1>1, <2>1, BlockElements DEF BlocksHold
<1>3. m + 1 <= MaxElements /\ m + 1 \in 0..MaxElements /\ m \in Nat
  BY <1>2, BucketAssumption DEF BucketInsert
<1>4. bs # <<>> => n \in 1..n /\ Last(bs) = bs[n]
  BY <1>2, EmptySeq DEF Last
<1>5. bucketItr' = bucketItr /\ bucketSeen' = bucketSeen
  BY DEF BucketInsert
<1>6. CASE bs = <<>> \/ Len(Last(bs)) = BucketSize
  <2> DEFINE ns == Append(bs, <<m + 1>>)
  <2>1. bucketBlocks' = ns
    BY <1>2, <1>6 DEF BucketInsert
  <2>2. <<m + 1>> \in Seq(Nat) /\ Len(<<m + 1>>) = 1 /\ <<m + 1>>[1] = m + 1 /\ Range(<<m + 1>>) = {m + 1}
    BY <1>3 DEF Range
  <2> DEFINE new == <<m + 1>>
  <2> HIDE DEF new
  <2>3. /\ ns \in Seq(Seq(Nat)) /\ Len(ns) = n + 1
        /\ ns[n + 1] = new /\ \A b \in 1..n : ns[b] = bs[b]
    BY <1>2, <2>2, AppendProperties DEF new
  <2>4. DOMAIN ns = 1..n + 1
    BY <2>3, LenProperties
  <2> HIDE DEF ns
  <2>5. \A b \in 1..n + 1 : b \in 1..n \/ b = n + 1
    BY <1>2
  <2>6. BlocksHold(ns, m + 1)
    <3>1. \A b \in 1..n + 1 : Len(ns[b]) \in 1..BucketSize
      <4> SUFFICES ASSUME NEW b \in 1..n + 1 PROVE Len(ns[b]) \in 1..BucketSize
        OBVIOUS
      <4>1. CASE b \in 1..n
        BY <1>1, <2>3, <4>1 DEF BlocksHold
      <4>2. CASE b = n + 1
        <5>1. Len(ns[b]) = 1
          BY <2>2, <2>3, <4>2 DEF new
        <5> QED BY <5>1, BucketAssumption
      <4> QED BY <2>5, <4>1, <4>2
    <3>2. \A b \in 1..n : Len(ns[b]) = BucketSize
      <4>1. \A b \in 1..n : b \in 1..n - 1 \/ b = n
        BY <1>2
      <4>2. n \in 1..n => Len(bs[n]) = BucketSize
        BY <1>2, <1>4, <1>6, EmptySeq
      <4> QED BY <1>1, <2>3, <4>1, <4>2 DEF BlocksHold
    <3>3. \A b \in 1..n + 1 : \A k \in 1..Len(ns[b]) - 1 : ns[b][k + 1] = ns[b][k] + 1
      <4> SUFFICES ASSUME NEW b \in 1..n + 1, NEW k \in 1..Len(ns[b]) - 1 PROVE ns[b][k + 1] = ns[b][k] + 1
        OBVIOUS
      <4>1. CASE b \in 1..n
        BY <1>1, <2>3, <4>1 DEF BlocksHold
      <4>2. CASE b = n + 1
        BY <2>2, <2>3, <4>2 DEF new
      <4> QED BY <2>5, <4>1, <4>2
    <3>4. \A b \in 1..n : ns[b + 1][1] = ns[b][Len(ns[b])] + 1
      <4> SUFFICES ASSUME NEW b \in 1..n PROVE ns[b + 1][1] = ns[b][Len(ns[b])] + 1
        OBVIOUS
      <4>1. CASE b \in 1..n - 1
        <5>1. b + 1 \in 1..n
          BY <1>2, <4>1
        <5> QED BY <1>1, <2>3, <4>1, <5>1 DEF BlocksHold
      <4>2. CASE b = n
        <5>1. bs # <<>>
          BY EmptySeq, <1>2
        <5>2. bs[n][Len(bs[n])] = m
          BY <1>1, <5>1 DEF BlocksHold
        <5> QED BY <2>2, <2>3, <4>2, <5>2 DEF new
      <4>3. b \in 1..n - 1 \/ b = n
        <5> HIDE DEF n
        <5> QED BY <1>2
      <4> QED BY <4>1, <4>2, <4>3
    <3>5. ns # <<>> /\ ns[1][1] = 1
      <4>1. ns # <<>>
        BY <1>2, <2>3, EmptySeq
      <4>2. CASE bs = <<>>
        BY <1>1, <1>2, <2>2, <2>3, <4>2, EmptySeq DEF BlocksHold, new
      <4>3. CASE bs # <<>>
        <5>1. 1 \in 1..n
          BY <1>2, <1>4, <4>3
        <5> QED BY <1>1, <2>3, <4>1, <4>3, <5>1 DEF BlocksHold
      <4> QED BY <4>1, <4>2, <4>3
    <3>6. ns[n + 1][Len(ns[n + 1])] = m + 1
      BY <2>2, <2>3 DEF new
    <3>7. (n + 1) - 1 = n
      BY <1>2
    <3> QED BY <2>3, <3>1, <3>2, <3>3, <3>4, <3>5, <3>6, <3>7 DEF BlocksHold
  <2>7. BucketElements' = BucketElements \union {m + 1}
    <3>1. \A b \in 1..n : Range(ns[b]) = Range(bs[b])
      BY <2>3
    <3>2. Range(ns[n + 1]) = {m + 1}
      BY <2>2, <2>3 DEF new
    <3>3. BucketElements = UNION {Range(bs[b]) : b \in 1..n}
      BY <1>2 DEF BucketElements
    <3>4. BucketElements' = UNION {Range(ns[b]) : b \in 1..n + 1}
      BY <2>1, <2>4 DEF BucketElements
    <3>5. n + 1 \in 1..n + 1 /\ \A b \in 1..n : b \in 1..n + 1
      BY <1>2
    <3> HIDE DEF bs, n
    <3> QED BY <2>5, <3>1, <3>2, <3>3, <3>4, <3>5
  <2>8. BucketElements' = 1..m + 1
    BY <1>1, <1>3, <2>7
  <2>9. ItrHolds'
    <3>1. Len(bucketBlocks') = n + 1 /\ \A b \in 1..n : bucketBlocks'[b] = bs[b]
      BY <2>1, <2>3
    <3>2. ItrHolds
      BY DEF BucketInv
    <3>3. bucketItr' \in [block : 0..n + 1, index : 0..BucketSize - 1]
      BY <1>2, <1>5, <3>2 DEF ItrHolds
    <3>4. bucketItr.block # 0 => bucketItr.block \in 1..n
      BY <1>2, <3>2 DEF ItrHolds
    <3> QED BY <1>5, <3>1, <3>2, <3>3, <3>4 DEF ItrHolds
  <2> QED BY <1>3, <1>5, <2>1, <2>6, <2>8, <2>9 DEF BucketInv
<1>7. CASE bs # <<>> /\ Len(Last(bs)) # BucketSize
  <2> DEFINE old == bs[n]
             new == Append(old, m + 1)
             len == Len(old)
             ns == [bs EXCEPT ![n] = new]
  <2>1. bucketBlocks' = ns
    BY <1>2, <1>7 DEF BucketInsert
  <2>2. n \in 1..n /\ old \in Seq(Nat) /\ len \in Nat /\ len < BucketSize /\ len >= 1
    <3>1. n \in 1..n /\ Last(bs) = bs[n]
      BY <1>4, <1>7
    <3>2. len \in 1..BucketSize
      BY <1>1, <3>1 DEF BlocksHold
    <3> QED BY <1>2, <1>7, <3>1, <3>2, BucketAssumption
  <2>3. /\ new \in Seq(Nat) /\ Len(new) = len + 1
        /\ new[len + 1] = m + 1 /\ \A k \in 1..len : new[k] = old[k]
    BY <1>3, <2>2, AppendProperties
  <2> HIDE DEF new
  <2>4. bs \in [1..n -> Seq(Nat)]
    BY <1>2, LenProperties
  <2>5. ns \in [1..n -> Seq(Nat)] /\ ns[n] = new /\ \A b \in 1..n : b # n => ns[b] = bs[b]
    BY <2>2, <2>3, <2>4
  <2> HIDE DEF ns
  <2>6. ns \in Seq(Seq(Nat)) /\ Len(ns) = n /\ DOMAIN ns = 1..n
    <3> HIDE DEF n
    <3> QED BY <1>2, <2>5, SequenceIs
  <2>7. old[len] = m
    BY <1>1, <1>7 DEF BlocksHold
  <2>8. BlocksHold(ns, m + 1)
    <3>1. \A b \in 1..n : Len(ns[b]) \in 1..BucketSize
      <4> SUFFICES ASSUME NEW b \in 1..n PROVE Len(ns[b]) \in 1..BucketSize
        OBVIOUS
      <4>1. CASE b = n
        BY <2>2, <2>3, <2>5, <4>1, BucketAssumption
      <4>2. CASE b # n
        BY <1>1, <2>5, <4>2 DEF BlocksHold
      <4> QED BY <4>1, <4>2
    <3>2. \A b \in 1..n - 1 : Len(ns[b]) = BucketSize
      <4>1. \A b \in 1..n - 1 : b \in 1..n /\ b # n
        <5> HIDE DEF n
        <5> QED BY <1>2
      <4> QED BY <1>1, <2>5, <4>1 DEF BlocksHold
    <3>3. \A b \in 1..n : \A k \in 1..Len(ns[b]) - 1 : ns[b][k + 1] = ns[b][k] + 1
      <4> SUFFICES ASSUME NEW b \in 1..n, NEW k \in 1..Len(ns[b]) - 1 PROVE ns[b][k + 1] = ns[b][k] + 1
        OBVIOUS
      <4>1. CASE b # n
        BY <1>1, <2>5, <4>1 DEF BlocksHold
      <4>2. CASE b = n
        <5>1. k \in 1..len /\ new[k] = old[k]
          BY <2>2, <2>3, <2>5, <4>2
        <5>2. CASE k = len
          BY <2>3, <2>5, <2>7, <4>2, <5>1, <5>2
        <5>3. CASE k # len
          <6>1. k + 1 \in 1..len /\ k \in 1..len - 1
            BY <2>2, <5>1, <5>3
          <6>2. old[k + 1] = old[k] + 1
            BY <1>1, <2>2, <6>1 DEF BlocksHold
          <6> QED BY <2>3, <2>5, <4>2, <5>1, <6>1, <6>2
        <5> QED BY <5>2, <5>3
      <4> QED BY <4>1, <4>2
    <3>4. \A b \in 1..n - 1 : ns[b + 1][1] = ns[b][Len(ns[b])] + 1
      <4> SUFFICES ASSUME NEW b \in 1..n - 1 PROVE ns[b + 1][1] = ns[b][Len(ns[b])] + 1
        OBVIOUS
      <4>0. b \in 1..n /\ b # n /\ b + 1 \in 1..n
        <5> HIDE DEF n
        <5> QED BY <1>2
      <4>1. b \in 1..n /\ b # n /\ b + 1 \in 1..n /\ ns[b] = bs[b]
        BY <2>5, <4>0
      <4>2. ns[b + 1][1] = bs[b + 1][1]
        <5>1. 1 \in 1..len
          BY <2>2
        <5> QED BY <2>3, <2>5, <4>1, <5>1
      <4>3. bs[b + 1][1] = bs[b][Len(bs[b])] + 1
        BY <1>1 DEF BlocksHold
      <4> QED BY <4>1, <4>2, <4>3
    <3>5. ns # <<>> /\ ns[1][1] = 1
      <4>1. 1 \in 1..len /\ 1 \in 1..n
        BY <1>2, <2>2
      <4>2. ns[1][1] = bs[1][1]
        BY <2>3, <2>5, <4>1
      <4> QED BY <1>1, <1>7, <2>2, <2>6, <4>2, EmptySeq DEF BlocksHold
    <3>6. ns[n][Len(ns[n])] = m + 1
      BY <2>3, <2>5
    <3> QED BY <2>6, <3>1, <3>2, <3>3, <3>4, <3>5, <3>6 DEF BlocksHold
  <2>9. BucketElements' = BucketElements \union {m + 1}
    <3>1. \A b \in 1..n : b # n => Range(ns[b]) = Range(bs[b])
      BY <2>5
    <3>2. Range(new) = Range(old) \union {m + 1}
      <4>1. DOMAIN new = 1..len + 1 /\ DOMAIN old = 1..len
        BY <2>2, <2>3, LenProperties
      <4>2. \A k \in 1..len + 1 : k \in 1..len \/ k = len + 1
        BY <2>2
      <4>3. len + 1 \in 1..len + 1 /\ \A k \in 1..len : k \in 1..len + 1
        BY <2>2
      <4> HIDE DEF old, len
      <4> QED BY <2>3, <4>1, <4>2, <4>3 DEF Range
    <3>3. BucketElements = UNION {Range(bs[b]) : b \in 1..n}
      BY <1>2 DEF BucketElements
    <3>4. BucketElements' = UNION {Range(ns[b]) : b \in 1..n}
      BY <2>1, <2>6 DEF BucketElements
    <3>5. n \in 1..n /\ ns[n] = new /\ bs[n] = old
      BY <2>2, <2>5
    <3> HIDE DEF bs, n, old
    <3> QED BY <3>1, <3>2, <3>3, <3>4, <3>5
  <2>10. BucketElements' = 1..m + 1
    BY <1>1, <1>3, <2>9
  <2>11. ItrHolds'
    <3>1. Len(bucketBlocks') = n /\ \A b \in 1..n : b # n => bucketBlocks'[b] = bs[b]
      BY <2>1, <2>5, <2>6
    <3>2. bucketBlocks'[n] = new
      BY <2>1, <2>5
    <3>3. ItrHolds
      BY DEF BucketInv
    <3>4. bucketItr' \in [block : 0..n, index : 0..BucketSize - 1]
      BY <1>5, <3>3 DEF ItrHolds
    <3>5. bucketItr.block # 0 => bucketItr.block \in 1..n
      BY <1>2, <3>3 DEF ItrHolds
    <3>6. bucketItr.block = n => bucketItr.index + 1 \in 1..len
      BY <1>2, <2>2, <3>3 DEF ItrHolds
    <3>7. ASSUME bucketItr.block # 0
          PROVE  /\ bucketItr.index + 1 <= Len(bucketBlocks'[bucketItr.block])
                 /\ bucketBlocks'[bucketItr.block][bucketItr.index + 1] = bs[bucketItr.block][bucketItr.index + 1]
      <4>1. CASE bucketItr.block = n
        <5>1. bucketItr.index + 1 \in 1..len
          BY <3>6, <4>1
        <5>0. bs[bucketItr.block] = old
          BY <4>1
        <5> HIDE DEF new, old, len, bs, n
        <5>2. bucketItr.index + 1 <= len + 1 /\ new[bucketItr.index + 1] = old[bucketItr.index + 1]
          BY <2>2, <2>3, <5>1
        <5>3. bucketBlocks'[bucketItr.block] = new
          BY <3>2, <4>1
        <5> QED BY <2>3, <5>0, <5>2, <5>3
      <4>2. CASE bucketItr.block # n
        BY <3>1, <3>3, <3>5, <3>7, <4>2 DEF ItrHolds
      <4> QED BY <4>1, <4>2
    <3> QED BY <1>5, <3>1, <3>3, <3>4, <3>7 DEF ItrHolds
  <2> QED BY <1>3, <1>5, <2>1, <2>8, <2>10, <2>11 DEF BucketInv
<1> QED BY <1>6, <1>7

\* The iterator after its block and index, where it has been, and that it ends at the last element.
LEMMA BucketStepInv ==
  ASSUME BucketInv, BucketStep
  PROVE  /\ BucketInv'
         /\ bucketItr'.block = 0 => bucketSeen' = [i \in 1..BucketCount |-> i]
<1>1. PICK m \in 0..MaxElements : BlocksHold(bucketBlocks, m) /\ BucketElements = 1..m
  BY DEF BucketInv
<1> DEFINE bs == bucketBlocks
           n == Len(bs)
           a == bucketItr.block
           i == bucketItr.index + 1
           next == AfterIter(bucketItr)
<1>2. /\ \A b \in 1..n : \A k \in 1..Len(bs[b]) : bs[b][k] \in 1..m
      /\ \A b \in 1..n : bs[b] \in Seq(Nat) /\ Len(bs[b]) \in Nat
      /\ DOMAIN bs = 1..n /\ n \in Nat /\ bs \in Seq(Seq(Nat))
      /\ BucketCount = m /\ m \in Nat
  <2>1. m \in Nat
    BY BucketAssumption
  <2> QED BY <1>1, <2>1, BlockElements DEF BlocksHold
<1>3. /\ bucketItr \in [block : 0..n, index : 0..BucketSize - 1] /\ a # 0
      /\ i <= Len(bs[a]) /\ bucketSeen = [j \in 1..bs[a][i] |-> j]
  BY DEF BucketInv, ItrHolds, BucketStep
<1>4. a \in 1..n /\ i \in 1..Len(bs[a]) /\ Len(bs[a]) \in 1..BucketSize
  <2>1. a \in 1..n /\ i \in Nat /\ i >= 1
    BY <1>2, <1>3
  <2> QED BY <1>1, <1>2, <1>3, <2>1 DEF BlocksHold
<1>5. /\ bucketItr' = next
      /\ bucketSeen' = IF next.block = 0 THEN bucketSeen ELSE Append(bucketSeen, bs[next.block][next.index + 1])
      /\ bucketBlocks' = bucketBlocks
  BY DEF BucketStep, BucketVisit
<1>6. bs[a][i] \in 1..m
  BY <1>2, <1>4
<1>7. bucketSeen \in [1..bs[a][i] -> 1..MaxElements]
  BY <1>1, <1>3, <1>6, BucketAssumption
<1> DEFINE at == bs[a][i]
<1>8. bucketSeen \in Seq(1..MaxElements) /\ Len(bucketSeen) = at
  <2>1. at \in Nat
    BY <1>6
  <2> HIDE DEF at
  <2> QED BY <1>7, <2>1, SequenceIs DEF at
<1>9. ASSUME at + 1 \in 1..m
      PROVE  /\ Append(bucketSeen, at + 1) = [j \in 1..at + 1 |-> j]
             /\ Append(bucketSeen, at + 1) \in Seq(1..MaxElements)
  <2>1. at + 1 \in 1..MaxElements /\ at \in Nat
    BY <1>1, <1>6, <1>9, BucketAssumption
  <2> HIDE DEF at
  <2>2. /\ Append(bucketSeen, at + 1) \in Seq(1..MaxElements)
        /\ Len(Append(bucketSeen, at + 1)) = at + 1
        /\ Append(bucketSeen, at + 1)[at + 1] = at + 1
        /\ \A j \in 1..at : Append(bucketSeen, at + 1)[j] = bucketSeen[j]
    BY <1>8, <2>1, AppendProperties
  <2>3. Append(bucketSeen, at + 1) \in [1..at + 1 -> 1..MaxElements]
    <3>1. at + 1 \in Nat
      BY <2>1
    <3> QED BY <2>2, <3>1, SequenceIs
  <2>4. bucketSeen = [j \in 1..at |-> j]
    BY <1>3 DEF at
  <2>5. \A j \in 1..at + 1 : Append(bucketSeen, at + 1)[j] = j
    BY <2>1, <2>2, <2>4
  <2> QED BY <2>2, <2>3, <2>5
<1>10. CASE i < Len(bs[a])
  <2>1. next = [bucketItr EXCEPT !.index = @ + 1]
    BY <1>10 DEF AfterIter
  <2>2. next \in [block : 0..n, index : 0..BucketSize - 1] /\ next.block = a /\ next.index = i
    <3>1. bucketItr.index + 1 \in 0..BucketSize - 1
      <4>1. bucketItr.index \in Nat
        BY <1>3
      <4> QED BY <1>4, <1>10, <4>1, BucketAssumption
    <3> QED BY <1>3, <2>1, <3>1
  <2>3. bs[a][i + 1] = at + 1 /\ i + 1 \in 1..Len(bs[a])
    <3>1. i \in 1..Len(bs[a]) - 1 /\ i + 1 \in 1..Len(bs[a])
      BY <1>4, <1>10
    <3> QED BY <1>1, <1>4, <3>1 DEF BlocksHold
  <2>4. at + 1 \in 1..m
    BY <1>2, <1>4, <2>3
  <2>5. bucketSeen' = Append(bucketSeen, at + 1)
    BY <1>4, <1>5, <2>2, <2>3
  <2>6. bucketSeen' = [j \in 1..at + 1 |-> j] /\ bucketSeen' \in Seq(1..MaxElements)
    BY <1>9, <2>4, <2>5
  <2>7. ItrHolds'
    <3>1. bucketItr'.index + 1 = i + 1 /\ bucketItr'.block = a /\ Len(bucketBlocks') = n
      BY <1>5, <2>2
    <3>2. bucketItr' \in [block : 0..n, index : 0..BucketSize - 1]
      BY <1>5, <2>2
    <3>3. i + 1 <= Len(bs[a])
      BY <1>4, <1>10
    <3> QED BY <1>5, <2>3, <2>6, <3>1, <3>2, <3>3 DEF ItrHolds
  <2>8. bucketItr'.block # 0
    BY <1>3, <1>5, <2>2
  <2>9. (\E k \in 0..MaxElements : BlocksHold(bucketBlocks, k) /\ BucketElements = 1..k)'
    BY <1>1, <1>5 DEF BucketElements
  <2> QED BY <2>6, <2>7, <2>8, <2>9 DEF BucketInv
<1>11. CASE ~(i < Len(bs[a])) /\ a # n
  <2>1. next = [block |-> a + 1, index |-> 0]
    BY <1>11 DEF AfterIter
  <2>2. i = Len(bs[a]) /\ a \in 1..n - 1 /\ a + 1 \in 1..n
    <3>1. i = Len(bs[a])
      BY <1>4, <1>11
    <3>2. a \in 1..n - 1 /\ a + 1 \in 1..n
      <4> HIDE DEF n, a
      <4> QED BY <1>2, <1>4, <1>11
    <3> QED BY <3>1, <3>2
  <2>3. bs[a + 1][1] = at + 1
    BY <1>1, <2>2 DEF BlocksHold
  <2>4. 1 \in 1..Len(bs[a + 1])
    <3>1. Len(bs[a + 1]) \in 1..BucketSize
      BY <1>1, <2>2 DEF BlocksHold
    <3> QED BY <3>1, BucketAssumption
  <2>5. at + 1 \in 1..m
    BY <1>2, <2>2, <2>3, <2>4
  <2>6. bucketSeen' = Append(bucketSeen, at + 1)
    <3>1. next.block = a + 1 /\ next.index = 0 /\ next.block # 0
      BY <1>4, <2>1
    <3> QED BY <1>5, <2>3, <3>1
  <2>7. bucketSeen' = [j \in 1..at + 1 |-> j] /\ bucketSeen' \in Seq(1..MaxElements)
    BY <1>9, <2>5, <2>6
  <2>8. bucketItr'.block = a + 1 /\ bucketItr'.index = 0
    BY <1>5, <2>1
  <2>9. ItrHolds'
    <3>2. bucketItr' \in [block : 0..n, index : 0..BucketSize - 1]
      <4>1. a + 1 \in 0..n
        BY <2>2
      <4> QED BY <1>5, <2>1, <4>1, BucketAssumption
    <3>3. bucketItr'.index + 1 = 1
      BY <2>8
    <3>4. Len(bucketBlocks') = n /\ 1 <= Len(bs[a + 1])
      BY <1>5, <2>4
    <3>5. bucketBlocks'[bucketItr'.block] = bs[a + 1]
      BY <1>5, <2>8
    <3> QED BY <2>3, <2>7, <3>2, <3>3, <3>4, <3>5 DEF ItrHolds
  <2>10. bucketItr'.block # 0
    BY <1>4, <2>8
  <2>11. (\E k \in 0..MaxElements : BlocksHold(bucketBlocks, k) /\ BucketElements = 1..k)'
    BY <1>1, <1>5 DEF BucketElements
  <2> QED BY <2>7, <2>9, <2>10, <2>11 DEF BucketInv
<1>12. CASE ~(i < Len(bs[a])) /\ a = n
  <2>1. next = [block |-> 0, index |-> 0]
    BY <1>12 DEF AfterIter
  <2>2. i = Len(bs[a])
    BY <1>4, <1>12
  <2>3. at = m
    <3>1. bs # <<>>
      BY <1>4, EmptySeq
    <3> QED BY <1>1, <1>12, <2>2, <3>1 DEF BlocksHold
  <2>4. bucketSeen' = bucketSeen
    BY <1>5, <2>1
  <2>5. ItrHolds'
    BY <1>2, <1>5, <2>1, BucketAssumption DEF ItrHolds
  <2>6. (\E k \in 0..MaxElements : BlocksHold(bucketBlocks, k) /\ BucketElements = 1..k)'
    BY <1>1, <1>5 DEF BucketElements
  <2>7. bucketSeen' = [j \in 1..BucketCount |-> j]
    BY <1>2, <1>3, <2>3, <2>4
  <2> QED BY <1>8, <2>4, <2>5, <2>6, <2>7 DEF BucketInv
<1> QED BY <1>10, <1>11, <1>12

\* begin_iter is at the first element.
LEMMA BucketBeginInv ==
  ASSUME BucketInv, BucketBegin
  PROVE  BucketInv'
<1>1. PICK m \in 0..MaxElements : BlocksHold(bucketBlocks, m) /\ BucketElements = 1..m
  BY DEF BucketInv
<1>2. (\E k \in 0..MaxElements : BlocksHold(bucketBlocks, k) /\ BucketElements = 1..k)'
  BY <1>1 DEF BucketElements, BucketBegin, BucketVisit
<1>3. m \in Nat /\ Len(bucketBlocks) \in Nat /\ bucketBlocks' = bucketBlocks
  BY <1>1, LenProperties, BucketAssumption DEF BlocksHold, BucketBegin, BucketVisit
<1>4. CASE bucketBlocks = <<>>
  <2>1. bucketItr' = [block |-> 0, index |-> 0] /\ bucketSeen' = <<>>
    BY <1>4 DEF BucketBegin, BucketVisit
  <2>2. ItrHolds'
    BY <1>3, <2>1, BucketAssumption DEF ItrHolds
  <2>3. bucketSeen' \in Seq(1..MaxElements)
    BY <2>1
  <2> QED BY <1>2, <2>2, <2>3 DEF BucketInv
<1>5. CASE bucketBlocks # <<>>
  <2>1. bucketBlocks[1][1] = 1
    BY <1>1, <1>5 DEF BlocksHold
  <2>2. bucketItr' = [block |-> 1, index |-> 0] /\ bucketSeen' = Append(<<>>, bucketBlocks[1][0 + 1])
    BY <1>5 DEF BucketBegin, BucketVisit
  <2>3. Append(<<>>, 1) = <<1>>
    OBVIOUS
  <2>4. bucketSeen' = <<1>> /\ bucketItr'.block = 1 /\ bucketItr'.index = 0
    BY <2>1, <2>2, <2>3
  <2>5. 1 \in 1..Len(bucketBlocks)
    BY <1>1, <1>3, <1>5, EmptySeq DEF BlocksHold
  <2>6. Len(bucketBlocks[1]) \in 1..BucketSize
    BY <1>1, <2>5 DEF BlocksHold
  <2>7. 1 \in 1..m
    <3>1. 1 \in 1..Len(bucketBlocks[1])
      BY <2>6, BucketAssumption
    <3> QED BY <1>1, <1>3, <2>1, <2>5, <3>1, BlockElements
  <2>8. bucketSeen' \in Seq(1..MaxElements)
    <3>1. 1 \in 1..MaxElements
      BY <2>7, BucketAssumption
    <3>2. <<1>> \in Seq(1..MaxElements)
      BY <3>1
    <3> QED BY <2>4, <3>2
  <2>9. bucketSeen' = [i \in 1..1 |-> i]
    BY <2>4
  <2>10. bucketItr' \in [block : 0..Len(bucketBlocks), index : 0..BucketSize - 1]
    BY <2>2, <2>5, BucketAssumption
  <2>11. bucketItr'.index + 1 = 1
    BY <2>4
  <2>12. ItrHolds'
    BY <1>3, <2>1, <2>4, <2>6, <2>9, <2>10, <2>11 DEF ItrHolds
  <2> QED BY <1>2, <2>8, <2>12 DEF BucketInv
<1> QED BY <1>4, <1>5

NoBlocks == bucketBlocks = <<>> /\ bucketItr = NoBlock /\ bucketSeen = <<>>

\* A bucket array without blocks has no elements and no iterator.
LEMMA NoBlocksInv == NoBlocks => BucketInv
<1> SUFFICES ASSUME bucketBlocks = <<>>, bucketItr = NoBlock, bucketSeen = <<>> PROVE BucketInv
  BY DEF NoBlocks
<1>1. BlocksHold(bucketBlocks, 0)
  <2>1. bucketBlocks \in Seq(Seq(Nat)) /\ Len(bucketBlocks) = 0
    OBVIOUS
  <2>2. 1..Len(bucketBlocks) = {} /\ 1..Len(bucketBlocks) - 1 = {}
    BY <2>1
  <2> QED BY <2>1, <2>2 DEF BlocksHold
<1>2. BucketElements = {} /\ 1..0 = {}
  <2>1. DOMAIN bucketBlocks = {}
    OBVIOUS
  <2> QED BY <2>1 DEF BucketElements
<1>3. ItrHolds
  BY BucketAssumption DEF NoBlock, ItrHolds
<1>4. 0 \in 0..MaxElements /\ bucketSeen \in Seq(1..MaxElements)
  BY BucketAssumption
<1> QED BY <1>1, <1>2, <1>3, <1>4 DEF BucketInv

\* It starts that way.
LEMMA BucketInitInv == BucketInit => BucketInv
  BY NoBlocksInv DEF BucketInit, NoBlocks

\* Every operation of the bucket array keeps its invariant.
LEMMA BucketNextInv == BucketInv /\ [BucketNext]_bucketVars => BucketInv'
<1> SUFFICES ASSUME BucketInv, [BucketNext]_bucketVars PROVE BucketInv'
  OBVIOUS
<1>1. CASE UNCHANGED bucketVars
  BY <1>1 DEF bucketVars, BucketInv, BucketElements, ItrHolds
<1>2. ASSUME BucketDestroy PROVE BucketInv'
  <2>1. NoBlocks'
    BY <1>2 DEF BucketDestroy, NoBlock, NoBlocks
  <2> QED BY <2>1, NoBlocksInv, PTL
<1> QED BY <1>1, <1>2, BucketInsertInv, BucketBeginInv, BucketStepInv DEF BucketNext

\* BucketsAllSeen: an iteration that reaches the end has been at every element, those that
\* were inserted behind it included, in the order of their insertion.
THEOREM BucketsIterate == Spec => BucketsAllSeen
<1>1. Init => BucketInv
  BY BucketInitInv DEF Init
<1>2. BucketInv /\ [Next]_vars => BucketInv'
  <2>1. [Next]_vars => [BucketNext]_bucketVars
    BY DEF Next, vars, bucketVars, SetStep, TabStep, InternStep, DequeStep, BucketsStep, ArrayStep, SortStep
  <2> QED BY <2>1, BucketNextInv
<1>3. BucketInv /\ [Next]_vars =>
        [(bucketItr.block # 0 /\ bucketItr'.block = 0 /\ UNCHANGED bucketBlocks)
            => bucketSeen' = [i \in 1..BucketCount |-> i]]_bucketVars
  <2> SUFFICES ASSUME BucketInv, [Next]_vars, ~UNCHANGED bucketVars,
                      bucketItr.block # 0, bucketItr'.block = 0, UNCHANGED bucketBlocks
               PROVE  bucketSeen' = [i \in 1..BucketCount |-> i]
    OBVIOUS
  <2>1. BucketNext
    BY DEF Next, vars, bucketVars, SetStep, TabStep, InternStep, DequeStep, BucketsStep, ArrayStep, SortStep
  <2>2. ~BucketInsert
    BY DEF BucketInsert
  <2>3. ~BucketBegin
    BY DEF BucketBegin
  <2>4. ~BucketDestroy
    <3>1. bucketBlocks # <<>>
      <4>1. bucketItr.block \in 0..Len(bucketBlocks)
        BY DEF BucketInv, ItrHolds
      <4> QED BY <4>1
    <3> QED BY <3>1 DEF BucketDestroy
  <2>5. BucketStep
    BY <2>1, <2>2, <2>3, <2>4 DEF BucketNext
  <2> QED BY <2>5, BucketStepInv
<1> QED
  BY <1>1, <1>2, <1>3, PTL DEF Spec, BucketsAllSeen

-----------------------------------------------------------------------------
(* sort_view *)

\* The pending ranges lie behind each other, and behind the range of the partition under way.
SortShape(n) ==
  /\ sortInput \in [0..n - 1 -> Int] /\ sortBase \in [0..n - 1 -> Int]
  /\ sortB \in 0..n /\ sortE \in 0..n /\ sortB <= sortE
  /\ sortRanges \in Seq(Nat \X Nat)
  /\ \A p \in 1..Len(sortRanges) :
       sortE <= sortRanges[p][1] /\ sortRanges[p][1] <= sortRanges[p][2] /\ sortRanges[p][2] <= n
  /\ \A p, q \in 1..Len(sortRanges) : p < q => sortRanges[p][2] <= sortRanges[q][1]

\* The partition under way: what the scans are behind is on its side of the pivot.
SortPart ==
  /\ sortB = sortE => sortB = 0 /\ sortI = 0 /\ sortJ = 0 /\ sortPivot = 0
  /\ sortB < sortE =>
       /\ sortPivot \in sortB..sortE - 1
       /\ sortI \in sortB..sortE /\ sortJ \in sortB..sortE
       /\ (sortI = sortB /\ sortJ = sortE) \/ (sortB < sortI /\ sortI <= sortJ /\ sortJ < sortE)
       /\ \A k \in sortB..sortI - 1 : sortBase[k] <= sortBase[sortPivot]
       /\ \A k \in sortJ..sortE - 1 : sortBase[sortPivot] <= sortBase[k]

Together(b, e, i, j) == b <= i /\ j < e

\* Two elements are in order, or in a range that is still to be sorted.
SortOrdered(n) ==
  \A i, j \in 0..n - 1 :
    i < j => \/ sortBase[i] <= sortBase[j]
             \/ Together(sortB, sortE, i, j)
             \/ \E p \in 1..Len(sortRanges) : Together(sortRanges[p][1], sortRanges[p][2], i, j)

Places(f, x) == {i \in DOMAIN f : f[i] = x}
SortCounts == \A x : Cardinality(Places(sortBase, x)) = Cardinality(Places(sortInput, x))

SortHolds(n) ==
  SortShape(n) /\ SortPart /\ SortOrdered(n) /\ SortCounts /\ sortFailed = FALSE

SortInv == \E n \in Nat : SortHolds(n)

\* Where the two scans of the partition's loop stop.
Scans(u, d) ==
  /\ u \in sortI..sortE - 1 /\ sortBase[sortPivot] <= sortBase[u]
  /\ \A k \in sortI..u - 1 : sortBase[k] < sortBase[sortPivot]
  /\ d \in sortB + 1..sortJ /\ sortBase[d - 1] <= sortBase[sortPivot]
  /\ \A k \in d..sortJ - 1 : sortBase[sortPivot] < sortBase[k]

\* Both scans stop inside the range, at the pivot at the latest.
LEMMA ScansAre ==
  ASSUME NEW n \in Nat, SortShape(n), SortPart, sortB < sortE
  PROVE  Scans(ScanUp, ScanDown)
<1> DEFINE ups == {i \in sortI..sortE : i < sortE => i = sortPivot \/ sortBase[i] >= sortBase[sortPivot]}
           downs == {j \in sortB..sortJ : j > sortB => j - 1 = sortPivot \/ sortBase[sortPivot] >= sortBase[j - 1]}
           pv == sortBase[sortPivot]
<1>1. /\ sortB \in Nat /\ sortE \in Nat /\ sortE <= n /\ sortPivot \in sortB..sortE - 1
      /\ sortI \in sortB..sortE /\ sortJ \in sortB..sortE /\ sortI \in Nat /\ sortJ \in Nat
      /\ (sortI = sortB /\ sortJ = sortE) \/ (sortB < sortI /\ sortI <= sortJ /\ sortJ < sortE)
  <2>1. sortB \in 0..n /\ sortE \in 0..n
    BY DEF SortShape
  <2>2. /\ sortPivot \in sortB..sortE - 1 /\ sortI \in sortB..sortE /\ sortJ \in sortB..sortE
        /\ (sortI = sortB /\ sortJ = sortE) \/ (sortB < sortI /\ sortI <= sortJ /\ sortJ < sortE)
    BY DEF SortPart
  <2>3. sortB \in Nat /\ sortE \in Nat /\ sortE <= n
    BY <2>1
  <2>4. sortI \in Nat /\ sortJ \in Nat
    BY <2>2, <2>3
  <2> QED BY <2>2, <2>3, <2>4
<1>2. /\ \A k \in sortB..sortI - 1 : sortBase[k] <= pv
      /\ \A k \in sortJ..sortE - 1 : pv <= sortBase[k]
  BY DEF SortPart
<1>3. \A k \in sortB..sortE - 1 : sortBase[k] \in Int
  <2>1. sortBase \in [0..n - 1 -> Int]
    BY DEF SortShape
  <2> QED BY <1>1, <2>1
<1>4. pv \in Int
  BY <1>1, <1>3
<1> HIDE DEF pv
<1>5. ScanUp = Min(ups) /\ ScanDown = Max(downs)
  BY DEF ScanUp, ScanDown
<1>6. ups \subseteq Nat /\ sortE \in ups /\ downs \subseteq 0..n /\ sortB \in downs
  BY <1>1
<1>7. \A i : i \in ups <=> i \in sortI..sortE /\ (i < sortE => i = sortPivot \/ sortBase[i] >= pv)
  BY DEF pv
<1>8. \A j : j \in downs <=> j \in sortB..sortJ /\ (j > sortB => j - 1 = sortPivot \/ pv >= sortBase[j - 1])
  BY DEF pv
<1> HIDE DEF ups, downs
<1>9. ScanUp \in ups /\ \A i \in ups : ScanUp <= i
  BY <1>5, <1>6, LeastIsMin
<1>10. ScanDown \in downs /\ \A j \in downs : j <= ScanDown
  <2>1. downs # {}
    BY <1>6
  <2> QED BY <1>5, <1>6, <2>1, GreatestIsMax
<1>11. \E i \in ups : i < sortE
  <2>1. CASE sortI = sortB /\ sortJ = sortE
    <3>1. sortPivot \in ups
      BY <1>1, <1>7, <2>1
    <3> QED BY <1>1, <3>1
  <2>2. CASE sortB < sortI /\ sortI <= sortJ /\ sortJ < sortE
    <3>1. sortJ \in sortJ..sortE - 1
      BY <1>1, <2>2
    <3>2. sortBase[sortJ] >= pv
      BY <1>1, <1>2, <1>3, <1>4, <3>1
    <3>3. sortJ \in ups
      BY <1>1, <1>7, <2>2, <3>2
    <3> QED BY <2>2, <3>3
  <2> QED BY <1>1, <2>1, <2>2
<1>12. \E j \in downs : sortB < j
  <2>1. CASE sortI = sortB /\ sortJ = sortE
    <3>1. sortPivot + 1 \in downs
      <4>1. sortPivot + 1 \in sortB..sortJ /\ (sortPivot + 1) - 1 = sortPivot
        BY <1>1, <2>1
      <4> QED BY <1>8, <4>1
    <3> QED BY <1>1, <3>1
  <2>2. CASE sortB < sortI /\ sortI <= sortJ /\ sortJ < sortE
    <3>1. sortI - 1 \in sortB..sortI - 1
      BY <1>1, <2>2
    <3>2. pv >= sortBase[sortI - 1]
      BY <1>1, <1>2, <1>3, <1>4, <3>1
    <3>3. sortI \in downs
      BY <1>1, <1>8, <2>2, <3>2
    <3> QED BY <2>2, <3>3
  <2> QED BY <1>1, <2>1, <2>2
<1>13. ScanUp \in sortI..sortE - 1 /\ ScanDown \in sortB + 1..sortJ
  <2>1. ScanUp \in sortI..sortE /\ ScanDown \in sortB..sortJ
    BY <1>7, <1>8, <1>9, <1>10
  <2>2. ScanUp < sortE
    <3>1. PICK i \in ups : i < sortE
      BY <1>11
    <3>2. i \in Int /\ ScanUp <= i
      BY <1>7, <1>9, <3>1
    <3> QED BY <1>1, <2>1, <3>1, <3>2
  <2>3. ScanDown > sortB
    <3>1. PICK j \in downs : sortB < j
      BY <1>12
    <3>2. j \in Int /\ j <= ScanDown
      BY <1>8, <1>10, <3>1
    <3> QED BY <1>1, <2>1, <3>1, <3>2
  <2> QED BY <1>1, <2>1, <2>2, <2>3
<1>14. pv <= sortBase[ScanUp]
  <2>1. ScanUp = sortPivot \/ sortBase[ScanUp] >= pv
    BY <1>1, <1>7, <1>9, <1>13
  <2>2. sortBase[ScanUp] \in Int
    BY <1>1, <1>3, <1>13
  <2> QED BY <1>4, <2>1, <2>2 DEF pv
<1>15. sortBase[ScanDown - 1] <= pv
  <2>1. ScanDown - 1 = sortPivot \/ pv >= sortBase[ScanDown - 1]
    BY <1>1, <1>8, <1>10, <1>13
  <2>2. sortBase[ScanDown - 1] \in Int
    BY <1>1, <1>3, <1>13
  <2> QED BY <1>4, <2>1, <2>2 DEF pv
<1>16. ASSUME NEW k \in sortI..ScanUp - 1 PROVE sortBase[k] < pv
  <2>1. k \in sortI..sortE /\ k < sortE /\ k \in sortB..sortE - 1 /\ ~(ScanUp <= k)
    BY <1>1, <1>13
  <2>2. k \notin ups
    BY <1>9, <2>1
  <2>3. ~(sortBase[k] >= pv)
    BY <1>7, <2>1, <2>2
  <2> QED BY <1>3, <1>4, <2>1, <2>3
<1>17. ASSUME NEW k \in ScanDown..sortJ - 1 PROVE pv < sortBase[k]
  <2>1. k + 1 \in sortB..sortJ /\ k + 1 > sortB /\ k \in sortB..sortE - 1 /\ ~(k + 1 <= ScanDown) /\ (k + 1) - 1 = k
    BY <1>1, <1>13
  <2>2. k + 1 \notin downs
    BY <1>10, <2>1
  <2>3. ~(pv >= sortBase[k])
    BY <1>8, <2>1, <2>2
  <2> QED BY <1>3, <1>4, <2>1, <2>3
<1> QED BY <1>13, <1>14, <1>15, <1>16, <1>17 DEF Scans, pv

Exchanged(f, i, j) == [f EXCEPT ![i] = f[j], ![j] = f[i]]

\* Two elements exchanged are the same elements.
LEMMA ExchangeCounts ==
  ASSUME NEW n \in Nat, NEW f \in [0..n - 1 -> Int], NEW i \in 0..n - 1, NEW j \in 0..n - 1, i # j, NEW x
  PROVE  Cardinality(Places(Exchanged(f, i, j), x)) = Cardinality(Places(f, x))
<1> DEFINE g == Exchanged(f, i, j)
           other(k) == IF k = i THEN j ELSE IF k = j THEN i ELSE k
           S == Places(f, x)
           T == Places(g, x)
           b == [k \in S |-> other(k)]
<1>1. /\ DOMAIN f = 0..n - 1 /\ DOMAIN g = 0..n - 1
      /\ g[i] = f[j] /\ g[j] = f[i] /\ \A k \in 0..n - 1 : k # i /\ k # j => g[k] = f[k]
  BY DEF Exchanged
<1> HIDE DEF g
<1>2. /\ \A k \in S : k \in 0..n - 1 /\ f[k] = x
      /\ \A k \in T : k \in 0..n - 1 /\ g[k] = x
      /\ \A k \in 0..n - 1 : (f[k] = x => k \in S) /\ (g[k] = x => k \in T)
  BY <1>1 DEF Places
<1>3. IsFiniteSet(S)
  <2>1. S \subseteq 0..n - 1
    BY <1>2
  <2>2. IsFiniteSet(0..n - 1)
    BY FS_Interval
  <2> HIDE DEF S
  <2> QED BY <2>1, <2>2, FS_Subset
<1> HIDE DEF S, T
<1>4. \A k \in S : other(k) \in T
  BY <1>1, <1>2
<1>5. \A k \in T : other(k) \in S /\ other(other(k)) = k
  BY <1>1, <1>2
<1>6. \A k, l \in S : other(k) = other(l) => k = l
  OBVIOUS
<1>7. b \in Bijection(S, T)
  <2>1. b \in [S -> T]
    BY <1>4
  <2>2. b \in Injection(S, T)
    BY <2>1, <1>6 DEF Injection, IsInjective
  <2>3. \A t \in T : \E s \in S : b[s] = t
    BY <1>5
  <2> QED BY <2>1, <2>2, <2>3 DEF Bijection, Surjection
<1>8. ExistsBijection(S, T)
  BY <1>7 DEF ExistsBijection
<1>9. Cardinality(T) = Cardinality(S)
  BY <1>3, <1>8, FS_Bijection
<1> QED BY <1>9 DEF S, T, g

\* The range popped next, and those behind it, do not overlap.
LEMMA RestOfRanges ==
  ASSUME NEW n \in Nat, SortShape(n), sortRanges # <<>>
  PROVE  /\ Tail(sortRanges) \in Seq(Nat \X Nat) /\ Len(Tail(sortRanges)) = Len(sortRanges) - 1
         /\ \A p \in 1..Len(sortRanges) - 1 : Tail(sortRanges)[p] = sortRanges[p + 1]
         /\ Head(sortRanges) = sortRanges[1]
         /\ Len(sortRanges) \in Nat \ {0}
<1>1. sortRanges \in Seq(Nat \X Nat)
  BY DEF SortShape
<1>2. Len(sortRanges) \in Nat \ {0}
  BY <1>1, EmptySeq, LenProperties
<1>3. /\ Tail(sortRanges) \in Seq(Nat \X Nat) /\ Len(Tail(sortRanges)) = Len(sortRanges) - 1
      /\ \A p \in 1..Len(sortRanges) - 1 : Tail(sortRanges)[p] = sortRanges[p + 1]
      /\ Head(sortRanges) = sortRanges[1]
  BY <1>1, HeadTailProperties
<1> QED BY <1>2, <1>3

\* A range of at most one element is in order as it is.
LEMMA EnterShortHolds ==
  ASSUME NEW n \in Nat, SortHolds(n), SortEnterShort
  PROVE  SortHolds(n)'
<1>1. SortShape(n) /\ SortPart /\ SortOrdered(n) /\ SortCounts /\ ~sortFailed
  BY DEF SortHolds
<1>2. /\ sortRanges # <<>> /\ sortRanges' = Tail(sortRanges)
      /\ sortB = 0 /\ sortE = 0
      /\ UNCHANGED <<sortInput, sortBase, sortB, sortE, sortI, sortJ, sortPivot, sortFailed>>
  BY <1>1 DEF SortEnterShort, SortPart
<1> DEFINE rs == sortRanges
           m == Len(rs)
<1>3. /\ sortRanges' \in Seq(Nat \X Nat) /\ Len(sortRanges') = m - 1
      /\ \A p \in 1..m - 1 : sortRanges'[p] = rs[p + 1]
      /\ m \in Nat \ {0}
  BY <1>1, <1>2, RestOfRanges
<1>4. rs[1][1] + 1 >= rs[1][2]
  BY <1>1, <1>2, RestOfRanges DEF SortEnterShort
<1>5. /\ \A p \in 1..m : sortE <= rs[p][1] /\ rs[p][1] <= rs[p][2] /\ rs[p][2] <= n
      /\ \A p, q \in 1..m : p < q => rs[p][2] <= rs[q][1]
      /\ \A p \in 1..m : rs[p][1] \in Nat /\ rs[p][2] \in Nat
  <2>1. rs \in Seq(Nat \X Nat)
    BY <1>1 DEF SortShape
  <2>2. \A p \in 1..m : rs[p] \in Nat \X Nat
    BY <2>1, ElementOfSeq
  <2> QED BY <1>1, <2>2 DEF SortShape
<1> HIDE DEF rs, m
<1>6. SortShape(n)'
  <2>1. ASSUME NEW p \in 1..m - 1
        PROVE  sortE' <= sortRanges'[p][1] /\ sortRanges'[p][1] <= sortRanges'[p][2] /\ sortRanges'[p][2] <= n
    <3>1. p + 1 \in 1..m
      BY <1>3
    <3> QED BY <1>2, <1>3, <1>5, <3>1
  <2>2. ASSUME NEW p \in 1..m - 1, NEW q \in 1..m - 1, p < q
        PROVE  sortRanges'[p][2] <= sortRanges'[q][1]
    <3>1. p + 1 \in 1..m /\ q + 1 \in 1..m /\ p + 1 < q + 1
      BY <1>3, <2>2
    <3> QED BY <1>3, <1>5, <3>1
  <2> QED BY <1>1, <1>2, <1>3, <2>1, <2>2 DEF SortShape
<1>7. SortPart'
  BY <1>1, <1>2 DEF SortPart
<1>8. SortOrdered(n)'
  <2> SUFFICES ASSUME NEW i \in 0..n - 1, NEW j \in 0..n - 1, i < j, ~(sortBase[i] <= sortBase[j])
               PROVE  \E p \in 1..m - 1 : Together(sortRanges'[p][1], sortRanges'[p][2], i, j)
    BY <1>2, <1>3 DEF SortOrdered
  <2>1. ~Together(sortB, sortE, i, j)
    BY <1>2 DEF Together
  <2>2. PICK p \in 1..m : Together(rs[p][1], rs[p][2], i, j)
    BY <1>1, <2>1 DEF SortOrdered, rs, m
  <2>3. p # 1
    <3> SUFFICES ASSUME p = 1 PROVE FALSE
      OBVIOUS
    <3>1. rs[1][1] <= i /\ j < rs[1][2] /\ rs[1][1] \in Nat /\ rs[1][2] \in Nat
      BY <1>5, <2>2 DEF Together
    <3> QED BY <1>4, <3>1
  <2>4. p - 1 \in 1..m - 1 /\ (p - 1) + 1 = p
    BY <1>3, <2>3
  <2>5. sortRanges'[p - 1] = rs[p]
    BY <1>3, <2>4
  <2> QED BY <2>2, <2>4, <2>5
<1>9. SortCounts'
  BY <1>1, <1>2 DEF SortCounts
<1> QED BY <1>1, <1>2, <1>6, <1>7, <1>8, <1>9 DEF SortHolds

\* A longer range gets its pivot, the element in its middle.
LEMMA EnterHolds ==
  ASSUME NEW n \in Nat, SortHolds(n), SortEnter
  PROVE  SortHolds(n)'
<1>1. SortShape(n) /\ SortPart /\ SortOrdered(n) /\ SortCounts /\ ~sortFailed
  BY DEF SortHolds
<1> DEFINE rs == sortRanges
           m == Len(rs)
           b == rs[1][1]
           e == rs[1][2]
<1>2. sortRanges # <<>> /\ sortB = 0 /\ sortE = 0 /\ Head(sortRanges) = rs[1]
  BY <1>1, RestOfRanges DEF SortEnter, SortPart
<1>3. /\ sortRanges' = Tail(sortRanges) /\ b + 1 < e
      /\ sortB' = b /\ sortE' = e /\ sortI' = b /\ sortJ' = e /\ sortPivot' = PivotOf(b, e)
      /\ sortFailed' = ~(sortPivot' > b /\ sortPivot' < e)
      /\ UNCHANGED <<sortInput, sortBase>>
  BY <1>2 DEF SortEnter
<1>4. /\ sortRanges' \in Seq(Nat \X Nat) /\ Len(sortRanges') = m - 1
      /\ \A p \in 1..m - 1 : sortRanges'[p] = rs[p + 1]
      /\ m \in Nat \ {0}
  BY <1>1, <1>2, <1>3, RestOfRanges
<1>5. /\ \A p \in 1..m : rs[p][1] <= rs[p][2] /\ rs[p][2] <= n
      /\ \A p, q \in 1..m : p < q => rs[p][2] <= rs[q][1]
      /\ \A p \in 1..m : rs[p][1] \in Nat /\ rs[p][2] \in Nat
  <2>1. rs \in Seq(Nat \X Nat)
    BY <1>1 DEF SortShape
  <2>2. \A p \in 1..m : rs[p] \in Nat \X Nat
    BY <2>1, ElementOfSeq
  <2> QED BY <1>1, <2>2 DEF SortShape
<1>6. 1 \in 1..m
  BY <1>4
<1>7. b \in Nat /\ e \in Nat /\ e <= n
  BY <1>5, <1>6
<1> HIDE DEF b, e, rs
<1>8. sortPivot' > b /\ sortPivot' < e /\ sortPivot' \in Nat
  BY <1>3, <1>7 DEF PivotOf
<1> HIDE DEF rs, m
<1>9. SortShape(n)'
  <2>1. ASSUME NEW p \in 1..m - 1
        PROVE  sortE' <= sortRanges'[p][1] /\ sortRanges'[p][1] <= sortRanges'[p][2] /\ sortRanges'[p][2] <= n
    <3>1. p + 1 \in 1..m /\ 1 < p + 1
      BY <1>4
    <3>2. e <= rs[p + 1][1]
      BY <1>5, <1>6, <3>1 DEF e, rs
    <3> QED BY <1>3, <1>4, <1>5, <3>1, <3>2
  <2>2. ASSUME NEW p \in 1..m - 1, NEW q \in 1..m - 1, p < q
        PROVE  sortRanges'[p][2] <= sortRanges'[q][1]
    <3>1. p + 1 \in 1..m /\ q + 1 \in 1..m /\ p + 1 < q + 1
      BY <1>4, <2>2
    <3> QED BY <1>4, <1>5, <3>1
  <2>3. sortB' \in 0..n /\ sortE' \in 0..n /\ sortB' <= sortE'
    BY <1>3, <1>7
  <2>4. sortInput' \in [0..n - 1 -> Int] /\ sortBase' \in [0..n - 1 -> Int]
    BY <1>1, <1>3 DEF SortShape
  <2>5. Len(sortRanges') = m - 1 /\ sortRanges' \in Seq(Nat \X Nat)
    BY <1>4
  <2> QED BY <2>1, <2>2, <2>3, <2>4, <2>5 DEF SortShape
<1>10. SortPart'
  <2>1. sortB' < sortE' /\ sortPivot' \in sortB'..sortE' - 1 /\ sortI' = sortB' /\ sortJ' = sortE'
        /\ sortB' \in Nat /\ sortE' \in Nat /\ sortB' # sortE'
    BY <1>3, <1>7, <1>8
  <2>2. sortI' \in sortB'..sortE' /\ sortJ' \in sortB'..sortE'
    BY <2>1
  <2>3. b..b - 1 = {} /\ e..e - 1 = {}
    BY <1>7
  <2>4. sortI' = b /\ sortJ' = e /\ sortB' = b /\ sortE' = e
    BY <1>3
  <2>5. \A k \in sortB'..sortI' - 1 : sortBase'[k] <= sortBase'[sortPivot']
    BY <2>3, <2>4
  <2>6. \A k \in sortJ'..sortE' - 1 : sortBase'[sortPivot'] <= sortBase'[k]
    BY <2>3, <2>4
  <2> QED BY <2>1, <2>2, <2>5, <2>6 DEF SortPart
<1>11. SortOrdered(n)'
  <2> SUFFICES ASSUME NEW i \in 0..n - 1, NEW j \in 0..n - 1, i < j, ~(sortBase[i] <= sortBase[j])
               PROVE  \/ Together(b, e, i, j)
                      \/ \E p \in 1..m - 1 : Together(sortRanges'[p][1], sortRanges'[p][2], i, j)
    BY <1>3, <1>4 DEF SortOrdered
  <2>1. ~Together(sortB, sortE, i, j)
    BY <1>2 DEF Together
  <2>2. PICK p \in 1..m : Together(rs[p][1], rs[p][2], i, j)
    BY <1>1, <2>1 DEF SortOrdered, rs, m
  <2>3. CASE p = 1
    BY <2>2, <2>3 DEF b, e, rs
  <2>4. CASE p # 1
    <3>1. p - 1 \in 1..m - 1 /\ (p - 1) + 1 = p
      BY <1>4, <2>4
    <3>2. sortRanges'[p - 1] = rs[p]
      BY <1>4, <3>1
    <3> QED BY <2>2, <3>1, <3>2
  <2> QED BY <2>3, <2>4
<1>12. SortCounts'
  BY <1>1, <1>3 DEF SortCounts
<1> QED BY <1>3, <1>8, <1>9, <1>10, <1>11, <1>12 DEF SortHolds

\* A partition that ends leaves two ranges, one on each side of the pivot.
LEMMA SplitHolds ==
  ASSUME NEW n \in Nat, SortHolds(n), SortSplit
  PROVE  SortHolds(n)'
<1>1. SortShape(n) /\ SortPart /\ SortOrdered(n) /\ SortCounts /\ ~sortFailed /\ sortB < sortE
  BY DEF SortHolds, SortSplit
<1> DEFINE u == ScanUp
           d == ScanDown
           rs == sortRanges
           m == Len(rs)
           two == <<<<sortB, u>>, <<u, sortE>>>>
           pv == sortBase[sortPivot]
<1>2. Scans(u, d)
  BY <1>1, ScansAre
<1>3. /\ u >= d - 1 /\ sortFailed' = ~(u < sortE /\ d > sortB)
      /\ sortRanges' = two \o rs
      /\ sortB' = 0 /\ sortE' = 0 /\ sortI' = 0 /\ sortJ' = 0 /\ sortPivot' = 0
      /\ UNCHANGED <<sortInput, sortBase>>
  BY DEF SortSplit
<1> HIDE DEF u, d
<1>4. /\ sortB \in Nat /\ sortE \in Nat /\ sortE <= n /\ sortPivot \in sortB..sortE - 1
      /\ sortI \in sortB..sortE /\ sortJ \in sortB..sortE
      /\ \A k \in sortB..sortI - 1 : sortBase[k] <= pv
      /\ \A k \in sortJ..sortE - 1 : pv <= sortBase[k]
  BY <1>1 DEF SortShape, SortPart
<1>5. /\ u \in sortI..sortE - 1 /\ pv <= sortBase[u]
      /\ \A k \in sortI..u - 1 : sortBase[k] < pv
      /\ d \in sortB + 1..sortJ /\ sortBase[d - 1] <= pv
      /\ \A k \in d..sortJ - 1 : pv < sortBase[k]
  BY <1>2 DEF Scans
<1>6. \A k \in 0..n - 1 : sortBase[k] \in Int
  BY <1>1 DEF SortShape
<1>7. pv \in Int /\ u \in Nat /\ sortB <= u /\ u < sortE /\ u <= n
  BY <1>4, <1>5, <1>6
<1> HIDE DEF pv
<1>8. \A k \in sortB..u - 1 : sortBase[k] <= pv
  <2> SUFFICES ASSUME NEW k \in sortB..u - 1 PROVE sortBase[k] <= pv
    OBVIOUS
  <2>1. k \in 0..n - 1 /\ (k \in sortB..sortI - 1 \/ k \in sortI..u - 1)
    BY <1>4, <1>5, <1>7
  <2> QED BY <1>4, <1>5, <1>6, <1>7, <2>1
<1>9. \A k \in u..sortE - 1 : pv <= sortBase[k]
  <2> SUFFICES ASSUME NEW k \in u..sortE - 1 PROVE pv <= sortBase[k]
    OBVIOUS
  <2>1. k \in 0..n - 1 /\ (k \in sortJ..sortE - 1 \/ k \in d..sortJ - 1 \/ k = u)
    BY <1>3, <1>4, <1>5, <1>7
  <2> QED BY <1>4, <1>5, <1>6, <1>7, <2>1
<1>10. two \in Seq(Nat \X Nat) /\ Len(two) = 2 /\ two[1] = <<sortB, u>> /\ two[2] = <<u, sortE>>
  BY <1>4, <1>7
<1> HIDE DEF two
<1>11. /\ rs \in Seq(Nat \X Nat) /\ m \in Nat
       /\ \A p \in 1..m : sortE <= rs[p][1] /\ rs[p][1] <= rs[p][2] /\ rs[p][2] <= n
       /\ \A p, q \in 1..m : p < q => rs[p][2] <= rs[q][1]
       /\ \A p \in 1..m : rs[p][1] \in Nat /\ rs[p][2] \in Nat
  <2>1. rs \in Seq(Nat \X Nat)
    BY <1>1 DEF SortShape
  <2>2. \A p \in 1..m : rs[p] \in Nat \X Nat
    BY <2>1, ElementOfSeq
  <2> QED BY <1>1, <2>1, <2>2, LenProperties DEF SortShape
<1>12. /\ sortRanges' \in Seq(Nat \X Nat) /\ Len(sortRanges') = m + 2
       /\ \A p \in 1..m + 2 : sortRanges'[p] = IF p <= 2 THEN two[p] ELSE rs[p - 2]
  <2>1. /\ two \o rs \in Seq(Nat \X Nat) /\ Len(two \o rs) = Len(two) + Len(rs)
        /\ \A p \in 1..Len(two) + Len(rs) : (two \o rs)[p] = IF p <= Len(two) THEN two[p] ELSE rs[p - Len(two)]
    BY <1>10, <1>11, ConcatProperties
  <2>2. Len(two) + Len(rs) = m + 2
    BY <1>10, <1>11
  <2> QED BY <1>3, <1>10, <2>1, <2>2
<1> HIDE DEF rs, m
<1>13. sortRanges'[1] = <<sortB, u>> /\ sortRanges'[2] = <<u, sortE>> /\ \A p \in 1..m : sortRanges'[p + 2] = rs[p]
  <2>1. 1 \in 1..m + 2 /\ 2 \in 1..m + 2 /\ \A p \in 1..m : p + 2 \in 1..m + 2 /\ ~(p + 2 <= 2) /\ (p + 2) - 2 = p
    BY <1>11
  <2> QED BY <1>10, <1>12, <2>1
<1>14. \A p \in 1..m + 2 : p = 1 \/ p = 2 \/ (p - 2 \in 1..m /\ (p - 2) + 2 = p)
  BY <1>11
<1>15. SortShape(n)'
  <2>1. ASSUME NEW p \in 1..m + 2
        PROVE  0 <= sortRanges'[p][1] /\ sortRanges'[p][1] <= sortRanges'[p][2] /\ sortRanges'[p][2] <= n
    <3>1. CASE p = 1 \/ p = 2
      BY <1>4, <1>7, <1>13, <3>1
    <3>2. CASE p - 2 \in 1..m /\ (p - 2) + 2 = p
      <4>1. sortRanges'[p] = rs[p - 2]
        BY <1>13, <3>2
      <4> QED BY <1>11, <3>2, <4>1
    <3> QED BY <1>14, <3>1, <3>2
  <2>2. ASSUME NEW p \in 1..m + 2, NEW q \in 1..m + 2, p < q
        PROVE  sortRanges'[p][2] <= sortRanges'[q][1]
    <3>1. CASE q - 2 \in 1..m /\ p - 2 \in 1..m
      <4>1. sortRanges'[p] = rs[p - 2] /\ sortRanges'[q] = rs[q - 2] /\ p - 2 < q - 2
        <5>1. (p - 2) + 2 = p /\ (q - 2) + 2 = q /\ p - 2 < q - 2
          BY <2>2, <1>11
        <5> QED BY <1>13, <3>1, <5>1
      <4> QED BY <1>11, <3>1, <4>1
    <3>2. CASE q - 2 \in 1..m /\ (p = 1 \/ p = 2)
      <4>0. (q - 2) + 2 = q
        BY <1>11
      <4>1. sortRanges'[q] = rs[q - 2] /\ sortRanges'[p][2] <= sortE
        BY <1>4, <1>7, <1>13, <3>2, <4>0
      <4>2. sortE <= rs[q - 2][1] /\ rs[q - 2][1] \in Nat
        BY <1>11, <3>2
      <4>3. sortRanges'[p][2] \in Nat
        BY <1>4, <1>7, <1>13, <3>2
      <4> QED BY <1>4, <4>1, <4>2, <4>3
    <3>3. CASE q = 2 /\ p = 1
      BY <1>7, <1>13, <3>3
    <3>4. ~(q = 1) /\ ~(q = 2 /\ p = 2) /\ ~(q = 2 /\ p - 2 \in 1..m)
      BY <2>2, <1>11
    <3> QED BY <1>14, <3>1, <3>2, <3>3, <3>4
  <2>3. sortB' \in 0..n /\ sortE' \in 0..n /\ sortB' <= sortE' /\ sortE' = 0
    BY <1>3
  <2>4. sortInput' \in [0..n - 1 -> Int] /\ sortBase' \in [0..n - 1 -> Int]
    BY <1>1, <1>3 DEF SortShape
  <2> QED BY <1>12, <2>1, <2>2, <2>3, <2>4 DEF SortShape
<1>16. SortPart'
  BY <1>3 DEF SortPart
<1>17. SortOrdered(n)'
  <2> SUFFICES ASSUME NEW i \in 0..n - 1, NEW j \in 0..n - 1, i < j, ~(sortBase[i] <= sortBase[j])
               PROVE  \E p \in 1..m + 2 : Together(sortRanges'[p][1], sortRanges'[p][2], i, j)
    BY <1>3, <1>12 DEF SortOrdered
  <2>1. CASE Together(sortB, sortE, i, j)
    <3>1. i \in sortB..sortE - 1 /\ j \in sortB..sortE - 1
      BY <1>4, <2>1 DEF Together
    <3>2. CASE j < u
      <4>1. Together(sortRanges'[1][1], sortRanges'[1][2], i, j)
        BY <1>13, <3>1, <3>2 DEF Together
      <4>2. 1 \in 1..m + 2
        BY <1>11
      <4> QED BY <4>1, <4>2
    <3>3. CASE u <= i
      <4>0. sortRanges'[2][1] = u /\ sortRanges'[2][2] = sortE
        BY <1>13
      <4>1. Together(sortRanges'[2][1], sortRanges'[2][2], i, j)
        BY <1>4, <3>1, <3>3, <4>0 DEF Together
      <4>2. 2 \in 1..m + 2
        BY <1>11
      <4> QED BY <4>1, <4>2
    <3>4. CASE i < u /\ u <= j
      <4>1. sortBase[i] <= pv /\ pv <= sortBase[j]
        BY <1>7, <1>8, <1>9, <3>1, <3>4
      <4> QED BY <1>6, <1>7, <4>1
    <3> QED BY <1>7, <3>2, <3>3, <3>4
  <2>2. CASE ~Together(sortB, sortE, i, j)
    <3>1. PICK p \in 1..m : Together(rs[p][1], rs[p][2], i, j)
      BY <1>1, <2>2 DEF SortOrdered, rs, m
    <3>2. p + 2 \in 1..m + 2
      BY <1>11
    <3> QED BY <1>13, <3>1, <3>2
  <2> QED BY <2>1, <2>2
<1>18. SortCounts'
  BY <1>1, <1>3 DEF SortCounts
<1>19. sortFailed' = FALSE
  <2>1. u < sortE /\ d > sortB
    BY <1>4, <1>5, <1>7
  <2> QED BY <1>3, <2>1
<1> QED BY <1>15, <1>16, <1>17, <1>18, <1>19 DEF SortHolds

\* Two elements on the wrong side of the pivot are exchanged.
LEMMA SwapHolds ==
  ASSUME NEW n \in Nat, SortHolds(n), SortSwap
  PROVE  SortHolds(n)'
<1>1. SortShape(n) /\ SortPart /\ SortOrdered(n) /\ SortCounts /\ ~sortFailed /\ sortB < sortE
  BY DEF SortHolds, SortSwap
<1> DEFINE u == ScanUp
           d == ScanDown
           v == d - 1
           pv == sortBase[sortPivot]
<1>2. Scans(u, d)
  BY <1>1, ScansAre
<1>3. /\ u < v
      /\ sortFailed' = ~(u < sortE /\ d > sortB /\ sortBase[u] >= sortBase[v])
      /\ sortBase' = [sortBase EXCEPT ![u] = sortBase[v], ![v] = sortBase[u]]
      /\ sortPivot' = CASE u = sortPivot -> v [] v = sortPivot -> u [] OTHER -> sortPivot
      /\ sortI' = u + 1
      /\ sortJ' = v
      /\ UNCHANGED <<sortInput, sortRanges, sortB, sortE>>
  BY DEF SortSwap
<1> HIDE DEF u, d
<1>4. /\ sortB \in Nat /\ sortE \in Nat /\ sortE <= n /\ sortPivot \in sortB..sortE - 1
      /\ sortI \in sortB..sortE /\ sortJ \in sortB..sortE
      /\ \A k \in sortB..sortI - 1 : sortBase[k] <= pv
      /\ \A k \in sortJ..sortE - 1 : pv <= sortBase[k]
  BY <1>1 DEF SortShape, SortPart
<1>5. /\ u \in sortI..sortE - 1 /\ pv <= sortBase[u]
      /\ \A k \in sortI..u - 1 : sortBase[k] < pv
      /\ d \in sortB + 1..sortJ /\ sortBase[v] <= pv
      /\ \A k \in v + 1..sortJ - 1 : pv < sortBase[k]
  <2>1. v + 1 = d
    BY <1>2, <1>4 DEF Scans
  <2> QED BY <1>2, <2>1 DEF Scans
<1>6. sortBase \in [0..n - 1 -> Int] /\ sortInput \in [0..n - 1 -> Int]
  BY <1>1 DEF SortShape
<1>7. v \in sortB..sortJ - 1 /\ v \in Nat /\ u \in Nat
  BY <1>4, <1>5
<1>8. u \in 0..n - 1 /\ v \in 0..n - 1 /\ u # v /\ sortPivot \in 0..n - 1
  BY <1>3, <1>4, <1>5, <1>7
<1>9. pv \in Int /\ \A k \in 0..n - 1 : sortBase[k] \in Int
  BY <1>6, <1>8
<1> HIDE DEF v, pv
<1>10. /\ sortBase' \in [0..n - 1 -> Int] /\ sortBase'[u] = sortBase[v] /\ sortBase'[v] = sortBase[u]
       /\ \A k \in 0..n - 1 : k # u /\ k # v => sortBase'[k] = sortBase[k]
  BY <1>3, <1>6, <1>8, <1>9
<1>11. sortPivot' \in sortB..sortE - 1 /\ sortBase'[sortPivot'] = pv
  <2>1. CASE u = sortPivot
    <3>1. sortPivot' = v
      BY <1>3, <2>1
    <3> QED BY <1>4, <1>7, <1>10, <2>1, <3>1 DEF pv
  <2>2. CASE v = sortPivot
    <3>1. sortPivot' = u
      BY <1>3, <1>8, <2>2
    <3> QED BY <1>4, <1>5, <1>7, <1>10, <2>2, <3>1 DEF pv
  <2>3. CASE u # sortPivot /\ v # sortPivot
    <3>1. sortPivot' = sortPivot
      BY <1>3, <2>3
    <3> QED BY <1>4, <1>8, <1>10, <2>3, <3>1 DEF pv
  <2> QED BY <2>1, <2>2, <2>3
<1>12. sortFailed' = FALSE
  <2>1. u < sortE /\ d > sortB
    BY <1>4, <1>5, <1>7
  <2>2. sortBase[u] >= sortBase[v]
    BY <1>5, <1>8, <1>9
  <2> QED BY <1>3, <2>1, <2>2
<1>13. SortShape(n)'
  BY <1>1, <1>3, <1>10 DEF SortShape
<1>14. SortPart'
  <2>1. sortB' = sortB /\ sortE' = sortE /\ sortI' = u + 1 /\ sortJ' = v
    BY <1>3
  <2>2. sortB < u + 1 /\ u + 1 <= v /\ v < sortE
    BY <1>3, <1>4, <1>5, <1>7
  <2>3. u + 1 \in sortB..sortE /\ v \in sortB..sortE
    BY <1>4, <1>7, <2>2
  <2>4. ASSUME NEW k \in sortB..u PROVE sortBase'[k] <= pv
    <3>1. k \in 0..n - 1 /\ k # v /\ (k \in sortB..sortI - 1 \/ k \in sortI..u - 1 \/ k = u)
      BY <1>3, <1>4, <1>5, <1>7
    <3>2. CASE k = u
      BY <1>5, <1>10, <3>2
    <3>3. CASE k # u
      <4>1. sortBase'[k] = sortBase[k]
        BY <1>10, <3>1, <3>3
      <4> QED BY <1>4, <1>5, <1>9, <3>1, <3>3, <4>1
    <3> QED BY <3>2, <3>3
  <2>5. ASSUME NEW k \in v..sortE - 1 PROVE pv <= sortBase'[k]
    <3>1. k \in 0..n - 1 /\ k # u /\ (k \in sortJ..sortE - 1 \/ k \in v + 1..sortJ - 1 \/ k = v)
      BY <1>3, <1>4, <1>5, <1>7
    <3>2. CASE k = v
      BY <1>5, <1>10, <3>2
    <3>3. CASE k # v
      <4>1. sortBase'[k] = sortBase[k]
        BY <1>10, <3>1, <3>3
      <4> QED BY <1>4, <1>5, <1>9, <3>1, <3>3, <4>1
    <3> QED BY <3>2, <3>3
  <2>6. sortB..(u + 1) - 1 = sortB..u
    BY <1>7
  <2>7. \A k \in sortB'..sortI' - 1 : sortBase'[k] <= sortBase'[sortPivot']
    BY <1>11, <2>1, <2>4, <2>6
  <2>8. \A k \in sortJ'..sortE' - 1 : sortBase'[sortPivot'] <= sortBase'[k]
    BY <1>11, <2>1, <2>5
  <2>9. /\ sortPivot' \in sortB'..sortE' - 1 /\ sortI' \in sortB'..sortE' /\ sortJ' \in sortB'..sortE'
        /\ sortB' < sortI' /\ sortI' <= sortJ' /\ sortJ' < sortE' /\ sortB' # sortE'
    BY <1>1, <1>4, <1>11, <2>1, <2>2, <2>3
  <2> QED BY <2>7, <2>8, <2>9 DEF SortPart
<1>15. SortOrdered(n)'
  <2> SUFFICES ASSUME NEW i \in 0..n - 1, NEW j \in 0..n - 1, i < j,
                      ~Together(sortB, sortE, i, j),
                      ~\E p \in 1..Len(sortRanges) : Together(sortRanges[p][1], sortRanges[p][2], i, j)
               PROVE  sortBase'[i] <= sortBase'[j]
    BY <1>3 DEF SortOrdered
  <2> DEFINE inside(k) == k \in sortB..sortE - 1
  <2>1. /\ u \in sortB..sortE - 1 /\ v \in sortB..sortE - 1
    BY <1>4, <1>5, <1>7
  <2>2. \A k, l \in 0..n - 1 : k < l /\ ~Together(sortB, sortE, k, l)
            /\ (~\E p \in 1..Len(sortRanges) : Together(sortRanges[p][1], sortRanges[p][2], k, l))
            => sortBase[k] <= sortBase[l]
    BY <1>1 DEF SortOrdered
  <2>3. \A p \in 1..Len(sortRanges) :
           sortE <= sortRanges[p][1] /\ sortRanges[p][1] \in Nat /\ sortRanges[p][2] \in Nat
    <3>1. sortRanges \in Seq(Nat \X Nat)
      BY <1>1 DEF SortShape
    <3>2. \A p \in 1..Len(sortRanges) : sortRanges[p] \in Nat \X Nat
      BY <3>1, ElementOfSeq
    <3> QED BY <1>1, <3>2 DEF SortShape
  <2>4. \A k, l \in 0..n - 1 : k < sortE => ~\E p \in 1..Len(sortRanges) : Together(sortRanges[p][1], sortRanges[p][2], k, l)
    <3> SUFFICES ASSUME NEW k \in 0..n - 1, NEW l \in 0..n - 1, k < sortE, NEW p \in 1..Len(sortRanges),
                        sortRanges[p][1] <= k
                 PROVE  FALSE
      BY DEF Together
    <3> QED BY <1>4, <2>3
  <2>5. CASE inside(i)
    <3>1. sortE <= j
      BY <1>4, <2>5 DEF Together
    <3>2. sortBase'[j] = sortBase[j]
      <4>1. j # u /\ j # v
        BY <1>4, <2>1, <3>1
      <4> QED BY <1>10, <4>1
    <3>3. \E k \in sortB..sortE - 1 : sortBase'[i] = sortBase[k]
      BY <1>10, <2>1, <2>5
    <3>4. PICK k \in sortB..sortE - 1 : sortBase'[i] = sortBase[k]
      BY <3>3
    <3>5. k \in 0..n - 1 /\ k < j /\ k < sortE /\ ~Together(sortB, sortE, k, j)
      BY <1>4, <3>1 DEF Together
    <3> QED BY <2>2, <2>4, <3>2, <3>4, <3>5
  <2>6. CASE inside(j)
    <3>1. i < sortB
      BY <1>4, <2>6 DEF Together
    <3>2. sortBase'[i] = sortBase[i]
      <4>1. i # u /\ i # v
        BY <1>4, <2>1, <3>1
      <4> QED BY <1>10, <4>1
    <3>3. \E k \in sortB..sortE - 1 : sortBase'[j] = sortBase[k]
      BY <1>10, <2>1, <2>6
    <3>4. PICK k \in sortB..sortE - 1 : sortBase'[j] = sortBase[k]
      BY <3>3
    <3>5. k \in 0..n - 1 /\ i < k /\ i < sortE /\ ~Together(sortB, sortE, i, k)
      BY <1>4, <3>1 DEF Together
    <3> QED BY <2>2, <2>4, <3>2, <3>4, <3>5
  <2>7. CASE ~inside(i) /\ ~inside(j)
    <3>1. sortBase'[i] = sortBase[i] /\ sortBase'[j] = sortBase[j]
      BY <1>10, <2>1, <2>7
    <3> QED BY <2>2, <3>1
  <2> QED BY <2>5, <2>6, <2>7
<1>16. SortCounts'
  <2> SUFFICES ASSUME NEW x PROVE Cardinality(Places(sortBase', x)) = Cardinality(Places(sortInput', x))
    BY DEF SortCounts
  <2>1. Cardinality(Places(sortBase', x)) = Cardinality(Places(sortBase, x))
    <3>1. sortBase' = Exchanged(sortBase, u, v)
      BY <1>3 DEF Exchanged
    <3>2. Cardinality(Places(Exchanged(sortBase, u, v), x)) = Cardinality(Places(sortBase, x))
      BY <1>6, <1>8, ExchangeCounts
    <3> QED BY <3>1, <3>2
  <2> QED BY <1>1, <1>3, <2>1 DEF SortCounts
<1> QED BY <1>12, <1>13, <1>14, <1>15, <1>16 DEF SortHolds

\* The invariant holds of every input before the first range is entered.
LEMMA SortInitInv == SortInit => SortInv
<1> SUFFICES ASSUME SortInit PROVE SortInv
  OBVIOUS
<1> DEFINE n == Cardinality(DOMAIN sortInput)
<1>1. n \in Nat /\ sortInput \in [0..n - 1 -> Int]
  BY SortAssumption DEF SortInit
<1>2. /\ sortBase = sortInput /\ sortRanges = <<<<0, n>>>>
      /\ sortB = 0 /\ sortE = 0 /\ sortI = 0 /\ sortJ = 0 /\ sortPivot = 0 /\ sortFailed = FALSE
  BY DEF SortInit
<1> HIDE DEF n
<1>3. sortRanges \in Seq(Nat \X Nat) /\ Len(sortRanges) = 1 /\ sortRanges[1] = <<0, n>>
  BY <1>1, <1>2
<1>4. SortShape(n)
  <2>1. \A p \in 1..Len(sortRanges) : p = 1
    BY <1>3
  <2>2. \A p \in 1..Len(sortRanges) :
           sortE <= sortRanges[p][1] /\ sortRanges[p][1] <= sortRanges[p][2] /\ sortRanges[p][2] <= n
    BY <1>1, <1>2, <1>3, <2>1
  <2>3. \A p, q \in 1..Len(sortRanges) : ~(p < q)
    BY <2>1
  <2> QED BY <1>1, <1>2, <1>3, <2>2, <2>3 DEF SortShape
<1>5. SortPart
  BY <1>2 DEF SortPart
<1>6. SortOrdered(n)
  <2>1. \A i, j \in 0..n - 1 : Together(sortRanges[1][1], sortRanges[1][2], i, j)
    BY <1>1, <1>3 DEF Together
  <2>2. 1 \in 1..Len(sortRanges)
    BY <1>3
  <2> QED BY <2>1, <2>2 DEF SortOrdered
<1>7. SortCounts
  BY <1>2 DEF SortCounts
<1> QED BY <1>1, <1>2, <1>4, <1>5, <1>6, <1>7 DEF SortInv, SortHolds

\* Every step of sort_view keeps its invariant.
LEMMA SortNextInv == SortInv /\ [SortNext]_sortVars => SortInv'
<1> SUFFICES ASSUME SortInv, [SortNext]_sortVars PROVE SortInv'
  OBVIOUS
<1>1. PICK n \in Nat : SortHolds(n)
  BY DEF SortInv
<1>2. SortHolds(n)'
  <2>1. CASE UNCHANGED sortVars
    BY <1>1, <2>1 DEF sortVars, SortHolds, SortShape, SortPart, SortOrdered, SortCounts
  <2> QED BY <1>1, <2>1, EnterShortHolds, EnterHolds, SplitHolds, SwapHolds DEF SortNext
<1> QED BY <1>2 DEF SortInv

\* When no range is left the elements are in order.
LEMMA SortInvSorted == SortInv => SortTypeOK /\ Sorted
<1> SUFFICES ASSUME SortInv PROVE SortTypeOK /\ Sorted
  OBVIOUS
<1>1. PICK n \in Nat : SortHolds(n)
  BY DEF SortInv
<1>2. SortShape(n) /\ SortPart /\ SortOrdered(n) /\ SortCounts /\ sortFailed = FALSE
  BY <1>1 DEF SortHolds
<1>3. sortInput \in [0..n - 1 -> Int] /\ sortBase \in [0..n - 1 -> Int] /\ Cardinality(DOMAIN sortInput) = n
  <2>1. sortInput \in [0..n - 1 -> Int] /\ sortBase \in [0..n - 1 -> Int]
    BY <1>2 DEF SortShape
  <2>2. DOMAIN sortInput = 0..n - 1
    BY <2>1
  <2>3. Cardinality(0..n - 1) = n
    BY FS_Interval
  <2> QED BY <2>1, <2>2, <2>3
<1>4. SortTypeOK
  <2>1. \A r \in Range(sortRanges) : r[1] <= r[2] /\ r[2] <= n
    <3>1. DOMAIN sortRanges = 1..Len(sortRanges)
      BY <1>2, LenProperties DEF SortShape
    <3> QED BY <1>2, <3>1 DEF SortShape, Range
  <2>2. {sortB, sortE, sortI, sortJ, sortPivot} \subseteq 0..n
    <3>1. sortB \in 0..n /\ sortE \in 0..n /\ sortB <= sortE
      BY <1>2 DEF SortShape
    <3>2. CASE sortB = sortE
      BY <1>2, <3>1, <3>2 DEF SortPart
    <3>3. CASE sortB < sortE
      BY <1>2, <3>1, <3>3 DEF SortPart
    <3> QED BY <3>1, <3>2, <3>3
  <2> QED BY <1>2, <1>3, <2>1, <2>2 DEF SortTypeOK
<1>5. Sorted
  <2>1. SortDone => \A i, j \in DOMAIN sortBase : i < j => sortBase[i] <= sortBase[j]
    <3> SUFFICES ASSUME SortDone, NEW i \in 0..n - 1, NEW j \in 0..n - 1, i < j
                 PROVE  sortBase[i] <= sortBase[j]
      BY <1>3
    <3>1. sortB = 0 /\ sortE = 0 /\ sortRanges = <<>>
      BY <1>2 DEF SortDone, SortPart
    <3>2. ~Together(sortB, sortE, i, j)
      BY <3>1 DEF Together
    <3>3. 1..Len(sortRanges) = {}
      BY <3>1
    <3> QED BY <1>2, <3>2, <3>3 DEF SortOrdered
  <2>2. \A x \in Range(sortInput) : Cardinality({i \in DOMAIN sortBase : sortBase[i] = x})
                                   = Cardinality({i \in DOMAIN sortInput : sortInput[i] = x})
    BY <1>2 DEF SortCounts, Places
  <2> QED BY <1>2, <2>1, <2>2 DEF Sorted
<1> QED BY <1>4, <1>5

\* Sorted: sort_view's assertions hold, the elements stay the same ones, and they are in order
\* when it returns.
THEOREM SortIsRight == Spec => []Sorted
<1>1. Init => SortInv
  BY SortInitInv DEF Init
<1>2. SortInv /\ [Next]_vars => SortInv'
  <2>1. [Next]_vars => [SortNext]_sortVars
    BY DEF Next, vars, sortVars, SetStep, TabStep, InternStep, DequeStep, BucketsStep, ArrayStep, SortStep
  <2> QED BY <2>1, SortNextInv
<1> QED
  BY <1>1, <1>2, SortInvSorted, PTL DEF Spec

-----------------------------------------------------------------------------
(* Types *)

\* Each container's invariant implies its type invariant.
LEMMA SetInvType == SetInv => SetTypeOK
<1> SUFFICES ASSUME SetInv PROVE SetTypeOK
  OBVIOUS
<1>1. CASE setSlots = NoSlots /\ setUsed = 0 /\ setMembers = {}
  <2>1. SlotsOK(setSlots)
    BY <1>1 DEF SlotsOK
  <2>2. setUsed \in 0..MaxCapacity /\ setMembers \subseteq Keys
    BY <1>1, ProbingAssumption
  <2>3. setPanicked \in BOOLEAN
    BY DEF SetInv
  <2> QED BY <2>1, <2>2, <2>3 DEF SetTypeOK
<1>2. CASE \E c : SetHolds(c)
  <2>1. PICK c : SetHolds(c)
    BY <1>2
  <2>2. IsCapacity(c) /\ c <= MaxCapacity /\ setSlots \in Slots(c) /\ setMembers = LiveKeys(setSlots)
        /\ setUsed = Cardinality(LiveSlots(setSlots))
    BY <2>1 DEF SetHolds, WellProbed
  <2>3. PICK n \in 0..MaxCapacity : c = Doubled(FirstCapacity)[n]
    BY <2>2, CapacityType
  <2>4. SlotsOK(setSlots)
    BY <2>2, <2>3 DEF SlotsOK, Slots, Slot
  <2>5. setUsed \in 0..MaxCapacity
    <3>1. c \in Nat
      BY <2>2, CapacityType
    <3>2. Cardinality(LiveSlots(setSlots)) \in 0..c
      BY <2>2, <3>1, LiveSlotsFinite
    <3> QED BY <2>2, <3>1, <3>2, ProbingAssumption
  <2>6. setMembers \subseteq Keys
    BY <2>2 DEF LiveKeys, LiveSlots
  <2> QED BY <2>4, <2>5, <2>6 DEF SetInv, SetTypeOK
<1> QED BY <1>1, <1>2 DEF SetInv

\* So does that of the hash table,
LEMMA TabInvType == TabInv => TabTypeOK
<1> SUFFICES ASSUME TabInv PROVE TabTypeOK
  OBVIOUS
<1>1. PICK c \in Nat : TabHolds(c)
  BY DEF TabInv
<1>2. /\ PairsHold(Tab, c, tabMap) /\ tabKeys \in Slots(c) /\ DOMAIN tabMap = LiveKeys(tabKeys)
      /\ tabUsed = Cardinality(LiveSlots(tabKeys)) /\ AllocatedAt(tabKeys, c) /\ c <= MaxCapacity
      /\ Tab.vals = tabVals
  BY <1>1, TabIs DEF TabHolds
<1>3. SlotsOK(tabKeys)
  <2>1. CASE tabKeys = NoSlots
    BY <2>1 DEF SlotsOK
  <2>2. CASE IsCapacity(c)
    <3>1. PICK n \in 0..MaxCapacity : c = Doubled(FirstCapacity)[n]
      BY <1>2, <2>2, CapacityType
    <3> QED BY <1>2, <3>1 DEF SlotsOK, Slots, Slot
  <2> QED BY <1>2, <2>1, <2>2 DEF AllocatedAt
<1>4. tabUsed \in 0..MaxCapacity
  <2>1. Cardinality(LiveSlots(tabKeys)) \in 0..c
    BY <1>2, LiveSlotsFinite
  <2> QED BY <1>2, <2>1, ProbingAssumption
<1>5. tabVals \in [DOMAIN tabKeys -> Values \union {NoValue}]
  <2>1. tabVals \in [0..c - 1 -> Val]
    BY <1>2 DEF PairsHold, Triples
  <2>2. DOMAIN tabKeys = 0..c - 1
    BY <1>2 DEF Slots
  <2> QED BY <2>1, <2>2 DEF Val
<1>6. DOMAIN tabMap \subseteq Keys /\ \A k \in DOMAIN tabMap : tabMap[k] \in Values
  BY <1>2 DEF LiveKeys, LiveSlots, PairsHold
<1>7. /\ tabItr \in DOMAIN tabKeys \union {NoItr} /\ tabDue \subseteq Keys /\ tabSeen \subseteq Keys
      /\ tabItrWrong \in BOOLEAN /\ tabFailed \in BOOLEAN
  <2>1. tabItrWrong = FALSE /\ tabFailed = FALSE
    BY DEF TabInv
  <2> QED BY <1>6, <2>1 DEF TabInv, TabItrHolds
<1> QED BY <1>3, <1>4, <1>5, <1>6, <1>7 DEF TabTypeOK

\* of the string interner,
LEMMA InternInvType == InternInv => InternTypeOK
<1> SUFFICES ASSUME InternInv PROVE InternTypeOK
  OBVIOUS
<1>1. PICK c : Houses(internSlots, internText, c)
  BY DEF InternInv
<1>2. IsCapacity(c) /\ internText \in Seq(Keys) /\ internSlots \in AddressSlots(internText, c)
  BY <1>1 DEF Houses
<1>3. PICK n \in Nat : c = Doubled(FirstCapacity)[n]
  BY <1>2 DEF IsCapacity
<1>4. c \in Nat /\ n \in 0..c
  <2>1. c \in Nat
    BY <1>2, CapacityType
  <2>2. FirstCapacity \in Nat /\ FirstCapacity >= 2
    BY ProbingAssumption
  <2>3. c >= 2 * (n + 1)
    BY <1>3, <2>2, DoubledGrows
  <2> QED BY <2>1, <2>3
<1>5. Cardinality(DOMAIN internSlots) = c
  <2>1. DOMAIN internSlots = 0..c - 1
    BY <1>2 DEF AddressSlots
  <2> QED BY <1>4, <2>1, FS_Interval
<1>6. \E k \in 0..Cardinality(DOMAIN internSlots) :
        internSlots \in [0..Doubled(FirstCapacity)[k] - 1 -> Addresses \union {EMPTY}]
  BY <1>2, <1>3, <1>4, <1>5 DEF AddressSlots, Addresses
<1>7. \A t \in DOMAIN internGiven : internGiven[t] \in Addresses \union {EmptyAddress}
  <2> SUFFICES ASSUME NEW t \in DOMAIN internGiven PROVE internGiven[t] \in Addresses \union {EmptyAddress}
    OBVIOUS
  <2>1. CASE t = EmptyText
    BY <2>1 DEF InternInv
  <2>2. CASE t # EmptyText
    <3>1. t \in Texts(internText)
      BY <2>2 DEF InternInv
    <3>2. PICK a \in 1..Len(internText) : t = internText[a]
      BY <3>1 DEF Texts
    <3> QED BY <3>2 DEF InternInv, Addresses
  <2> QED BY <2>1, <2>2
<1> QED BY <1>2, <1>6, <1>7 DEF InternTypeOK, InternInv

\* and of the bucket array.
LEMMA BucketInvType == BucketInv => BucketTypeOK
<1> SUFFICES ASSUME BucketInv PROVE BucketTypeOK
  OBVIOUS
<1>1. PICK m \in 0..MaxElements : BlocksHold(bucketBlocks, m) /\ BucketElements = 1..m
  BY DEF BucketInv
<1>2. bucketBlocks \in Seq(Seq(Nat))
  BY <1>1 DEF BlocksHold
<1>3. DOMAIN bucketBlocks = 1..Len(bucketBlocks) /\ Len(bucketBlocks) \in Nat
  BY <1>2, LenProperties
<1>4. \A b \in DOMAIN bucketBlocks :
        /\ Len(bucketBlocks[b]) \in 1..BucketSize
        /\ b < Len(bucketBlocks) => Len(bucketBlocks[b]) = BucketSize
  <2> SUFFICES ASSUME NEW b \in DOMAIN bucketBlocks
               PROVE  /\ Len(bucketBlocks[b]) \in 1..BucketSize
                      /\ b < Len(bucketBlocks) => Len(bucketBlocks[b]) = BucketSize
    OBVIOUS
  <2>1. b \in 1..Len(bucketBlocks) /\ (b < Len(bucketBlocks) => b \in 1..Len(bucketBlocks) - 1)
    BY <1>3
  <2> QED BY <1>1, <2>1 DEF BlocksHold
<1> QED BY <1>4 DEF BucketInv, ItrHolds, BucketTypeOK

\* All the containers' invariants.
ContainersInv == SetInv /\ TabInv /\ InternInv /\ DequeInv /\ BucketInv /\ ArrInv /\ SortInv

\* A step of the system is a step of one container and leaves the others alone.
LEMMA OneContainerSteps ==
  [Next]_vars => /\ [SetNext]_setVars /\ [TabNext]_tabVars /\ [InternNext]_internVars
                 /\ [DequeNext]_dequeVars /\ [BucketNext]_bucketVars
                 /\ [ArrNext \/ MaxNext \/ OwnedNext]_arrVars /\ [SortNext]_sortVars
<1> SUFFICES ASSUME [Next]_vars
             PROVE  /\ [SetNext]_setVars /\ [TabNext]_tabVars /\ [InternNext]_internVars
                    /\ [DequeNext]_dequeVars /\ [BucketNext]_bucketVars
                    /\ [ArrNext \/ MaxNext \/ OwnedNext]_arrVars /\ [SortNext]_sortVars
  OBVIOUS
<1>1. CASE SetStep
  BY <1>1 DEF SetStep
<1>2. CASE TabStep
  BY <1>2 DEF TabStep
<1>3. CASE InternStep
  BY <1>3 DEF InternStep
<1>4. CASE DequeStep
  BY <1>4 DEF DequeStep
<1>5. CASE BucketsStep
  BY <1>5 DEF BucketsStep
<1>6. CASE ArrayStep
  BY <1>6 DEF ArrayStep
<1>7. CASE SortStep
  BY <1>7 DEF SortStep
<1>8. CASE UNCHANGED vars
  BY <1>8 DEF vars
<1> QED BY <1>1, <1>2, <1>3, <1>4, <1>5, <1>6, <1>7, <1>8 DEF Next

\* ContainersTypeOK: sizes, indices and slots stay in their ranges, in every container, through
\* every growth, wrap-around and removal.
THEOREM ContainersTyped ==
  ASSUME RemovesAbsent = FALSE
  PROVE  Spec => []ContainersTypeOK
<1>1. Init => ContainersInv
  BY SetInitInv, TabInitInv, InternInitInv, DequeInitially, BucketInitInv, ArrInitHolds, SortInitInv
    DEF Init, ContainersInv
<1>2. ContainersInv /\ [Next]_vars => ContainersInv'
  <2> SUFFICES ASSUME ContainersInv, [Next]_vars PROVE ContainersInv'
    OBVIOUS
  <2>1. SetInv'
    BY OneContainerSteps, SetNextInv DEF ContainersInv
  <2>2. TabInv'
    BY OneContainerSteps, TabNextInv DEF ContainersInv
  <2>3. InternInv'
    BY OneContainerSteps, InternNextInv DEF ContainersInv
  <2>4. DequeInv'
    BY OneContainerSteps, DequeInductive DEF ContainersInv
  <2>5. BucketInv'
    BY OneContainerSteps, BucketNextInv DEF ContainersInv
  <2>6. ArrInv'
    <3>1. CASE UNCHANGED arrVars
      BY <3>1 DEF ContainersInv, ArrInv, arrVars
    <3>2. CASE ArrNext \/ MaxNext \/ OwnedNext
      BY <3>2, ArrNextKeeps, MaxNextKeeps, OwnedNextKeeps DEF ContainersInv
    <3> QED BY <3>1, <3>2, OneContainerSteps
  <2>7. SortInv'
    BY OneContainerSteps, SortNextInv DEF ContainersInv
  <2> QED BY <2>1, <2>2, <2>3, <2>4, <2>5, <2>6, <2>7 DEF ContainersInv
<1>3. ContainersInv => ContainersTypeOK
  BY SetInvType, TabInvType, InternInvType, DequeInvType, BucketInvType, ArrInvType, SortInvSorted
    DEF ContainersInv, ContainersTypeOK
<1> QED
  BY <1>1, <1>2, <1>3, PTL DEF Spec
=============================================================================
