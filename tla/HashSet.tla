------------------------------ MODULE HashSet -------------------------------
(***************************************************************************)
(* struct InternalHashSet (include/AxleUtil/hash.h).  setMembers is what   *)
(* the caller has put in and not taken out again.                          *)
(***************************************************************************)
EXTENDS Probing

CONSTANT
  RemovesAbsent   \* whether the caller removes keys that are not in the set

ASSUME HashSetAssumption == RemovesAbsent \in BOOLEAN

VARIABLES
  setSlots,     \* data, with el_capacity as its size
  setUsed,      \* used
  setMembers,
  setPanicked   \* an assertion failed

setVars == <<setSlots, setUsed, setMembers, setPanicked>>

SetTypeOK ==
  /\ SlotsOK(setSlots)
  /\ setUsed \in 0..MaxCapacity
  /\ setMembers \subseteq Keys
  /\ setPanicked \in BOOLEAN

SetInit ==
  /\ setSlots = NoSlots
  /\ setUsed = 0
  /\ setMembers = {}
  /\ setPanicked = FALSE

\* try_extend: the keys of the first n slots in a larger array, put there one by one.
Moved(slots, capacity) ==
  LET moved[n \in 0..Capacity(slots)] ==
        IF n = 0 THEN FreshSlots(capacity)
        ELSE IF slots[n - 1] \in Keys THEN Put(moved[n - 1], slots[n - 1])
        ELSE moved[n - 1]
  IN moved

Rehashed(slots, used, extra) ==
  IF NeedsResize(Capacity(slots), used, extra)
    THEN Moved(slots, Extended(Capacity(slots), used, extra))[Capacity(slots)]
    ELSE slots

SetPut(slots, k) ==
  /\ setSlots' = Rehashed(Put(slots, k), setUsed + 1, 0)
  /\ Capacity(setSlots') <= MaxCapacity
  /\ setUsed' = setUsed + 1
  /\ setMembers' = setMembers \union {k}
  /\ UNCHANGED setPanicked

SetInsertFirst(k) ==
  /\ setSlots = NoSlots
  /\ setSlots' = Put(FreshSlots(FirstCapacity), k)
  /\ setUsed' = setUsed + 1
  /\ setMembers' = {k}
  /\ UNCHANGED setPanicked

SetInsert(k) ==
  /\ setSlots # NoSlots
  /\ CASE setSlots[Place(setSlots, k)] = k -> UNCHANGED setVars
       [] setSlots[Place(setSlots, k)] \in {EMPTY, TOMBSTONE} -> SetPut(setSlots, k)
       [] OTHER -> setPanicked' = TRUE /\ UNCHANGED <<setSlots, setUsed, setMembers>>

\* The caller reserves room; of an empty set try_extend would never return.
SetTryExtend(num) ==
  /\ setSlots # NoSlots
  /\ setSlots' = Rehashed(setSlots, setUsed, num)
  /\ Capacity(setSlots') <= MaxCapacity
  /\ UNCHANGED <<setUsed, setMembers, setPanicked>>

\* Mutant: the slot is emptied, and searches for other keys stop there.
SetRemoveEmpty(k) ==
  /\ k \in setMembers
  /\ setSlots' = [setSlots EXCEPT ![Place(setSlots, k)] = EMPTY]
  /\ setUsed' = setUsed - 1
  /\ setMembers' = setMembers \ {k}
  /\ UNCHANGED setPanicked

SetRemove(k) ==
  /\ k \in setMembers \/ RemovesAbsent
  /\ IF setUsed > 0 /\ setSlots # NoSlots
       THEN /\ setSlots' = [setSlots EXCEPT ![Place(setSlots, k)] = TOMBSTONE]
            /\ setUsed' = setUsed - 1
            /\ UNCHANGED setPanicked
       ELSE /\ setPanicked' = TRUE
            /\ UNCHANGED <<setSlots, setUsed>>
  /\ setMembers' = setMembers \ {k}

SetDestroy ==
  /\ setSlots' = NoSlots
  /\ setUsed' = 0
  /\ setMembers' = {}
  /\ UNCHANGED setPanicked

SetNext ==
  /\ ~setPanicked
  /\ \/ \E k \in Keys : SetInsertFirst(k) \/ SetInsert(k) \/ SetRemove(k)
     \/ \E num \in 1..2 : SetTryExtend(num)
     \/ SetDestroy

\* However keys collided, were removed and had their tombstones reused, and however
\* often the table grew, contains answers yes for exactly the members, and used counts
\* them, each in one slot.
SetAgrees ==
  /\ ~setPanicked
  /\ \A k \in Keys : (setSlots # NoSlots /\ HasKey(setSlots, k)) <=> k \in setMembers
  /\ setUsed = Cardinality(setMembers)
  /\ setUsed = Cardinality(LiveSlots(setSlots))

\* ASSERT(loc is EMPTY or TOMBSTONE) in insert, hash.h:352: where contains does not
\* find a key there is a place for it.
SetInsertFindsPlace ==
  setSlots # NoSlots =>
    \A k \in Keys : setSlots[Place(setSlots, k)] \in {k, EMPTY, TOMBSTONE}
=============================================================================
