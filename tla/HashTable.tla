----------------------------- MODULE HashTable ------------------------------
(***************************************************************************)
(* struct InternalHashTable (include/AxleUtil/hash.h): keys and values in  *)
(* two arrays under one index.  tabMap is the map the caller expects to    *)
(* find; tabDue are the keys that have been there since an iteration began *)
(* and tabSeen those of them that it has visited.                          *)
(***************************************************************************)
EXTENDS Probing

CONSTANTS
  Values,       \* the values the program stores
  NewValue,     \* T(), what get_or_create stores
  NoValue       \* no value, and a slot whose value is not constructed

ASSUME HashTableAssumption == NewValue \in Values /\ NoValue \notin Values

VARIABLES
  tabKeys,      \* key_arr(), with el_capacity as its size
  tabVals,      \* val_arr()
  tabUsed,      \* used
  tabItr,       \* Iterator::i, or NoItr when Iterator::table is nullptr
  tabMap, tabDue, tabSeen,
  tabItrWrong,  \* an iteration visited a key twice, or missed one
  tabFailed     \* an assertion failed

tabVars == <<tabKeys, tabVals, tabUsed, tabItr, tabMap, tabDue, tabSeen, tabItrWrong, tabFailed>>

NoItr == -1
NoMap == [k \in {} |-> NoValue]

TabTypeOK ==
  /\ SlotsOK(tabKeys)
  /\ tabVals \in [DOMAIN tabKeys -> Values \union {NoValue}]
  /\ tabUsed \in 0..MaxCapacity
  /\ tabItr \in DOMAIN tabKeys \union {NoItr}
  /\ DOMAIN tabMap \subseteq Keys /\ \A k \in DOMAIN tabMap : tabMap[k] \in Values
  /\ tabDue \subseteq Keys /\ tabSeen \subseteq Keys
  /\ tabItrWrong \in BOOLEAN /\ tabFailed \in BOOLEAN

TabInit ==
  /\ tabKeys = NoSlots
  /\ tabVals = NoMap
  /\ tabUsed = 0
  /\ tabItr = NoItr
  /\ tabMap = NoMap
  /\ tabDue = {} /\ tabSeen = {}
  /\ tabItrWrong = FALSE /\ tabFailed = FALSE

\* get_insert_soa_index, and its assertion debug_found_empty.
HasPlace(keys, k) == keys[Place(keys, k)] \in {k, EMPTY, TOMBSTONE}

\* ensure_invariants, which every operation asserts first.
EnsureInvariants(keys, used) ==
  IF keys = NoSlots THEN used = 0 ELSE ~NeedsResize(Capacity(keys), used, 0)

\* One key and its value put where they belong; the call fails where there is no place.
PutPair(t, k, v) ==
  [keys |-> [t.keys EXCEPT ![Place(t.keys, k)] = k],
   vals |-> [t.vals EXCEPT ![Place(t.keys, k)] = v],
   ok |-> t.ok /\ HasPlace(t.keys, k)]

\* The pairs of the first n slots in larger arrays.
TabMoved(t, capacity) ==
  LET moved[n \in 0..Capacity(t.keys)] ==
        IF n = 0 THEN [keys |-> FreshSlots(capacity),
                       vals |-> [i \in 0..capacity - 1 |-> NoValue], ok |-> TRUE]
        ELSE IF t.keys[n - 1] \in Keys
          THEN PutPair(moved[n - 1], t.keys[n - 1], t.vals[n - 1])
        ELSE moved[n - 1]
  IN moved

\* try_extend.  ASSERT(debug_copied == used): used counts the keys that were moved.
Grown(t, used, extra) ==
  LET from == IF t.keys = NoSlots THEN FirstCapacity ELSE Capacity(t.keys)
      moved == TabMoved(t, Extended(from, used, extra))[Capacity(t.keys)]
  IN [moved EXCEPT !.ok = /\ @ /\ t.ok
                          /\ NeedsResize(Capacity(t.keys), used, extra)
                          /\ Cardinality(LiveSlots(t.keys)) = used]

Tab == [keys |-> tabKeys, vals |-> tabVals, ok |-> EnsureInvariants(tabKeys, tabUsed)]

MakeRoom(t, used, extra) ==
  IF NeedsResize(Capacity(t.keys), used, extra) THEN Grown(t, used, extra) ELSE t

\* The operation leaves t and used, and the caller's map is map.  Growing ends an
\* iteration, as the caller must know; adding and removing keys does not.
TabSet(t, used, map) ==
  /\ Capacity(t.keys) <= MaxCapacity
  /\ tabKeys' = t.keys
  /\ tabVals' = t.vals
  /\ tabUsed' = used
  /\ tabFailed' = ~(t.ok /\ EnsureInvariants(t.keys, used))
  /\ tabMap' = map
  /\ IF Capacity(t.keys) = Capacity(tabKeys)
       THEN /\ tabDue' = tabDue \intersect DOMAIN map
            /\ tabSeen' = tabSeen \intersect DOMAIN map
            /\ UNCHANGED tabItr
       ELSE tabItr' = NoItr /\ tabDue' = {} /\ tabSeen' = {}
  /\ UNCHANGED tabItrWrong

TabHas(k) == tabKeys # NoSlots /\ HasKey(tabKeys, k)

\* get_val and get_val_multiple, with NoValue for nullptr.
TabGet(k) == IF TabHas(k) THEN tabVals[Place(tabKeys, k)] ELSE NoValue
TabGetMultiple(ks) == [i \in DOMAIN ks |-> TabGet(ks[i])]

\* A key that is missing is searched for, with a place to put it, before there is room.
Searched(t, k) == [t EXCEPT !.ok = @ /\ (t.keys # NoSlots => HasPlace(t.keys, k))]

\* The caller's map with keys that were not in it.
WithKeys(map, new, v) ==
  [k \in DOMAIN map \union new |-> IF k \in DOMAIN map THEN map[k] ELSE v]

TabInsert(k, v) ==
  IF TabHas(k)
    THEN TabSet(PutPair(Tab, k, v), tabUsed, [tabMap EXCEPT ![k] = v])
    ELSE TabSet(PutPair(MakeRoom(Searched(Tab, k), tabUsed, 1), k, v),
                tabUsed + 1, WithKeys(tabMap, {k}, v))

TabGetOrCreate(k) ==
  IF TabHas(k) THEN UNCHANGED tabVars
  ELSE TabSet(PutPair(MakeRoom(Searched(Tab, k), tabUsed, 1), k, NewValue),
              tabUsed + 1, WithKeys(tabMap, {k}, NewValue))

\* The first n keys of ks that are not in t put there with new values.
Created(t, ks) ==
  LET created[n \in 0..Len(ks)] ==
        IF n = 0 THEN t
        ELSE IF HasKey(created[n - 1].keys, ks[n]) THEN created[n - 1]
        ELSE PutPair(created[n - 1], ks[n], NewValue)
  IN created

\* Mutant: room is made for one key.
TabGetOrCreateMultipleOne(ks) ==
  LET new == {k \in Range(ks) : ~TabHas(k)}
  IN /\ new # {}
     /\ TabSet(Created(MakeRoom(Tab, tabUsed, 1), ks)[Len(ks)],
               tabUsed + Cardinality(new), WithKeys(tabMap, new, NewValue))

\* The keys that are missing are counted one by one, a key that is asked for twice
\* twice; room is made for them once.
TabGetOrCreateMultiple(ks) ==
  LET missing == Cardinality({i \in DOMAIN ks : TabGetMultiple(ks)[i] = NoValue})
      new == {k \in Range(ks) : ~TabHas(k)}
  IN IF missing = 0 THEN UNCHANGED tabVars
     ELSE TabSet(Created(MakeRoom(Tab, tabUsed, missing), ks)[Len(ks)],
                 tabUsed + Cardinality(new), WithKeys(tabMap, new, NewValue))

\* remove of a slot, and take, which asserts that there is one and returns the value.
TabClear(i) ==
  TabSet([keys |-> [tabKeys EXCEPT ![i] = TOMBSTONE],
          vals |-> [tabVals EXCEPT ![i] = NoValue], ok |-> Tab.ok],
         tabUsed - 1,
         [k \in DOMAIN tabMap \ {tabKeys[i]} |-> tabMap[k]])

TabRemove(k) ==
  IF TabHas(k) THEN TabClear(Place(tabKeys, k)) ELSE UNCHANGED tabVars

TabTake(k) ==
  /\ k \in DOMAIN tabMap
  /\ IF TabHas(k) THEN TabClear(Place(tabKeys, k))
     ELSE tabFailed' = TRUE /\ UNCHANGED <<tabKeys, tabVals, tabUsed, tabItr, tabMap, tabDue, tabSeen, tabItrWrong>>

TabDestroy == TabSet([keys |-> NoSlots, vals |-> NoMap, ok |-> Tab.ok], 0, NoMap)

\* Mutant: a slot without a key ends the iteration.
NextItrGap(i) == IF i + 1 \in LiveSlots(tabKeys) THEN i + 1 ELSE NoItr

\* Iterator::next: on to the next slot with a key, or to none.
NextItr(i) ==
  LET ahead == {j \in LiveSlots(tabKeys) : j > i}
  IN IF ahead = {} THEN NoItr ELSE Min(ahead)

\* The caller looks at the pair under the iterator, or finds that there are no more.
Visit(i, seen, due) ==
  /\ tabItr' = i
  /\ tabSeen' = IF i = NoItr THEN {} ELSE seen \union ({tabKeys[i]} \intersect due)
  /\ tabDue' = IF i = NoItr THEN {} ELSE due
  /\ tabItrWrong' = IF i = NoItr THEN ~(due \subseteq seen) ELSE tabKeys[i] \in seen
  /\ UNCHANGED <<tabKeys, tabVals, tabUsed, tabMap, tabFailed>>

TabItrBegin == tabItr = NoItr /\ Visit(NextItr(NoItr), {}, DOMAIN tabMap)
TabItrNext == tabItr # NoItr /\ Visit(NextItr(tabItr), tabSeen, tabDue)

TabNext ==
  /\ ~tabFailed
  /\ \/ \E k \in Keys : \/ \E v \in Values : TabInsert(k, v)
                        \/ TabGetOrCreate(k) \/ TabRemove(k) \/ TabTake(k)
     \/ \E k1, k2 \in Keys : TabGetOrCreateMultiple(<<k1, k2>>)
     \/ TabDestroy \/ TabItrBegin \/ TabItrNext

\* get_val answers every key with the value last stored for it, and no key that was
\* removed, whatever tombstones lie on the way and however often the pairs were moved
\* into larger arrays; values exist under the keys alone, so that each is destroyed once.
\* The assertions of hash.h about the table's own state never fail: used counts the keys
\* (537), an insertion finds a place (467), and the load stays below its limit
\* (ensure_invariants), also while several keys are created after one extension.
TabAgrees ==
  /\ \A k \in Keys : TabGet(k) = IF k \in DOMAIN tabMap THEN tabMap[k] ELSE NoValue
  /\ \A i \in DOMAIN tabKeys : tabKeys[i] \in Keys <=> tabVals[i] # NoValue
  /\ ~tabFailed
  /\ tabUsed = Cardinality(LiveSlots(tabKeys))
  /\ EnsureInvariants(tabKeys, tabUsed)
  /\ tabKeys # NoSlots => \A k \in Keys : HasPlace(tabKeys, k)

\* Keys may be added and removed during an iteration as long as the table does not grow:
\* an iteration that ends has visited every key that was there all the time, and none of
\* them twice.
TabItrComplete == ~tabItrWrong
=============================================================================
