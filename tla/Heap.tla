-------------------------------- MODULE Heap --------------------------------
(***************************************************************************)
(* The heap as the library uses it (include/AxleUtil/memory.h): the        *)
(* allocation functions, each with its entry in ALLOC_COUNTER, the table   *)
(* by which the test client looks for leaks.  heapLive is what malloc has  *)
(* given out and not got back.                                             *)
(***************************************************************************)
EXTENDS Integers, FiniteSetsExt, SequencesExt

CONSTANT Addresses   \* the addresses malloc returns

ASSUME HeapAssumption == IsFiniteSet(Addresses)

VARIABLES
  heapLive,      \* the number of bytes at each live address
  cntAllocs,     \* allocs
  cntStatic,     \* num_static_allocs
  cntSize,       \* current_allocated_size
  cntMaxSize,    \* max_allocated_size
  cntMaxBlocks,  \* max_allocated_blocks
  cntRuntime,    \* main_program_runtime
  cntFailed      \* an assertion failed

heapVars == <<heapLive, cntAllocs, cntStatic, cntSize, cntMaxSize, cntMaxBlocks, cntRuntime, cntFailed>>

Allocation == [mem : Addresses, element : 1..2, count : 1..2, static : BOOLEAN]
Bytes(a) == a.element * a.count

HeapTypeOK ==
  /\ DOMAIN heapLive \subseteq Addresses /\ \A a \in DOMAIN heapLive : heapLive[a] \in 1..4
  /\ cntAllocs \in Seq(Allocation)
  /\ {cntStatic, cntSize, cntMaxSize, cntMaxBlocks} \subseteq Nat
  /\ cntRuntime \in BOOLEAN /\ cntFailed \in BOOLEAN

HeapInit ==
  /\ heapLive = [a \in {} |-> 0] /\ cntAllocs = <<>>
  /\ cntStatic = 0 /\ cntSize = 0 /\ cntMaxSize = 0 /\ cntMaxBlocks = 0
  /\ cntRuntime = FALSE /\ cntFailed = FALSE

Unused == Addresses \ DOMAIN heapLive

\* The place of an address in the table, 0 when it has none.
Entry(a) ==
  LET found == {i \in DOMAIN cntAllocs : cntAllocs[i].mem = a}
  IN IF found = {} THEN 0 ELSE Min(found)

\* insert: a static allocation is one made before main.
CounterInsert(a, element, count) ==
  LET new == [mem |-> a, element |-> element, count |-> count, static |-> ~cntRuntime]
  IN /\ cntAllocs' = Append(cntAllocs, new)
     /\ cntStatic' = cntStatic + (IF cntRuntime THEN 0 ELSE 1)
     /\ cntMaxBlocks' = Max({cntMaxBlocks, Len(cntAllocs')})
     /\ cntSize' = cntSize + Bytes(new)
     /\ cntMaxSize' = Max({cntMaxSize, cntSize'})
     /\ UNCHANGED cntFailed

CounterUpdate(from, to, count) ==
  LET i == Entry(from)
  IN IF i = 0
       THEN cntFailed' = TRUE /\ UNCHANGED <<cntAllocs, cntSize, cntMaxSize>>
       ELSE /\ cntAllocs' = [cntAllocs EXCEPT ![i] = [@ EXCEPT !.mem = to, !.count = count]]
            /\ cntSize' = cntSize - Bytes(cntAllocs[i]) + Bytes(cntAllocs'[i])
            /\ cntMaxSize' = Max({cntMaxSize, cntSize'})
            /\ UNCHANGED cntFailed

\* Mutant: the table is shortened, and the entry stays unless it is the last.
RemoveSingleInPlace(allocs, i) == Front(allocs)

\* remove_single: the last entry takes the place of the one removed.
RemoveSingle(allocs, i) == Front([allocs EXCEPT ![i] = Last(allocs), ![Len(allocs)] = allocs[i]])

CounterRemove(a) ==
  LET i == Entry(a)
  IN IF i = 0 \/ (cntAllocs[i].static /\ cntStatic = 0)
       THEN cntFailed' = TRUE /\ UNCHANGED <<cntAllocs, cntSize, cntStatic>>
       ELSE /\ cntAllocs' = RemoveSingle(cntAllocs, i)
            /\ cntSize' = cntSize - Bytes(cntAllocs[i])
            /\ cntStatic' = cntStatic - (IF cntAllocs[i].static THEN 1 ELSE 0)
            /\ UNCHANGED cntFailed

\* allocate_default, allocate_single_constructed, and reallocate_default of nullptr.
HeapAllocate(element, count) == \E a \in Unused :
  /\ heapLive' = [x \in DOMAIN heapLive \union {a} |-> IF x = a THEN element * count ELSE heapLive[x]]
  /\ CounterInsert(a, element, count)
  /\ UNCHANGED cntRuntime

\* reallocate_default: realloc keeps the address or finds another.
HeapReallocate(from, count) == \E to \in Unused \union {from} :
  /\ heapLive' = [a \in (DOMAIN heapLive \ {from}) \union {to} |->
                    IF a = to THEN cntAllocs[Entry(from)].element * count ELSE heapLive[a]]
  /\ CounterUpdate(from, to, count)
  /\ UNCHANGED <<cntStatic, cntMaxBlocks, cntRuntime>>

\* free_destruct_single, free_destruct_n, free_no_destruct.
HeapFree(a) ==
  /\ CounterRemove(a)
  /\ heapLive' = [x \in DOMAIN heapLive \ {a} |-> heapLive[x]]
  /\ UNCHANGED <<cntMaxSize, cntMaxBlocks, cntRuntime>>

\* The test client has come to its main function.
EnterMain ==
  /\ ~cntRuntime /\ cntRuntime' = TRUE
  /\ UNCHANGED <<heapLive, cntAllocs, cntStatic, cntSize, cntMaxSize, cntMaxBlocks, cntFailed>>

HeapNext ==
  /\ ~cntFailed
  /\ \/ \E element, count \in 1..2 : HeapAllocate(element, count)
     \/ \E a \in DOMAIN heapLive, count \in 1..2 : HeapReallocate(a, count)
     \/ \E a \in DOMAIN heapLive : HeapFree(a)
     \/ EnterMain

\* The bytes that are allocated.
LiveBytes == {x \in (DOMAIN heapLive) \X (1..4) : x[2] <= heapLive[x[1]]}

\* Whatever was moved by realloc and freed in whatever order, the table has each live
\* allocation once with its size, so that what the client finds in it is leaked and
\* what is leaked is found; the totals and the number of static entries agree with it.
CounterExact ==
  /\ ~cntFailed
  /\ Len(cntAllocs) = Cardinality(DOMAIN heapLive)
  /\ \A a \in DOMAIN heapLive : Entry(a) # 0 /\ Bytes(cntAllocs[Entry(a)]) = heapLive[a]
  /\ cntSize = Cardinality(LiveBytes)
  /\ cntStatic = Cardinality({e \in Range(cntAllocs) : e.static})
  /\ cntSize <= cntMaxSize /\ Len(cntAllocs) <= cntMaxBlocks
=============================================================================
