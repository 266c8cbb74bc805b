---------------------------- MODULE MCContainers ----------------------------
(***************************************************************************)
(* The containers of the library for TLC, each exercised by itself: the    *)
(* subject is chosen at the start and the others stay as they are.         *)
(***************************************************************************)
EXTENDS HashSet, HashTable, Interner, Deque, Buckets, Arrays, QuickSort

CONSTANT Subjects    \* the containers a run looks at

VARIABLE subject

vars == <<subject, setVars, tabVars, internVars, dequeVars, bucketVars, arrVars, sortVars>>

\* Three keys whose first slot is the same in a table of four, two of them in one of
\* eight as well, and one whose search starts at the last slot.
MCHash == [k \in Keys |-> CASE k = 1 -> 1 [] k = 2 -> 5 [] k = 3 -> 9 [] k = 4 -> 3 [] OTHER -> 7]

\* Every array of up to six elements with up to three values.
MCInputs == UNION {[0..n - 1 -> 0..2] : n \in 0..6}

\* Every container keeps to its type: sizes, indices and slots lie in their ranges.
ContainersTypeOK ==
  /\ SetTypeOK /\ TabTypeOK /\ InternTypeOK /\ DequeTypeOK /\ BucketTypeOK /\ ArrTypeOK /\ SortTypeOK

Init ==
  /\ subject \in Subjects
  /\ SetInit /\ TabInit /\ InternInit /\ DequeInit /\ BucketInit /\ ArrInit /\ SortInit
  /\ subject # "array" => arrKind = "Array"
  /\ subject # "sort" => sortInput = <<>>

SetStep == subject = "set" /\ SetNext /\ UNCHANGED <<tabVars, internVars, dequeVars, bucketVars, arrVars, sortVars>>
TabStep == subject = "table" /\ TabNext /\ UNCHANGED <<setVars, internVars, dequeVars, bucketVars, arrVars, sortVars>>
InternStep == subject = "interner" /\ InternNext /\ UNCHANGED <<setVars, tabVars, dequeVars, bucketVars, arrVars, sortVars>>
DequeStep == subject = "queue" /\ DequeNext /\ UNCHANGED <<setVars, tabVars, internVars, bucketVars, arrVars, sortVars>>
BucketsStep == subject = "buckets" /\ BucketNext /\ UNCHANGED <<setVars, tabVars, internVars, dequeVars, arrVars, sortVars>>
ArrayStep ==
  /\ subject = "array"
  /\ ArrNext \/ MaxNext \/ OwnedNext
  /\ UNCHANGED <<setVars, tabVars, internVars, dequeVars, bucketVars, sortVars>>
SortStep == subject = "sort" /\ SortNext /\ UNCHANGED <<setVars, tabVars, internVars, dequeVars, bucketVars, arrVars>>

Next ==
  /\ SetStep \/ TabStep \/ InternStep \/ DequeStep \/ BucketsStep \/ ArrayStep \/ SortStep
  /\ UNCHANGED subject

Spec == Init /\ [][Next]_vars
=============================================================================
