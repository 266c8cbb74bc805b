------------------------------- MODULE Arrays -------------------------------
(***************************************************************************)
(* struct Array, struct ArrayMax, struct OwnedArr and the functions on     *)
(* them (include/AxleUtil/utility.h).  Array makes room for itself;        *)
(* ArrayMax keeps the capacity it was made with and asserts that there is  *)
(* room; an OwnedArr is a buffer of exactly its size, taken from an Array. *)
(* Slots from size up hold what was left in them.  arrItems is the         *)
(* sequence the caller expects.                                            *)
(***************************************************************************)
EXTENDS Pow2

CONSTANTS
  Elems,              \* the values stored
  DefaultElem,        \* T()
  ArrFirstCapacity,   \* the least capacity of an Array, 8 in the code
  ArrMaxCapacity      \* the capacity of the ArrayMax, and a bound on that of the Array

ASSUME ArraysAssumption ==
  /\ DefaultElem \notin Elems
  /\ ArrMaxCapacity \in Nat /\ ArrFirstCapacity \in 1..ArrMaxCapacity

VARIABLES
  arrKind,    \* "Array", "ArrayMax" or "OwnedArr"
  arrData,    \* data, with capacity as its size
  arrSize,    \* size
  arrItems

arrVars == <<arrKind, arrData, arrSize, arrItems>>

Allocated(n) == [i \in 0..n - 1 |-> DefaultElem]
SizeOfData(data) == Cardinality(DOMAIN data)
Contents(data, size) == [i \in 1..size |-> data[i - 1]]

ArrTypeOK ==
  /\ arrKind \in {"Array", "ArrayMax", "OwnedArr"}
  /\ arrData \in UNION {[0..c - 1 -> Elems \union {DefaultElem}] : c \in 0..ArrMaxCapacity}
  /\ arrSize \in 0..SizeOfData(arrData)
  /\ arrKind = "ArrayMax" => SizeOfData(arrData) = ArrMaxCapacity
  /\ arrKind = "OwnedArr" => SizeOfData(arrData) = arrSize

ArrInit ==
  /\ arrKind \in {"Array", "ArrayMax"}
  /\ arrData = IF arrKind = "ArrayMax" THEN Allocated(ArrMaxCapacity) ELSE Allocated(0)
  /\ arrSize = 0
  /\ arrItems = <<>>

\* try_reserve_next, and realloc, which keeps what fits.
Resize(data, n) == [i \in 0..n - 1 |-> IF i \in DOMAIN data THEN data[i] ELSE DefaultElem]
Reserved(data, total) ==
  CASE total <= SizeOfData(data) -> data
    [] total > SizeOfData(data) /\ total < ArrFirstCapacity -> Resize(data, ArrFirstCapacity)
    [] OTHER -> Resize(data, CeilToPow2(total))

\* Mutant: upwards, where each element overwrites the next before that has moved.
MovedUpAscending(data, index, size) ==
  LET loop[n \in 0..size - index - 1] ==
        IF n = 0 THEN data
        ELSE LET d == loop[n - 1] IN [d EXCEPT ![index + n] = d[index + n - 1]]
  IN loop[size - index - 1]

\* Elements are moved one by one, by an index that goes down or up.
MovedUp(data, index, size) ==
  LET loop[n \in 0..size - index - 1] ==
        IF n = 0 THEN data
        ELSE LET d == loop[n - 1] IN [d EXCEPT ![size - n] = d[size - n - 1]]
  IN loop[size - index - 1]

MovedDown(data, index, size) ==
  LET loop[n \in 0..size - index - 1] ==
        IF n = 0 THEN data
        ELSE LET d == loop[n - 1] IN [d EXCEPT ![index + n - 1] = d[index + n]]
  IN loop[size - index - 1]

\* remove_if: what stays is moved down by the number removed so far.
Kept(data, size, S) ==
  LET loop[n \in 0..size] ==
        IF n = 0 THEN [data |-> data, removed |-> 0]
        ELSE LET k == loop[n - 1]
             IN IF k.data[n - 1] \in S THEN [data |-> k.data, removed |-> k.removed + 1]
                ELSE [data |-> [k.data EXCEPT ![n - 1 - k.removed] = k.data[n - 1]],
                      removed |-> k.removed]
  IN loop[size]

\* concat and insert write from slot size on.
Written(data, size, s) ==
  LET loop[n \in 0..Len(s)] == IF n = 0 THEN data ELSE [loop[n - 1] EXCEPT ![size + n - 1] = s[n]]
  IN loop[Len(s)]

\* reverse_array: the outer pair first.
Reversed(data, size) ==
  LET loop[n \in 0..size \div 2] ==
        IF n = 0 THEN data
        ELSE LET d == loop[n - 1]
             IN [d EXCEPT ![n - 1] = d[size - n], ![size - n] = d[n - 1]]
  IN loop[size \div 2]

\* The elements of a sequence that are not in S, in their order: the k-th of them is the one
\* up to which there are k.
Without(s, S) ==
  LET stays == {i \in DOMAIN s : s[i] \notin S}
      nth(k) == CHOOSE i \in stays : Cardinality({j \in stays : j <= i}) = k
  IN [k \in 1..Cardinality(stays) |-> s[nth(k)]]

\* combine_unique looks only at the elements there were.
Missing(s, data, size) == Without(s, Range(Contents(data, size)))

ArrSet(data, size, items) ==
  /\ SizeOfData(data) <= ArrMaxCapacity
  /\ arrData' = data /\ arrSize' = size /\ arrItems' = items
  /\ UNCHANGED arrKind

-----------------------------------------------------------------------------
(* Array *)

ArrConcat(s) ==
  ArrSet(Written(Reserved(arrData, arrSize + Len(s)), arrSize, s), arrSize + Len(s), arrItems \o s)

ArrInsert(x) == ArrConcat(<<x>>)

ArrInsertUninit(n) ==
  ArrSet(Written(Reserved(arrData, arrSize + n), arrSize, [i \in 1..n |-> DefaultElem]),
         arrSize + n, arrItems \o [i \in 1..n |-> DefaultElem])

ArrCombineUnique(s) == ArrConcat(Missing(s, arrData, arrSize))

ArrInsertAt(index, x) ==
  ArrSet([MovedUp(Reserved(arrData, arrSize + 1), index, arrSize + 1) EXCEPT ![index] = x],
         arrSize + 1, InsertAt(arrItems, index + 1, x))

ArrRemoveAt(index) ==
  ArrSet(MovedDown(arrData, index, arrSize), arrSize - 1, RemoveAt(arrItems, index + 1))

ArrRemoveIf(S) ==
  LET kept == Kept(arrData, arrSize, S)
  IN ArrSet(kept.data, arrSize - kept.removed, Without(arrItems, S))

ArrReplace(a, b) ==
  ArrSet([i \in DOMAIN arrData |-> IF i < arrSize /\ arrData[i] = a THEN b ELSE arrData[i]],
         arrSize, [i \in DOMAIN arrItems |-> IF arrItems[i] = a THEN b ELSE arrItems[i]])

ArrReserve(total) == ArrSet(Reserved(arrData, total), arrSize, arrItems)

\* shrink; of an empty array it is free, which leaves no data either.
ArrShrink == ArrSet(Resize(arrData, arrSize), arrSize, arrItems)

\* pop_n, and with it pop, take and clear.
ArrPopN(n) == ArrSet(arrData, arrSize - n, SubSeq(arrItems, 1, Len(arrItems) - n))

ArrReverse == ArrSet(Reversed(arrData, arrSize), arrSize, Reverse(arrItems))

ArrFree == ArrSet(Allocated(0), 0, <<>>)

\* copy_arr_to: from another array, into this one.
ArrCopyTo(s) == ArrSet(Written(Reserved(arrData, Len(s)), 0, s), Len(s), s)

\* bake_arr: the array is shrunk and its buffer given away.
ArrBake ==
  /\ arrKind' = "OwnedArr"
  /\ arrData' = Resize(arrData, arrSize)
  /\ UNCHANGED <<arrSize, arrItems>>

ArrNext ==
  /\ arrKind = "Array"
  /\ \/ \E x \in Elems : ArrInsert(x) \/ \E i \in 0..arrSize : ArrInsertAt(i, x)
     \/ \E a, b \in Elems : ArrConcat(<<a, b>>) \/ ArrCombineUnique(<<a, b>>)
                            \/ ArrReplace(a, b) \/ ArrCopyTo(<<a, b>>)
     \/ \E i \in 0..arrSize - 1 : ArrRemoveAt(i)
     \/ \E S \in SUBSET Elems : ArrRemoveIf(S)
     \/ \E n \in 1..2 : ArrInsertUninit(n)
     \/ \E n \in 0..arrSize : ArrPopN(n)
     \/ \E n \in 0..ArrMaxCapacity : ArrReserve(n)
     \/ ArrShrink \/ ArrReverse \/ ArrFree \/ ArrBake

-----------------------------------------------------------------------------
(* ArrayMax *)

MaxInsert(x) ==
  /\ arrSize < SizeOfData(arrData)
  /\ ArrSet([arrData EXCEPT ![arrSize] = x], arrSize + 1, Append(arrItems, x))

MaxInsertUninit(n) ==
  /\ arrSize + n <= SizeOfData(arrData)
  /\ ArrSet(Written(arrData, arrSize, [i \in 1..n |-> DefaultElem]), arrSize + n,
            arrItems \o [i \in 1..n |-> DefaultElem])

MaxInsertAt(index, x) ==
  /\ arrSize < SizeOfData(arrData)
  /\ ArrSet([MovedUp(arrData, index, arrSize + 1) EXCEPT ![index] = x],
            arrSize + 1, InsertAt(arrItems, index + 1, x))

MaxRemoveAt(index) ==
  ArrSet(MovedDown(arrData, index, arrSize), arrSize - 1, RemoveAt(arrItems, index + 1))

MaxPopN(n) == ArrSet(arrData, arrSize - n, SubSeq(arrItems, 1, Len(arrItems) - n))

MaxRemoveIf(S) ==
  LET kept == Kept(arrData, arrSize, S)
  IN ArrSet(kept.data, arrSize - kept.removed, Without(arrItems, S))

MaxNext ==
  /\ arrKind = "ArrayMax"
  /\ \/ \E x \in Elems : MaxInsert(x) \/ \E i \in 0..arrSize : MaxInsertAt(i, x)
     \/ \E i \in 0..arrSize - 1 : MaxRemoveAt(i)
     \/ \E S \in SUBSET Elems : MaxRemoveIf(S)
     \/ \E n \in 1..2 : MaxInsertUninit(n)
     \/ \E n \in 0..arrSize : MaxPopN(n)

-----------------------------------------------------------------------------
(* OwnedArr *)

\* It is replaced by a copy of another one (copy_arr and operator=), or freed, and the
\* program starts with an empty Array again.
OwnedCopy(s) ==
  /\ Len(s) <= ArrMaxCapacity
  /\ arrData' = Written(Allocated(Len(s)), 0, s)
  /\ arrSize' = Len(s) /\ arrItems' = s
  /\ UNCHANGED arrKind

OwnedFree ==
  /\ arrKind' = "Array"
  /\ arrData' = Allocated(0) /\ arrSize' = 0 /\ arrItems' = <<>>

OwnedNext ==
  /\ arrKind = "OwnedArr"
  /\ OwnedFree \/ \E a, b \in Elems : OwnedCopy(<<a, b>>)

\* Elements shifted up and down one by one, removed in one pass, appended to a buffer that
\* is allocated anew, shrunk and grown: the first size slots hold the sequence that the
\* same operations give on sequences.
ArrayAgrees == Contents(arrData, arrSize) = arrItems
=============================================================================
