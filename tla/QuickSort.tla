----------------------------- MODULE QuickSort ------------------------------
(***************************************************************************)
(* sort_view, _sort_range_impl and _sort_range_part                        *)
(* (include/AxleUtil/utility.h): a quicksort in place, one pass of the     *)
(* partition's loop a step.  The ranges still to be sorted are the calls   *)
(* on the stack.                                                           *)
(***************************************************************************)
EXTENDS Integers, SequencesExt

CONSTANT
  Inputs      \* the arrays to sort, as functions from 0..n-1 to numbers

ASSUME SortAssumption ==
  \A f \in Inputs : LET n == Cardinality(DOMAIN f) IN n \in Nat /\ f \in [0..n - 1 -> Int]

VARIABLES
  sortInput,    \* the array as it was given
  sortBase,     \* the array
  sortRanges,   \* the ranges [b, e) of the calls to come, innermost first
  sortB, sortE, sortI, sortJ, sortPivot,   \* of the partition under way; b = e: none
  sortFailed    \* an assertion failed

sortVars == <<sortInput, sortBase, sortRanges, sortB, sortE, sortI, sortJ, sortPivot, sortFailed>>

SortTypeOK ==
  /\ DOMAIN sortBase = DOMAIN sortInput
  /\ \A r \in Range(sortRanges) : r[1] <= r[2] /\ r[2] <= Cardinality(DOMAIN sortInput)
  /\ {sortB, sortE, sortI, sortJ, sortPivot} \subseteq 0..Cardinality(DOMAIN sortInput)
  /\ sortFailed \in BOOLEAN

SortInit ==
  /\ sortInput \in Inputs
  /\ sortBase = sortInput
  /\ sortRanges = <<<<0, Cardinality(DOMAIN sortInput)>>>>
  /\ sortB = 0 /\ sortE = 0 /\ sortI = 0 /\ sortJ = 0 /\ sortPivot = 0
  /\ sortFailed = FALSE

SortEnterShort ==
  /\ sortB = sortE /\ sortRanges # <<>>
  /\ Head(sortRanges)[1] + 1 >= Head(sortRanges)[2]
  /\ sortRanges' = Tail(sortRanges)
  /\ UNCHANGED <<sortInput, sortBase, sortB, sortE, sortI, sortJ, sortPivot, sortFailed>>

PivotOf(b, e) == (e + b + 1) \div 2

\* _sort_range_part up to its loop.
SortEnter ==
  LET b == Head(sortRanges)[1]
      e == Head(sortRanges)[2]
  IN /\ sortB = sortE /\ sortRanges # <<>>
     /\ b + 1 < e
     /\ sortRanges' = Tail(sortRanges)
     /\ sortB' = b /\ sortE' = e /\ sortI' = b /\ sortJ' = e
     /\ sortPivot' = PivotOf(b, e)
     /\ sortFailed' = ~(sortPivot' > b /\ sortPivot' < e)
     /\ UNCHANGED <<sortInput, sortBase>>

\* How far the two scans go: to the pivot, or to an element on the wrong side of it.
ScanUp ==
  Min({i \in sortI..sortE :
         i < sortE => i = sortPivot \/ sortBase[i] >= sortBase[sortPivot]})
ScanDown ==
  Max({j \in sortB..sortJ :
         j > sortB => j - 1 = sortPivot \/ sortBase[sortPivot] >= sortBase[j - 1]})

\* The scans have met: the two parts are sorted one after the other.
SortSplit ==
  /\ sortB < sortE
  /\ ScanUp >= ScanDown - 1
  /\ sortFailed' = ~(ScanUp < sortE /\ ScanDown > sortB)
  /\ sortRanges' = <<<<sortB, ScanUp>>, <<ScanUp, sortE>>>> \o sortRanges
  /\ sortB' = 0 /\ sortE' = 0 /\ sortI' = 0 /\ sortJ' = 0 /\ sortPivot' = 0
  /\ UNCHANGED <<sortInput, sortBase>>

\* Mutant: the pivot is taken to stay where it was.
SortSwapPivotStays ==
  /\ sortB < sortE
  /\ ScanUp < ScanDown - 1
  /\ sortBase' = [sortBase EXCEPT ![ScanUp] = sortBase[ScanDown - 1], ![ScanDown - 1] = sortBase[ScanUp]]
  /\ sortI' = ScanUp + 1
  /\ sortJ' = ScanDown - 1
  /\ UNCHANGED <<sortInput, sortRanges, sortB, sortE, sortPivot, sortFailed>>

\* Two elements are on the wrong sides: they are exchanged, and the pivot may be one.
SortSwap ==
  LET i == ScanUp
      j == ScanDown - 1
  IN /\ sortB < sortE
     /\ i < j
     /\ sortFailed' = ~(i < sortE /\ ScanDown > sortB /\ sortBase[i] >= sortBase[j])
     /\ sortBase' = [sortBase EXCEPT ![i] = sortBase[j], ![j] = sortBase[i]]
     /\ sortPivot' = CASE i = sortPivot -> j [] j = sortPivot -> i [] OTHER -> sortPivot
     /\ sortI' = i + 1
     /\ sortJ' = j
     /\ UNCHANGED <<sortInput, sortRanges, sortB, sortE>>

SortNext == ~sortFailed /\ (SortEnterShort \/ SortEnter \/ SortSplit \/ SortSwap)

SortDone == sortB = sortE /\ sortRanges = <<>>

\* The partition's assertions hold, elements are only exchanged, and when no call is left
\* the array is in order.
Sorted ==
  /\ ~sortFailed
  /\ \A x \in Range(sortInput) : Cardinality({i \in DOMAIN sortBase : sortBase[i] = x})
                                = Cardinality({i \in DOMAIN sortInput : sortInput[i] = x})
  /\ SortDone =>
       \A i, j \in DOMAIN sortBase : i < j => sortBase[i] <= sortBase[j]

=============================================================================
