------------------------------ MODULE Buckets -------------------------------
(***************************************************************************)
(* struct BucketArray (include/AxleUtil/utility.h): a list of blocks that  *)
(* only grows, so that a pointer to an element stays good, and iterators   *)
(* over it that may be under way while elements are added.  An element is  *)
(* known by the order in which it was inserted.                            *)
(***************************************************************************)
EXTENDS Integers, SequencesExt

CONSTANTS
  BucketSize,     \* BLOCK::BLOCK_SIZE, 64 in the code
  MaxElements     \* bound: elements inserted

ASSUME BucketAssumption == BucketSize \in Nat \ {0} /\ MaxElements \in Nat

VARIABLES
  bucketBlocks,   \* the blocks from first to last: each the elements below filled
  bucketItr,      \* an Iter: its block, 0 for nullptr, and its index
  bucketSeen      \* the elements it has been at

bucketVars == <<bucketBlocks, bucketItr, bucketSeen>>

BucketCount == Cardinality(UNION {Range(bucketBlocks[b]) : b \in DOMAIN bucketBlocks})
NoBlock == [block |-> 0, index |-> 0]

BucketTypeOK ==
  /\ \A b \in DOMAIN bucketBlocks :
       /\ Len(bucketBlocks[b]) \in 1..BucketSize
       /\ b < Len(bucketBlocks) => Len(bucketBlocks[b]) = BucketSize
  /\ bucketItr.block \in 0..Len(bucketBlocks)
  /\ bucketItr.index \in 0..BucketSize - 1
  /\ bucketSeen \in Seq(1..MaxElements)

BucketInit ==
  /\ bucketBlocks = <<>>
  /\ bucketItr = NoBlock
  /\ bucketSeen = <<>>

BucketInsert ==
  LET new == BucketCount + 1
      full == bucketBlocks = <<>> \/ Len(Last(bucketBlocks)) = BucketSize
  IN /\ new <= MaxElements
     /\ bucketBlocks' = IF full THEN Append(bucketBlocks, <<new>>)
                        ELSE [bucketBlocks EXCEPT ![Len(bucketBlocks)] = Append(@, new)]
     /\ UNCHANGED <<bucketItr, bucketSeen>>

\* The caller reads the element under the iterator: get asserts that there is one.
BucketVisit(itr, seen) ==
  /\ bucketItr' = itr
  /\ bucketSeen' = IF itr.block = 0 THEN seen
                   ELSE Append(seen, bucketBlocks[itr.block][itr.index + 1])
  /\ UNCHANGED bucketBlocks

\* begin and mut_begin: at the first block, which is nullptr if there is none.
BucketBegin ==
  /\ bucketItr.block = 0
  /\ BucketVisit([block |-> IF bucketBlocks = <<>> THEN 0 ELSE 1, index |-> 0], <<>>)

\* Mutant: the last element of a block ends the iteration.
AfterIterOneBlock(itr) ==
  IF itr.index + 1 < Len(bucketBlocks[itr.block]) THEN [itr EXCEPT !.index = @ + 1] ELSE NoBlock

\* next: after the last element of a block, the next block or nullptr.
AfterIter(itr) ==
  IF itr.index + 1 < Len(bucketBlocks[itr.block])
    THEN [itr EXCEPT !.index = @ + 1]
    ELSE [block |-> IF itr.block = Len(bucketBlocks) THEN 0 ELSE itr.block + 1, index |-> 0]

BucketStep == bucketItr.block # 0 /\ BucketVisit(AfterIter(bucketItr), bucketSeen)

\* ~BucketArray
BucketDestroy ==
  /\ bucketBlocks' = <<>>
  /\ bucketItr' = NoBlock
  /\ bucketSeen' = <<>>

BucketNext == BucketInsert \/ BucketBegin \/ BucketStep \/ BucketDestroy

\* An iteration that reaches the end has visited every element inserted up to that step,
\* those inserted behind it while it was under way included, in the order of their
\* insertion and none twice.
BucketsAllSeen ==
  [][(bucketItr.block # 0 /\ bucketItr'.block = 0 /\ UNCHANGED bucketBlocks)
       => bucketSeen' = [i \in 1..BucketCount |-> i]]_bucketVars
=============================================================================
