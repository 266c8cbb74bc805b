------------------------------ MODULE BitSets ------------------------------
(***************************************************************************)
(* The sets and lists of bits of include/AxleUtil/bits.h and src/bits.cpp: *)
(* SetBitArray, ConstBitArray, BitArray and SquareBitMatrix.  A byte is    *)
(* the set of its bits that are set, and has ByteBits of them, 8 in the    *)
(* code.                                                                   *)
(***************************************************************************)
EXTENDS Pow2

CONSTANTS
  ByteBits,       \* the bits of a byte
  BitLengths,     \* the lengths of the arrays
  BitMax          \* bound: the bits inserted in a BitArray

ASSUME BitAssumption == ByteBits \in Nat \ {0} /\ BitLengths \subseteq Nat \ {0} /\ BitMax \in Nat

VARIABLES
  bitKind,       \* which of the four
  bitData,       \* data, byte by byte
  bitLength,     \* length, size or side_length
  bitHighest,    \* highest_set
  bitTrue        \* the bits, or pairs, that are set

bitVars == <<bitKind, bitData, bitLength, bitHighest, bitTrue>>

Kinds == {"SetBitArray", "ConstBitArray", "BitArray", "SquareBitMatrix"}

BitTypeOK ==
  /\ bitKind \in Kinds
  /\ bitData \in Seq(SUBSET (0..ByteBits - 1)) /\ bitLength \in Nat
  /\ bitHighest \in 0..Max({bitLength - 1, 0})

CeilDiv(x, y) == x \div y + (IF x % y = 0 THEN 0 ELSE 1)

ZeroBytes(n) == [i \in 1..n |-> {}]

\* SetBitArray(length), and the arrays with nothing in them.
BitInit ==
  /\ bitKind \in Kinds
  /\ bitLength \in IF bitKind \in {"SetBitArray", "ConstBitArray"} THEN BitLengths ELSE {0}
  /\ bitData = ZeroBytes(CeilDiv(bitLength, ByteBits)) /\ bitHighest = 0 /\ bitTrue = {}

\* test, set and unset of each: a bit is at an index and an offset.
TestBit(n) == n % ByteBits \in bitData[n \div ByteBits + 1]
WithBit(data, n) == [data EXCEPT ![n \div ByteBits + 1] = @ \union {n % ByteBits}]
WithoutBit(data, n) == [data EXCEPT ![n \div ByteBits + 1] = @ \ {n % ByteBits}]

\* count_set: the bits of the bytes, one after another.
Popcount ==
  LET count[i \in 0..Len(bitData)] == IF i = 0 THEN 0 ELSE count[i - 1] + Cardinality(bitData[i])
  IN count[Len(bitData)]

\* test_all: the last byte is compared with the lower bits of a byte.
TestAll ==
  LET last == CeilDiv(bitLength, ByteBits)
  IN /\ bitKind = "SetBitArray" => bitHighest = bitLength - 1
     /\ \A i \in 1..last - 1 : bitData[i] = 0..ByteBits - 1
     /\ bitData[last] = 0..(bitLength % ByteBits) - 1

\* Mutant: a whole byte is passed over unless it has no bit.
IsEmpty(i) == bitData[i + 1] = {}

\* popcount of a whole byte is not 8.
IsNotFull(i) == Cardinality(bitData[i + 1]) # ByteBits

\* UnsetBitItr::next: the rest of the first byte, then whole bytes that are not full, then
\* the part of a byte at the end; length when there is none.
NextUnset(index) ==
  LET whole == bitLength \div ByteBits
      first == index \div ByteBits
      bytes == {i \in first..whole : i \in {first, whole} \/ IsNotFull(i)}
      unset == {n \in index..bitLength - 1 : n \div ByteBits \in bytes /\ ~TestBit(n)}
  IN IF unset = {} THEN bitLength ELSE Min(unset)

\* unset_itr: what next gives out, call by call.
UnsetVisited ==
  LET visit[k \in 0..bitLength] == NextUnset(IF k = 0 THEN 0 ELSE Min({visit[k - 1] + 1, bitLength}))
  IN visit

SetBit(n) ==
  /\ bitKind # "SquareBitMatrix"
  /\ bitData' = WithBit(bitData, n) /\ bitTrue' = bitTrue \union {n}
  /\ bitHighest' = IF bitKind = "SetBitArray" THEN Max({bitHighest, n}) ELSE bitHighest
  /\ UNCHANGED <<bitKind, bitLength>>

\* unset of ConstBitArray and BitArray; assign is the one or the other.
UnsetBit(n) ==
  /\ bitKind \in {"ConstBitArray", "BitArray"}
  /\ bitData' = WithoutBit(bitData, n) /\ bitTrue' = bitTrue \ {n}
  /\ UNCHANGED <<bitKind, bitLength, bitHighest>>

\* clear of SetBitArray, which reaches the byte of the highest bit unless that is its first.
ClearSet ==
  /\ bitKind = "SetBitArray" /\ (bitHighest % ByteBits # 0 \/ bitTrue = {})
  /\ bitData' = [i \in DOMAIN bitData |-> IF i <= CeilDiv(bitHighest, ByteBits) THEN {} ELSE bitData[i]]
  /\ bitHighest' = 0 /\ bitTrue' = {}
  /\ UNCHANGED <<bitKind, bitLength>>

ClearConst ==
  /\ bitKind = "ConstBitArray"
  /\ bitData' = ZeroBytes(Len(bitData)) /\ bitTrue' = {}
  /\ UNCHANGED <<bitKind, bitLength, bitHighest>>

\* reserve_at_least: a byte at first (eight in the code), then twice as many until n fit.
Reserved(n) ==
  LET bytes == Min({b \in {PowersOf2[k] : k \in 0..n} : b * ByteBits >= n})
  IN IF n <= ByteBits * Len(bitData) THEN bitData ELSE bitData \o ZeroBytes(bytes - Len(bitData))

\* insert, insert_set and insert_unset.
InsertBit(value) ==
  /\ bitKind = "BitArray" /\ bitLength < BitMax
  /\ bitLength' = bitLength + 1
  /\ bitData' = IF value THEN WithBit(Reserved(bitLength + 1), bitLength) ELSE WithoutBit(Reserved(bitLength + 1), bitLength)
  /\ bitTrue' = IF value THEN bitTrue \union {bitLength} ELSE bitTrue
  /\ UNCHANGED <<bitKind, bitHighest>>

\* clear of BitArray gives the memory back.
ClearList ==
  /\ bitKind = "BitArray"
  /\ bitData' = <<>> /\ bitLength' = 0 /\ bitTrue' = {}
  /\ UNCHANGED <<bitKind, bitHighest>>

\* new_value, while a row fits in one byte: the memory is as zero as it was allocated, for
\* as many rows as a byte has bits.
NewValue ==
  /\ bitKind = "SquareBitMatrix" /\ bitLength < ByteBits
  /\ bitLength' = bitLength + 1
  /\ bitData' = IF bitData = <<>> THEN ZeroBytes(ByteBits) ELSE bitData
  /\ UNCHANGED <<bitKind, bitHighest, bitTrue>>

\* set_a_intersects_b and remove_a_intersects_b: row a, bit b.
Intersect(a, b) ==
  /\ bitKind = "SquareBitMatrix"
  /\ bitData' = WithBit(bitData, ByteBits * a + b) /\ bitTrue' = bitTrue \union {ByteBits * a + b}
  /\ UNCHANGED <<bitKind, bitLength, bitHighest>>

Separate(a, b) ==
  /\ bitKind = "SquareBitMatrix"
  /\ bitData' = WithoutBit(bitData, ByteBits * a + b) /\ bitTrue' = bitTrue \ {ByteBits * a + b}
  /\ UNCHANGED <<bitKind, bitLength, bitHighest>>

BitNext ==
  \/ \E n \in 0..bitLength - 1 : SetBit(n) \/ UnsetBit(n)
  \/ ClearSet \/ ClearConst \/ ClearList \/ NewValue
  \/ \E value \in BOOLEAN : InsertBit(value)
  \/ \E a, b \in 0..bitLength - 1 : Intersect(a, b) \/ Separate(a, b)

\* What the bytes have is what was set, also past the end of the array, where count_set and
\* test_all look too; highest_set is the highest; the iterator gives out every bit that is
\* not set, in order, and then length; and test_all is right for a length that ends inside
\* a byte.
BitsAgree ==
  /\ \A n \in 0..ByteBits * Len(bitData) - 1 : TestBit(n) <=> n \in bitTrue
  /\ bitKind = "SetBitArray" => bitHighest = Max(bitTrue \union {0})
  /\ bitKind \in {"SetBitArray", "ConstBitArray"} =>
       /\ Popcount = Cardinality(bitTrue)
       /\ Range(UnsetVisited) = (0..bitLength) \ bitTrue
       /\ \A k \in 1..bitLength : UnsetVisited[k] = bitLength \/ UnsetVisited[k - 1] < UnsetVisited[k]
       /\ bitLength % ByteBits # 0 => (TestAll <=> bitTrue = 0..bitLength - 1)
=============================================================================
