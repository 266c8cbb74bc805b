----------------------------- MODULE ArenaProofs ----------------------------
(***************************************************************************)
(* Proofs about ArenaAllocator, for a careful caller: blocks of any size,  *)
(* any number of them and requests of any sizes below that of a block.     *)
(***************************************************************************)
EXTENDS Arena, DataLemmas

-----------------------------------------------------------------------------
(* Tilings *)

\* The words of k blocks.
InUse(k) == {w \in Words : w < k * Stride /\ w % Stride < BlockSize}

\* The word behind a piece whose first word is v, when a gives what is behind the first words.
End(a, v) == v + a[v] + 1

\* Pieces lie in the words of k blocks, each with room for a pointer,
Within(P, a, k) == \A v \in P : a[v] >= 1 /\ v..End(a, v) - 1 \subseteq InUse(k)

\* do not overlap,
Disjoint(P, a) == \A v, w \in P : v < w => End(a, v) <= w

\* and leave no word out.
Covers(P, a, k) == \A w \in InUse(k) : \E v \in P : v <= w /\ w < End(a, v)

\* All three: every word of the blocks is in one piece.
Tiles(P, a, k) == Within(P, a, k) /\ Disjoint(P, a) /\ Covers(P, a, k)

\* What the constants are.
LEMMA Sizes == /\ BlockSize \in Nat \ {0} /\ MaxBlocks \in Nat /\ Stride \in Nat \ {0} /\ Stride = BlockSize + 1
               /\ Words \subseteq Nat /\ Null \notin Words /\ MaxBlocks * Stride \in Nat
BY ArenaAssumption DEF Stride, Words

\* Where a word is in its block.
LEMMA PlaceInBlock ==
  ASSUME NEW k \in Nat, NEW o \in 0..Stride - 1
  PROVE  (Stride * k + o) % Stride = o
<1> DEFINE d == Stride
<1>1. d \in Nat \ {0}
  BY Sizes
<1> HIDE DEF d
<1>2. ASSUME NEW i \in 0..d - 1 PROVE (d * k + i) % d = i
  BY <1>1, PlaceOf
<1> QED BY <1>2 DEF d

\* No run of words of the blocks is longer than a block, as a pointer is behind each.
LEMMA RunIsShort ==
  ASSUME NEW k \in Nat, NEW v \in Nat, NEW d \in Nat, v..v + d \subseteq InUse(k)
  PROVE  d <= BlockSize - 1
<1> DEFINE q == v \div Stride
           r == v % Stride
           z == Stride * q + BlockSize
<1>1. q \in Nat /\ r \in 0..Stride - 1 /\ v = Stride * q + r
  BY Sizes, PlaceIs
<1>2. v \in InUse(k)
  <2>1. v \in v..v + d
    OBVIOUS
  <2> HIDE DEF q, r, z
  <2> QED BY <2>1
<1>3. z % Stride = BlockSize /\ z \in Nat
  <2>1. Stride \in Nat \ {0} /\ BlockSize \in 0..Stride - 1
    BY Sizes
  <2> HIDE DEF q
  <2> QED BY <1>1, <2>1, PlaceOf
<1>4. z \notin InUse(k)
  BY <1>3, Sizes DEF InUse
<1>5. r < BlockSize
  BY <1>2 DEF InUse
<1>6. v < z /\ z <= v + BlockSize
  <2> DEFINE m == Stride * q
  <2>1. m \in Nat
    BY <1>1, Sizes
  <2> HIDE DEF m, q, r
  <2> QED BY <1>1, <1>5, <2>1, Sizes DEF m
<1>7. z \notin v..v + d
  BY <1>4
<1> HIDE DEF q, r, z
<1> QED BY <1>3, <1>6, <1>7, Sizes

\* What a tiling says of its pieces.
LEMMA PieceIs ==
  ASSUME NEW P, P \subseteq Words, NEW a \in [Words -> Nat], NEW k \in Nat, Tiles(P, a, k)
  PROVE  /\ \A v \in P : v \in Nat /\ a[v] \in Nat \ {0} /\ End(a, v) \in Nat /\ v < End(a, v)
         /\ \A v \in P, w \in Nat : v <= w /\ w < End(a, v) => w \in InUse(k)
         /\ \A v, w \in P : v < w => End(a, v) <= w
         /\ \A w \in InUse(k) : \E v \in P : v <= w /\ w < End(a, v)
<1>1. P \subseteq Nat
  BY Sizes
<1>2. \A v \in P : v \in Nat /\ a[v] \in Nat \ {0} /\ End(a, v) \in Nat /\ v < End(a, v)
  BY <1>1 DEF Tiles, Within, End
<1>3. ASSUME NEW v \in P, NEW w \in Nat, v <= w, w < End(a, v) PROVE w \in InUse(k)
  <2>1. v..End(a, v) - 1 \subseteq InUse(k)
    BY DEF Tiles, Within
  <2>2. v \in Nat /\ End(a, v) \in Nat
    BY <1>2
  <2>3. w \in v..End(a, v) - 1
    BY <1>3, <2>2
  <2> QED BY <2>1, <2>3
<1>4. \A v, w \in P : v < w => End(a, v) <= w
  BY DEF Tiles, Disjoint
<1>5. \A w \in InUse(k) : \E v \in P : v <= w /\ w < End(a, v)
  BY DEF Tiles, Covers
<1> QED BY <1>2, <1>3, <1>4, <1>5

\* And what makes one.
LEMMA MakesTiling ==
  ASSUME NEW P, P \subseteq Words, NEW a \in [Words -> Nat], NEW k \in Nat,
         \A v \in P : a[v] >= 1,
         \A v \in P, w \in Nat : v <= w /\ w < End(a, v) => w \in InUse(k),
         \A v, w \in P : v < w => End(a, v) <= w,
         \A w \in InUse(k) : \E v \in P : v <= w /\ w < End(a, v)
  PROVE  Tiles(P, a, k)
<1>1. ASSUME NEW v \in P PROVE v..End(a, v) - 1 \subseteq InUse(k)
  <2>1. v \in Nat /\ End(a, v) \in Nat
    BY Sizes DEF End
  <2>2. \A w \in v..End(a, v) - 1 : w \in Nat /\ v <= w /\ w < End(a, v)
    BY <2>1
  <2> QED BY <2>2
<1> QED BY <1>1 DEF Tiles, Within, Disjoint, Covers

\* A piece in two: the second takes a word of the first for its own size.
LEMMA SplitTiles ==
  ASSUME NEW P, P \subseteq Words, NEW a \in [Words -> Nat], NEW k \in Nat, Tiles(P, a, k),
         NEW v \in P, NEW r \in Nat \ {0}, a[v] >= r + 2, NEW x, x = v + 1 + r,
         NEW b \in [Words -> Nat], b[v] = r, b[x] = a[v] - (r + 1),
         \A w \in Words : w # v /\ w # x => b[w] = a[w]
  PROVE  /\ x \in Words /\ x \notin P /\ Tiles(P \union {x}, b, k)
         /\ End(b, v) = x /\ End(b, x) = End(a, v)
         /\ \A w \in P : w # v => End(b, w) = End(a, w)
<1>1. v \in Nat /\ a[v] \in Nat /\ x \in Nat /\ v < x /\ End(a, v) = v + a[v] + 1 /\ x + 1 < End(a, v)
  <2>1. v \in Nat /\ a[v] \in Nat
    BY Sizes
  <2> QED BY <2>1 DEF End
<1>2. x \in InUse(k)
  <2>1. \A w \in Nat : v <= w /\ w < End(a, v) => w \in InUse(k)
    BY PieceIs
  <2>2. x < End(a, v) /\ v <= x
    BY <1>1
  <2> QED BY <1>1, <2>1, <2>2
<1>3. x \in Words
  BY <1>2 DEF InUse
<1>4. x \notin P
  <2>1. \A w \in P : v < w => End(a, v) <= w
    BY PieceIs
  <2> QED BY <1>1, <2>1
<1>5. End(b, v) = x /\ End(b, x) = End(a, v) /\ b[x] >= 1 /\ b[v] >= 1
  BY <1>1 DEF End
<1>6. \A w \in P : w # v => b[w] = a[w] /\ End(b, w) = End(a, w)
  BY <1>4 DEF End
<1>7. \A w \in P : w \in Nat /\ a[w] \in Nat \ {0} /\ End(a, w) \in Nat /\ w < End(a, w)
  BY PieceIs
<1> DEFINE Q == P \union {x}
<1>8. \A w \in Q : b[w] >= 1
  BY <1>5, <1>6, <1>7
<1>9. ASSUME NEW w \in Q, NEW u \in Nat, w <= u, u < End(b, w) PROVE u \in InUse(k)
  <2>1. CASE w \in {v, x}
    <3>1. v <= u /\ u < End(a, v)
      BY <1>1, <1>5, <1>9, <2>1
    <3> QED BY <3>1, PieceIs
  <2>2. CASE w \notin {v, x}
    <3>1. w \in P /\ u < End(a, w)
      BY <1>6, <1>9, <2>2
    <3> QED BY <1>9, <3>1, PieceIs
  <2> QED BY <2>1, <2>2
<1>10. ASSUME NEW u \in Q, NEW w \in Q, u < w PROVE End(b, u) <= w
  <2>1. \A y, z \in P : y < z => End(a, y) <= z
    BY PieceIs
  <2>2. CASE u \in P /\ w \in P
    <3>1. u = v \/ u # v
      OBVIOUS
    <3> QED BY <1>1, <1>5, <1>6, <1>7, <1>10, <2>1, <2>2, <3>1
  <2>3. CASE u = x
    <3>1. w \in P /\ v < w
      BY <1>1, <1>7, <1>10, <2>3
    <3> QED BY <1>5, <2>1, <2>3, <3>1
  <2>4. CASE w = x /\ u \in P
    <3>1. CASE u = v
      BY <1>1, <1>5, <2>4, <3>1
    <3>2. CASE u # v
      <4>1. ~(v < u)
        BY <1>1, <1>7, <1>10, <2>1, <2>4
      <4>2. u < v
        BY <1>1, <1>7, <2>4, <3>2, <4>1
      <4> QED BY <1>1, <1>6, <1>7, <2>1, <2>4, <3>2, <4>2
    <3> QED BY <3>1, <3>2
  <2> QED BY <2>2, <2>3, <2>4
<1>11. ASSUME NEW w \in InUse(k) PROVE \E u \in Q : u <= w /\ w < End(b, u)
  <2>1. PICK u \in P : u <= w /\ w < End(a, u)
    BY DEF Tiles, Covers
  <2>2. w \in Nat
    BY Sizes DEF InUse
  <2>3. CASE u # v
    BY <1>6, <2>1, <2>3
  <2>4. CASE u = v /\ w < x
    BY <1>5, <2>1, <2>4
  <2>5. CASE u = v /\ ~(w < x)
    BY <1>1, <1>5, <2>1, <2>2, <2>5
  <2> QED BY <2>3, <2>4, <2>5
<1>12. Q \subseteq Words
  BY <1>3
<1>13. Tiles(Q, b, k)
  <2> HIDE DEF Q
  <2> QED BY <1>8, <1>9, <1>10, <1>11, <1>12, MakesTiling
<1> QED BY <1>3, <1>4, <1>5, <1>6, <1>13

\* Two pieces side by side in one: the first word of the second is its last use.
LEMMA MergeTiles ==
  ASSUME NEW P, P \subseteq Words, NEW a \in [Words -> Nat], NEW k \in Nat, Tiles(P, a, k),
         NEW v \in P, NEW x \in P, End(a, v) = x,
         NEW b \in [Words -> Nat], b[v] = a[v] + a[x] + 1, \A w \in Words : w # v => b[w] = a[w]
  PROVE  /\ Tiles(P \ {x}, b, k) /\ v # x /\ End(b, v) = End(a, x)
         /\ \A w \in P : w # v => End(b, w) = End(a, w)
<1>0. \A w \in P, u \in Nat : w <= u /\ u < End(a, w) => u \in InUse(k)
  BY PieceIs
<1> DEFINE Q == P \ {x}
<1>1. \A w \in P : w \in Nat /\ a[w] \in Nat \ {0} /\ End(a, w) \in Nat /\ w < End(a, w)
  BY PieceIs
<1>2. v < x /\ x < End(a, x) /\ x = v + a[v] + 1
  BY <1>1 DEF End
<1>3. End(b, v) = End(a, x) /\ b[v] >= 1
  BY <1>1, <1>2 DEF End
<1>4. \A w \in P : w # v => b[w] = a[w] /\ End(b, w) = End(a, w)
  BY DEF End
<1>5. \A w \in Q : b[w] >= 1
  BY <1>1, <1>3, <1>4
<1>6. ASSUME NEW w \in Q, NEW u \in Nat, w <= u, u < End(b, w) PROVE u \in InUse(k)
  <2>1. CASE w # v
    BY <1>4, <1>6, <2>1, PieceIs
  <2>2. CASE w = v /\ u < x
    <3> QED BY <1>0, <1>6, <2>2
  <2>3. CASE w = v /\ ~(u < x)
    <3>1. x <= u /\ u < End(a, x)
      BY <1>1, <1>3, <1>6, <2>3
    <3> QED BY <3>1, PieceIs
  <2> QED BY <2>1, <2>2, <2>3
<1>7. ASSUME NEW u \in Q, NEW w \in Q, u < w PROVE End(b, u) <= w
  <2>1. \A y, z \in P : y < z => End(a, y) <= z
    BY PieceIs
  <2>2. CASE u # v
    BY <1>4, <1>7, <2>1, <2>2
  <2>3. CASE u = v
    <3>1. x <= w
      BY <1>7, <2>1, <2>3
    <3>2. x < w
      BY <1>1, <3>1
    <3> QED BY <1>3, <2>1, <2>3, <3>2
  <2> QED BY <2>2, <2>3
<1>8. ASSUME NEW w \in InUse(k) PROVE \E u \in Q : u <= w /\ w < End(b, u)
  <2>1. PICK u \in P : u <= w /\ w < End(a, u)
    BY DEF Tiles, Covers
  <2>2. w \in Nat
    BY Sizes DEF InUse
  <2>3. CASE u # v /\ u # x
    BY <1>4, <2>1, <2>3
  <2>4. CASE u = v
    BY <1>1, <1>2, <1>3, <2>1, <2>2, <2>4
  <2>5. CASE u = x
    BY <1>1, <1>2, <1>3, <2>1, <2>2, <2>5
  <2> QED BY <2>3, <2>4, <2>5
<1>9. Tiles(Q, b, k)
  <2>1. Q \subseteq Words
    OBVIOUS
  <2> HIDE DEF Q
  <2> QED BY <1>5, <1>6, <1>7, <1>8, <2>1, MakesTiling
<1> QED BY <1>2, <1>3, <1>4, <1>9

\* A new block is one piece, behind those of the others.
LEMMA BlockTiles ==
  ASSUME NEW P, P \subseteq Words, NEW a \in [Words -> Nat], NEW k \in 0..MaxBlocks - 1, Tiles(P, a, k),
         BlockSize - 1 >= 1, NEW x, x = k * Stride,
         NEW b \in [Words -> Nat], b[x] = BlockSize - 1, \A w \in Words : w # x => b[w] = a[w]
  PROVE  x \in Words /\ x \notin P /\ Tiles(P \union {x}, b, k + 1)
<1>1. k \in Nat /\ k + 1 \in Nat
  BY Sizes
<1>0. /\ \A w \in P, u \in Nat : w <= u /\ u < End(a, w) => u \in InUse(k)
      /\ \A u \in InUse(k) : \E w \in P : w <= u /\ u < End(a, w)
  <2>1. \A w \in P, u \in Nat : w <= u /\ u < End(a, w) => u \in InUse(k)
    BY <1>1, PieceIs
  <2>2. \A u \in InUse(k) : \E w \in P : w <= u /\ u < End(a, w)
    BY DEF Tiles, Covers
  <2> QED BY <2>1, <2>2
<1>2. x \in Nat /\ x \in Words
  <2>1. Stride * k + 0 \in 0..Stride * MaxBlocks - 1
    BY Sizes, Below
  <2>2. x = Stride * k + 0 /\ Stride * MaxBlocks = MaxBlocks * Stride
    BY <1>1, Sizes
  <2> QED BY <2>1, <2>2 DEF Words
<1>3. \A w \in P : w \in Nat /\ a[w] \in Nat \ {0} /\ End(a, w) \in Nat /\ w < End(a, w)
  BY <1>1, PieceIs
<1>4. \A w \in InUse(k) : w \in Nat /\ w < x
  BY Sizes DEF InUse
<1>5. ASSUME NEW w \in P PROVE End(a, w) <= x
  <2>1. End(a, w) - 1 \in InUse(k)
    <3>1. \A u \in Nat : w <= u /\ u < End(a, w) => u \in InUse(k)
      BY <1>1, PieceIs
    <3>2. End(a, w) - 1 \in Nat /\ w <= End(a, w) - 1 /\ End(a, w) - 1 < End(a, w)
      BY <1>3
    <3> QED BY <3>1, <3>2
  <2> QED BY <1>2, <1>3, <1>4, <2>1
<1>6. x \notin P
  BY <1>3, <1>5
<1>7. End(b, x) = x + BlockSize /\ b[x] >= 1
  BY <1>2, Sizes DEF End
<1>8. \A w \in P : b[w] = a[w] /\ End(b, w) = End(a, w)
  BY <1>6 DEF End
<1>9. InUse(k) \subseteq InUse(k + 1)
  <2>1. (k + 1) * Stride = x + Stride
    BY <1>1, Sizes
  <2>2. \A w \in Nat : w < x => w < x + Stride
    BY <1>2, Sizes
  <2> QED BY <2>1, <2>2, Sizes DEF InUse
<1>10. ASSUME NEW u \in Nat, x <= u, u < End(b, x) PROVE u \in InUse(k + 1)
  <2>1. PICK o \in 0..BlockSize - 1 : u = x + o
    <3>1. u - x \in 0..BlockSize - 1 /\ u = x + (u - x)
      BY <1>2, <1>7, <1>10, Sizes
    <3> QED BY <3>1
  <2>2. o \in 0..Stride - 1 /\ o < BlockSize
    BY Sizes
  <2>3. Stride * k + o \in 0..Stride * MaxBlocks - 1 /\ Stride * k + o \in 0..Stride * (k + 1) - 1
    <3>1. k \in 0..(k + 1) - 1
      BY <1>1
    <3> QED BY <1>1, <2>2, <3>1, Sizes, Below
  <2>4. (Stride * k + o) % Stride = o
    BY <1>1, <2>2, PlaceInBlock
  <2>5. u = Stride * k + o /\ Stride * MaxBlocks = MaxBlocks * Stride /\ Stride * (k + 1) = (k + 1) * Stride
    BY <1>1, <2>1, Sizes
  <2>6. u \in Words /\ u < (k + 1) * Stride /\ u % Stride < BlockSize
    <3>1. (k + 1) * Stride \in Nat
      BY <1>1, Sizes
    <3> QED BY <2>2, <2>3, <2>4, <2>5, <3>1 DEF Words
  <2> QED BY <2>6 DEF InUse
<1>11. ASSUME NEW u \in InUse(k + 1), u >= x PROVE u < End(b, x)
  <2>1. u \in Nat /\ u < (k + 1) * Stride /\ u % Stride < BlockSize
    BY Sizes DEF InUse
  <2>2. (k + 1) * Stride = x + Stride /\ x = Stride * k
    BY <1>1, Sizes
  <2>3. PICK o \in 0..Stride - 1 : u = x + o
    <3>1. u - x \in 0..Stride - 1 /\ u = x + (u - x)
      BY <1>2, <1>11, <2>1, <2>2, Sizes
    <3> QED BY <3>1
  <2>4. (Stride * k + o) % Stride = o
    BY <1>1, PlaceInBlock
  <2>5. o < BlockSize
    BY <2>1, <2>2, <2>3, <2>4
  <2> QED BY <1>2, <1>7, <2>3, <2>5, Sizes
<1> DEFINE Q == P \union {x}
<1>12. \A w \in Q : b[w] >= 1
  BY <1>3, <1>7, <1>8
<1>13. ASSUME NEW w \in Q, NEW u \in Nat, w <= u, u < End(b, w) PROVE u \in InUse(k + 1)
  <2>1. CASE w = x
    BY <1>10, <1>13, <2>1
  <2>2. CASE w \in P
    BY <1>0, <1>8, <1>9, <1>13, <2>2
  <2> QED BY <2>1, <2>2
<1>14. ASSUME NEW u \in Q, NEW w \in Q, u < w PROVE End(b, u) <= w
  <2>1. \A y, z \in P : y < z => End(a, y) <= z
    BY <1>1, PieceIs
  <2>2. \A y \in P : y < x
    BY <1>2, <1>3, <1>5
  <2>3. u \in P
    BY <1>2, <1>3, <1>14, <2>2
  <2> QED BY <1>5, <1>8, <1>14, <2>1, <2>3
<1>15. ASSUME NEW w \in InUse(k + 1) PROVE \E u \in Q : u <= w /\ w < End(b, u)
  <2>1. w \in Nat
    BY Sizes DEF InUse
  <2>2. CASE w >= x
    BY <1>11, <2>2
  <2>3. CASE w < x
    <3>1. w \in InUse(k)
      BY <2>3 DEF InUse
    <3>2. PICK u \in P : u <= w /\ w < End(a, u)
      BY <1>0, <3>1
    <3> QED BY <1>8, <3>2
  <2> QED BY <1>2, <2>1, <2>2, <2>3
<1>16. Tiles(Q, b, k + 1)
  <2>1. Q \subseteq Words
    BY <1>2
  <2> HIDE DEF Q
  <2> QED BY <1>1, <1>12, <1>13, <1>14, <1>15, <2>1, MakesTiling
<1> QED BY <1>2, <1>6, <1>16

\* A word of the blocks is in one piece, another in none.
LEMMA OnePiece ==
  ASSUME NEW P, P \subseteq Words, NEW a \in [Words -> Nat], NEW k \in Nat, Tiles(P, a, k), NEW w \in Words
  PROVE  Cardinality({v \in P : v <= w /\ w < End(a, v)}) =
           IF w < k * Stride /\ w % Stride < BlockSize THEN 1 ELSE 0
<1> DEFINE Q == {v \in P : v <= w /\ w < End(a, v)}
<1>1. w \in Nat /\ (w < k * Stride /\ w % Stride < BlockSize <=> w \in InUse(k))
  BY Sizes DEF InUse
<1>2. CASE w \in InUse(k)
  <2>1. PICK v \in P : v <= w /\ w < End(a, v)
    BY <1>2, PieceIs
  <2>2. ASSUME NEW u \in Q PROVE u = v
    <3>1. u \in P /\ u <= w /\ w < End(a, u)
      OBVIOUS
    <3>2. u \in Nat /\ v \in Nat /\ End(a, u) \in Nat /\ End(a, v) \in Nat
      BY <3>1, PieceIs
    <3>3. (u < v => End(a, u) <= v) /\ (v < u => End(a, v) <= u)
      BY <3>1, PieceIs
    <3> QED BY <1>1, <2>1, <3>1, <3>2, <3>3
  <2>3. Q = {v}
    BY <2>1, <2>2
  <2>4. Cardinality(Q) = 1
    BY <2>3, FS_Singleton
  <2> QED BY <1>1, <1>2, <2>4
<1>3. CASE w \notin InUse(k)
  <2>1. Q = {}
    BY <1>1, <1>3, PieceIs
  <2>2. Cardinality(Q) = 0
    BY <2>1, FS_EmptySet
  <2> QED BY <1>1, <1>3, <2>2
<1> QED BY <1>2, <1>3

-----------------------------------------------------------------------------
(* The free list *)

\* The n nodes of s follow each other from head on, by links.
Chain(n, s, head, links) ==
  /\ n \in Nat /\ s \in [1..n -> Words]
  /\ \A i, j \in 1..n : s[i] = s[j] => i = j
  /\ head = IF n = 0 THEN Null ELSE s[1]
  /\ \A i \in 1..n : links[s[i]] = IF i = n THEN Null ELSE s[i + 1]

\* The nodes of a list.
On(n, s) == {s[i] : i \in 1..n}

\* Another node in the place of one.
LEMMA ChainReplace ==
  ASSUME NEW n, NEW s, NEW h, NEW l, Chain(n, s, h, l), NEW i \in 1..n, NEW x \in Words, x \notin On(n, s),
         NEW h2, h2 = (IF i = 1 THEN x ELSE h), NEW l2, l2[x] = l[s[i]], i # 1 => l2[s[i - 1]] = x,
         \A j \in 1..n : j # i /\ j # i - 1 => l2[s[j]] = l[s[j]]
  PROVE  \E t : Chain(n, t, h2, l2) /\ On(n, t) = (On(n, s) \ {s[i]}) \union {x}
<1> DEFINE t == [j \in 1..n |-> IF j = i THEN x ELSE s[j]]
<1>1. n \in Nat /\ s \in [1..n -> Words] /\ \A j, k \in 1..n : s[j] = s[k] => j = k
  BY DEF Chain
<1>2. t \in [1..n -> Words]
  BY <1>1
<1>3. \A j \in 1..n : s[j] # x
  BY DEF On
<1>4. \A j, k \in 1..n : t[j] = t[k] => j = k
  BY <1>1, <1>3
<1>5. h2 = IF n = 0 THEN Null ELSE t[1]
  <2>1. h = s[1] /\ 1 \in 1..n /\ n # 0
    BY <1>1 DEF Chain
  <2> QED BY <2>1
<1>6. ASSUME NEW j \in 1..n PROVE l2[t[j]] = IF j = n THEN Null ELSE t[j + 1]
  <2>1. \A k \in 1..n : l[s[k]] = IF k = n THEN Null ELSE s[k + 1]
    BY DEF Chain
  <2>2. j # n => j + 1 \in 1..n
    BY <1>1
  <2>3. CASE j = i
    <3>1. t[j] = x /\ l2[t[j]] = l[s[i]]
      BY <2>3
    <3>2. j # n => t[j + 1] = s[j + 1]
      BY <1>1, <2>2, <2>3
    <3> QED BY <2>1, <2>3, <3>1, <3>2
  <2>4. CASE j = i - 1
    <3>1. i # 1 /\ j # n /\ j + 1 = i /\ j # i
      BY <1>1, <2>4
    <3>2. t[j] = s[j] /\ t[j + 1] = x
      BY <2>2, <3>1
    <3> QED BY <2>4, <3>1, <3>2
  <2>5. CASE j # i /\ j # i - 1
    <3>1. t[j] = s[j] /\ l2[s[j]] = l[s[j]]
      BY <2>5
    <3>2. j # n => j + 1 # i /\ t[j + 1] = s[j + 1]
      BY <1>1, <2>2, <2>5
    <3> QED BY <2>1, <3>1, <3>2
  <2> QED BY <2>3, <2>4, <2>5
<1>7. On(n, t) = (On(n, s) \ {s[i]}) \union {x}
  <2>1. ASSUME NEW j \in 1..n PROVE t[j] \in (On(n, s) \ {s[i]}) \union {x}
    BY <1>1 DEF On
  <2>2. ASSUME NEW j \in 1..n, s[j] # s[i] PROVE s[j] \in On(n, t)
    <3>1. t[j] = s[j]
      BY <2>2
    <3> QED BY <3>1 DEF On
  <2>3. x \in On(n, t)
    <3>1. t[i] = x
      OBVIOUS
    <3> QED BY <3>1 DEF On
  <2> QED BY <2>1, <2>2, <2>3 DEF On
<1> HIDE DEF t
<1>8. Chain(n, t, h2, l2)
  BY <1>1, <1>2, <1>4, <1>5, <1>6 DEF Chain
<1> QED BY <1>7, <1>8

\* Without one of its nodes; p is what becomes of its length.
LEMMA ChainRemove ==
  ASSUME NEW n, NEW s, NEW h, NEW l, Chain(n, s, h, l), NEW i \in 1..n,
         NEW h2, h2 = (IF i = 1 THEN l[s[i]] ELSE h), NEW l2, i # 1 => l2[s[i - 1]] = l[s[i]],
         \A j \in 1..n : j # i /\ j # i - 1 => l2[s[j]] = l[s[j]],
         NEW t, t = [j \in 1..n - 1 |-> IF j < i THEN s[j] ELSE s[j + 1]]
  PROVE  Chain(n - 1, t, h2, l2) /\ On(n - 1, t) = On(n, s) \ {s[i]}
<1>1. /\ n \in Nat /\ s \in [1..n -> Words] /\ \A j, k \in 1..n : s[j] = s[k] => j = k
      /\ i \in Nat /\ n # 0 /\ n - 1 \in Nat
  BY DEF Chain
<1>2. \A j \in 1..n - 1 : j \in Nat /\ j \in 1..n /\ j + 1 \in 1..n
  BY <1>1
<1>3. t \in [1..n - 1 -> Words]
  BY <1>1, <1>2
<1>4. \A j \in 1..n - 1 : (j < i => t[j] = s[j]) /\ (~(j < i) => t[j] = s[j + 1])
  OBVIOUS
<1>5. ASSUME NEW j \in 1..n - 1, NEW k \in 1..n - 1, t[j] = t[k] PROVE j = k
  BY <1>1, <1>2, <1>4, <1>5
<1>6. \A k \in 1..n : l[s[k]] = IF k = n THEN Null ELSE s[k + 1]
  BY DEF Chain
<1>7. h2 = IF n - 1 = 0 THEN Null ELSE t[1]
  <2>1. h = s[1] /\ 1 \in 1..n
    BY <1>1 DEF Chain
  <2>2. CASE n = 1
    BY <1>1, <1>6, <2>1, <2>2
  <2>3. CASE n # 1
    <3>1. 1 \in 1..n - 1 /\ n - 1 # 0
      BY <1>1, <2>3
    <3>2. CASE i = 1
      <4>1. t[1] = s[2] /\ l[s[1]] = s[2]
        BY <1>4, <1>6, <2>1, <2>3, <3>1, <3>2
      <4> QED BY <3>1, <3>2, <4>1
    <3>3. CASE i # 1
      <4>1. t[1] = s[1]
        BY <1>1, <1>4, <3>1, <3>3
      <4> QED BY <2>1, <3>1, <3>3, <4>1
    <3> QED BY <3>2, <3>3
  <2> QED BY <2>2, <2>3
<1>8. ASSUME NEW j \in 1..n - 1 PROVE l2[t[j]] = IF j = n - 1 THEN Null ELSE t[j + 1]
  <2>1. j \in Nat /\ j \in 1..n /\ j + 1 \in 1..n /\ (j # n - 1 => j + 1 \in 1..n - 1 /\ j + 2 \in 1..n)
    BY <1>1
  <2>2. CASE j < i /\ j # i - 1
    <3>1. t[j] = s[j] /\ l2[s[j]] = l[s[j]] /\ j + 1 < i
      BY <1>1, <1>4, <2>1, <2>2
    <3>2. j # n - 1 /\ j # n /\ t[j + 1] = s[j + 1]
      BY <1>1, <1>4, <2>1, <3>1
    <3> QED BY <1>6, <2>1, <3>1, <3>2
  <2>3. CASE j = i - 1
    <3>1. t[j] = s[j] /\ i # 1 /\ l2[s[j]] = l[s[i]] /\ i = j + 1
      BY <1>1, <1>4, <2>1, <2>3
    <3>2. j # n - 1 => t[j + 1] = s[(j + 1) + 1] /\ i # n
      BY <1>1, <1>4, <2>1, <3>1
    <3>3. l[s[i]] = IF i = n THEN Null ELSE s[i + 1]
      BY <1>6
    <3>4. j = n - 1 <=> i = n
      BY <1>1, <3>1
    <3> QED BY <3>1, <3>2, <3>3, <3>4
  <2>4. CASE ~(j < i)
    <3>1. t[j] = s[j + 1] /\ j + 1 # i /\ j + 1 # i - 1
      BY <1>1, <1>4, <2>1, <2>4
    <3>2. l2[s[j + 1]] = l[s[j + 1]]
      BY <2>1, <3>1
    <3>3. l[s[j + 1]] = IF j + 1 = n THEN Null ELSE s[(j + 1) + 1]
      BY <1>6, <2>1
    <3>4. j # n - 1 => t[j + 1] = s[(j + 1) + 1]
      BY <1>1, <1>4, <2>1, <2>4
    <3>5. j = n - 1 <=> j + 1 = n
      BY <1>1, <2>1
    <3> QED BY <3>1, <3>2, <3>3, <3>4, <3>5
  <2> QED BY <1>1, <2>1, <2>2, <2>3, <2>4
<1>9. On(n - 1, t) = On(n, s) \ {s[i]}
  <2>1. ASSUME NEW j \in 1..n - 1 PROVE t[j] \in On(n, s) \ {s[i]}
    <3>1. CASE j < i
      BY <1>1, <1>2, <1>4, <3>1 DEF On
    <3>2. CASE ~(j < i)
      <4>1. t[j] = s[j + 1] /\ j + 1 \in 1..n /\ j + 1 # i
        BY <1>1, <1>2, <1>4, <3>2
      <4> QED BY <1>1, <4>1 DEF On
    <3> QED BY <3>1, <3>2
  <2>2. ASSUME NEW j \in 1..n, s[j] # s[i] PROVE s[j] \in On(n - 1, t)
    <3>1. CASE j < i
      <4>1. j \in 1..n - 1 /\ t[j] = s[j]
        BY <1>1, <1>4, <3>1
      <4> QED BY <4>1 DEF On
    <3>2. CASE ~(j < i)
      <4>1. j - 1 \in 1..n - 1 /\ ~(j - 1 < i) /\ (j - 1) + 1 = j
        BY <1>1, <2>2, <3>2
      <4>2. t[j - 1] = s[j]
        BY <1>4, <4>1
      <4> QED BY <4>1, <4>2 DEF On
    <3> QED BY <3>1, <3>2
  <2> QED BY <2>1, <2>2 DEF On
<1>10. Chain(n - 1, t, h2, l2)
  BY <1>1, <1>3, <1>5, <1>7, <1>8 DEF Chain
<1> QED BY <1>9, <1>10

\* With a node in front.
LEMMA ChainPush ==
  ASSUME NEW n, NEW s, NEW h, NEW l, Chain(n, s, h, l), NEW x \in Words, x \notin On(n, s),
         NEW l2, l2[x] = h, \A w \in On(n, s) : l2[w] = l[w]
  PROVE  \E t : Chain(n + 1, t, x, l2) /\ On(n + 1, t) = On(n, s) \union {x}
<1> DEFINE t == [j \in 1..n + 1 |-> IF j = 1 THEN x ELSE s[j - 1]]
<1>1. /\ n \in Nat /\ s \in [1..n -> Words] /\ \A j, k \in 1..n : s[j] = s[k] => j = k
      /\ h = (IF n = 0 THEN Null ELSE s[1])
  BY DEF Chain
<1>2. \A j \in 1..n + 1 : j # 1 => j - 1 \in 1..n
  BY <1>1
<1>3. t \in [1..n + 1 -> Words]
  BY <1>1, <1>2
<1>4. t[1] = x /\ \A j \in 1..n : t[j + 1] = s[j]
  BY <1>1
<1>5. \A j \in 1..n : s[j] # x
  BY DEF On
<1>6. ASSUME NEW j \in 1..n + 1, NEW k \in 1..n + 1, t[j] = t[k] PROVE j = k
  BY <1>1, <1>2, <1>5, <1>6
<1>7. ASSUME NEW j \in 1..n + 1 PROVE l2[t[j]] = IF j = n + 1 THEN Null ELSE t[j + 1]
  <2>1. CASE j = 1
    <3>1. l2[t[j]] = h /\ (j = n + 1 <=> n = 0)
      BY <1>1, <1>4, <2>1
    <3>2. n # 0 => t[j + 1] = s[1]
      BY <1>1, <1>4, <2>1
    <3> QED BY <1>1, <3>1, <3>2
  <2>2. CASE j # 1
    <3>1. PICK k \in 1..n : j = k + 1
      <4>1. j = (j - 1) + 1
        OBVIOUS
      <4> QED BY <1>2, <2>2, <4>1
    <3>2. t[j] = s[k] /\ s[k] \in On(n, s)
      BY <1>4, <3>1 DEF On
    <3>3. l2[t[j]] = IF k = n THEN Null ELSE s[k + 1]
      BY <3>2 DEF Chain
    <3>4. k # n => t[j + 1] = s[k + 1]
      BY <1>1, <1>4, <3>1
    <3> QED BY <1>1, <3>1, <3>3, <3>4
  <2> QED BY <2>1, <2>2
<1>8. On(n + 1, t) = On(n, s) \union {x}
  <2>1. ASSUME NEW j \in 1..n + 1 PROVE t[j] \in On(n, s) \union {x}
    BY <1>2 DEF On
  <2>2. ASSUME NEW j \in 1..n PROVE s[j] \in On(n + 1, t)
    <3>1. j + 1 \in 1..n + 1 /\ t[j + 1] = s[j]
      BY <1>1, <1>4
    <3> HIDE DEF t
    <3> QED BY <3>1 DEF On
  <2>3. x \in On(n + 1, t)
    <3>1. 1 \in 1..n + 1
      BY <1>1
    <3> HIDE DEF t
    <3> QED BY <1>4, <3>1 DEF On
  <2> HIDE DEF t
  <2> QED BY <2>1, <2>2, <2>3 DEF On
<1>9. x = IF n + 1 = 0 THEN Null ELSE t[1]
  BY <1>1, <1>4
<1> HIDE DEF t
<1>10. Chain(n + 1, t, x, l2)
  BY <1>1, <1>3, <1>6, <1>7, <1>9 DEF Chain
<1> QED BY <1>8, <1>10

\* There are no more nodes than words, and two are more than one.
LEMMA ChainIsShort ==
  ASSUME NEW n, NEW s, NEW h, NEW l, Chain(n, s, h, l)
  PROVE  n <= MaxBlocks * Stride /\ (n > 1 => Cardinality(On(n, s)) > 1)
<1>1. n \in Nat /\ s \in [1..n -> Words] /\ \A i, j \in 1..n : s[i] = s[j] => i = j
  BY DEF Chain
<1>2. s \in Injection(1..n, Words)
  BY <1>1 DEF Injection, IsInjective
<1>3. IsFiniteSet(Words) /\ Cardinality(Words) <= MaxBlocks * Stride
  <2> DEFINE m == MaxBlocks * Stride
  <2>1. m \in Nat /\ Words = 0..m - 1 /\ m - 1 \in Int
    BY Sizes DEF Words
  <2> HIDE DEF m
  <2>2. IsFiniteSet(0..m - 1) /\ Cardinality(0..m - 1) = IF 0 > m - 1 THEN 0 ELSE (m - 1) - 0 + 1
    BY <2>1, FS_Interval
  <2> QED BY <2>1, <2>2 DEF m
<1>4. IsFiniteSet(1..n) /\ Cardinality(1..n) = n
  BY <1>1, FS_Interval
<1>5. Cardinality(1..n) <= Cardinality(Words)
  BY <1>2, <1>3, FS_Injection
<1>6. Cardinality(Words) \in Nat
  BY <1>3, FS_CardinalityType
<1>7. n <= MaxBlocks * Stride
  BY <1>1, <1>3, <1>4, <1>5, <1>6, Sizes
<1>8. ASSUME n > 1 PROVE Cardinality(On(n, s)) > 1
  <2> DEFINE T == {s[1], s[2]}
  <2>1. 1 \in 1..n /\ 2 \in 1..n
    BY <1>1, <1>8
  <2>2. T \subseteq On(n, s) /\ s[1] # s[2]
    BY <1>1, <2>1 DEF On
  <2>3. Cardinality(T) = 2 /\ IsFiniteSet(T)
    <3>1. T = {s[1]} \union {s[2]} /\ s[2] \notin {s[1]}
      BY <2>2
    <3>2. IsFiniteSet({s[1]}) /\ Cardinality({s[1]}) = 1
      BY FS_Singleton
    <3>3. IsFiniteSet({s[1]} \union {s[2]}) /\ Cardinality({s[1]} \union {s[2]}) = 1 + 1
      BY <3>1, <3>2, FS_AddElement
    <3> QED BY <3>1, <3>3
  <2>4. IsFiniteSet(On(n, s))
    <3>1. On(n, s) \subseteq Words
      BY <1>1 DEF On
    <3> QED BY <1>3, <3>1, FS_Subset
  <2>5. Cardinality(T) <= Cardinality(On(n, s)) /\ Cardinality(On(n, s)) \in Nat
    BY <2>2, <2>4, FS_Subset, FS_CardinalityType
  <2> QED BY <2>3, <2>5
<1> QED BY <1>7, <1>8

\* Following the free list comes to its nodes and no other, and to its end.
IsFollowed ==
  \A n, s : Chain(n, s, freeList, next) =>
    FreeNodes = On(n, s) /\ ~Loops /\ (n > 1 => Cardinality(FreeNodes) > 1)

\* So it is.
LEMMA FollowedIs == IsFollowed
<1> SUFFICES ASSUME NEW n, NEW s, Chain(n, s, freeList, next)
             PROVE  FreeNodes = On(n, s) /\ ~Loops /\ (n > 1 => Cardinality(FreeNodes) > 1)
  BY DEF IsFollowed
<1> DEFINE N == MaxBlocks * Stride
           step(x) == IF x = Null THEN Null ELSE next[x]
           F(f) == [i \in 0..N |-> IF i = 0 THEN freeList ELSE IF f[i - 1] = Null THEN Null ELSE next[f[i - 1]]]
           g == [i \in 0..N |-> IF i < n THEN s[i + 1] ELSE Null]
           M == CHOOSE f : f = F(f)
<1>0. n \in Nat /\ N \in Nat /\ n <= N /\ s \in [1..n -> Words] /\ Null \notin Words
  <2>1. n <= N
    BY ChainIsShort
  <2>2. n \in Nat /\ s \in [1..n -> Words]
    BY DEF Chain
  <2> QED BY <2>1, <2>2, Sizes
<1>1. ASSUME NEW i \in 0..N PROVE g[i] = F(g)[i]
  <2> HIDE DEF N
  <2>1. CASE i = 0
    <3>1. (i < n <=> n # 0) /\ i + 1 = 1
      BY <1>0, <2>1
    <3> QED BY <2>1, <3>1 DEF Chain
  <2>2. CASE i # 0
    <3>1. i - 1 \in 0..N /\ (i - 1) + 1 = i
      BY <1>0, <2>2
    <3>2. CASE i - 1 < n
      <4>1. i \in 1..n /\ g[i - 1] = s[i]
        BY <1>0, <2>2, <3>1, <3>2
      <4>2. s[i] # Null /\ next[s[i]] = IF i = n THEN Null ELSE s[i + 1]
        BY <1>0, <4>1 DEF Chain
      <4>3. g[i] = IF i = n THEN Null ELSE s[i + 1]
        BY <1>0, <4>1
      <4> QED BY <2>2, <4>1, <4>2, <4>3
    <3>3. CASE ~(i - 1 < n)
      <4>1. g[i - 1] = Null /\ g[i] = Null
        BY <1>0, <3>1, <3>3
      <4> QED BY <2>2, <4>1
    <3> QED BY <3>2, <3>3
  <2> QED BY <2>1, <2>2
<1>2. M = F(M)
  <2>1. g = F(g)
    BY <1>1
  <2> HIDE DEF F, g
  <2> QED BY <2>1
<1>3. Followed = M
  BY DEF Followed
<1>4. DOMAIN M = 0..N
  <2>1. \A f : DOMAIN F(f) = 0..N
    OBVIOUS
  <2> HIDE DEF F, M
  <2> QED BY <1>2, <2>1
<1> DEFINE T == {i \in Nat : i <= N => M[i] = g[i]}
<1> HIDE DEF M
<1>5. 0 \in T
  <2>1. 0 \in 0..N
    BY <1>0
  <2>2. \A f : F(f)[0] = freeList
    BY <2>1
  <2> HIDE DEF F, g
  <2>3. M[0] = F(M)[0] /\ g[0] = F(g)[0]
    BY <1>1, <1>2, <2>1
  <2> QED BY <2>2, <2>3
<1>6. ASSUME NEW i \in Nat, i \in T PROVE i + 1 \in T
  <2> SUFFICES ASSUME i + 1 <= N PROVE M[i + 1] = g[i + 1]
    OBVIOUS
  <2> HIDE DEF N
  <2>1. M[i] = g[i] /\ i + 1 \in 0..N /\ i + 1 # 0 /\ (i + 1) - 1 = i
    BY <1>0, <1>6
  <2>2. \A f : F(f)[i + 1] = step(f[i])
    BY <2>1
  <2>3. g[i + 1] = F(g)[i + 1]
    BY <1>1, <2>1
  <2>4. M[i + 1] = F(M)[i + 1]
    BY <1>2
  <2> HIDE DEF g, F, step
  <2> QED BY <2>1, <2>2, <2>3, <2>4
<1>7. \A i \in 0..N : M[i] = g[i]
  <2>1. Nat \subseteq T
    <3> HIDE DEF T
    <3> QED BY <1>5, <1>6, SetInduction
  <2> HIDE DEF N
  <2>2. \A i \in 0..N : i \in Nat /\ i <= N
    BY <1>0
  <2> HIDE DEF g
  <2> QED BY <2>1, <2>2
<1>8. FreeNodes = On(n, s)
  <2> HIDE DEF N
  <2>1. ASSUME NEW i \in 0..N, g[i] # Null PROVE g[i] \in On(n, s)
    <3>1. i < n /\ i + 1 \in 1..n /\ g[i] = s[i + 1]
      BY <1>0, <2>1
    <3> QED BY <3>1 DEF On
  <2>2. ASSUME NEW i \in 1..n PROVE s[i] \in {g[j] : j \in 0..N} /\ s[i] # Null
    <3>1. i - 1 \in 0..N /\ i - 1 < n /\ (i - 1) + 1 = i
      BY <1>0
    <3>2. g[i - 1] = s[i]
      BY <3>1
    <3> HIDE DEF g
    <3> QED BY <1>0, <3>1, <3>2
  <2>3. FreeNodes = {M[i] : i \in 0..N} \ {Null}
    BY <1>3, <1>4 DEF FreeNodes
  <2> HIDE DEF g
  <2>4. {M[i] : i \in 0..N} = {g[i] : i \in 0..N}
    BY <1>7
  <2> QED BY <2>1, <2>2, <2>3, <2>4 DEF On
<1>9. ~Loops
  <2>1. N \in 0..N /\ ~(N < n)
    BY <1>0
  <2>2. g[N] = Null
    BY <2>1
  <2>3. Followed[N] = Null
    BY <1>3, <1>7, <2>1, <2>2
  <2> QED BY <2>3 DEF Loops
<1> QED BY <1>8, <1>9, ChainIsShort

-----------------------------------------------------------------------------
(* The inductive invariant *)

\* The allocations in A and the nodes of the free list are the pieces of the blocks,
\* and no two nodes are side by side.
Whole(A, n, s) ==
  /\ Chain(n, s, freeList, next)
  /\ A \intersect On(n, s) = {}
  /\ Tiles(A \union On(n, s), available, blocks)
  /\ \A v, w \in On(n, s) : EndOf(v) # w

\* A walk has come to node i, or behind all of them.
At(n, s, i) ==
  /\ i \in 1..n + 1
  /\ prev = IF i = 1 THEN Null ELSE s[i - 1]
  /\ fl = IF i = n + 1 THEN Null ELSE s[i]

\* No call is under way.
AtRest ==
  /\ request = 0 /\ prev = Null /\ fl = Null /\ newFl = Null /\ ~foundBefore /\ ~foundAfter
  /\ \E n, s : Whole(allocated, n, s)

\* What alloc_no_construct asks for is in none of the nodes it has seen, and in
\* one of the others unless there are none at all.
SearchAt(n, s, i) ==
  /\ request \in Requests /\ newFl = Null /\ ~foundBefore /\ ~foundAfter
  /\ Whole(allocated, n, s) /\ At(n, s, i)
  /\ \A j \in 1..i - 1 : available[s[j]] < request
  /\ n = 0 \/ \E j \in 1..n : available[s[j]] >= request

\* What add_to_free_list is about to add lies beside none of the nodes it has seen, nor,
\* on a side where it was merged, beside any.  It was not merged with the first node.
WalkAt(n, s, i) ==
  /\ n # 0 /\ Whole(allocated \union {newFl}, n, s) /\ At(n, s, i)
  /\ pc = "link" => foundBefore /\ foundAfter
  /\ foundBefore \/ foundAfter => i # 1
  /\ \A j \in 1..i - 1 : ~Beside(newFl, s[j])
  /\ foundAfter => \A v \in On(n, s) : EndOf(newFl) # v
  /\ foundBefore => \A v \in On(n, s) : EndOf(v) # newFl
  /\ n = 1 \/ ~Beside(newFl, s[1])
  /\ next[newFl] = Null

\* It was merged with the only node there was.
Alone ==
  /\ pc = "merge" /\ prev = Null /\ fl = Null /\ next[newFl] = Null
  /\ Tiles(allocated \union {newFl}, available, blocks)

\* A piece is on its way back: it is in no one's hands, and not yet in the list.
Freeing ==
  /\ request = 0 /\ newFl \in Words /\ newFl \notin allocated
  /\ Alone \/ \E n, s, i : WalkAt(n, s, i)

\* A call is at one of the places where a step of the model ends.
ArenaInv ==
  /\ TypeOK
  /\ \/ pc = "idle" /\ AtRest
     \/ pc = "search" /\ \E n, s, i : SearchAt(n, s, i)
     \/ InFree /\ Freeing

\* The types, as the lemmas about tilings need them.
LEMMA Typed ==
  ASSUME TypeOK
  PROVE  /\ available \in [Words -> Nat] /\ blocks \in Nat /\ allocated \subseteq Words
         /\ next \in [Words -> Pointers] /\ freeList \in Pointers /\ Words \subseteq Nat
<1>1. 0..BlockSize - 1 \subseteq Nat /\ 0..MaxBlocks \subseteq Nat /\ Words \subseteq Nat
  BY Sizes
<1> QED BY <1>1 DEF TypeOK

\* A free list that ends is as long as it is.
LEMMA NodesAre ==
  ASSUME NEW n, NEW s, Chain(n, s, freeList, next)
  PROVE  FreeNodes = On(n, s) /\ ~Loops /\ (n > 1 => Cardinality(FreeNodes) > 1)
BY FollowedIs DEF IsFollowed

\* The same after a step.
LEMMA NodesAreNext ==
  ASSUME NEW CONSTANT n, NEW CONSTANT s, Chain(n, s, freeList', next')
  PROVE  FreeNodes' = On(n, s) /\ ~Loops'
<1>1. IsFollowed'
  BY FollowedIs, PTL
<1> QED BY <1>1 DEF IsFollowed

\* Its links may change elsewhere.
LEMMA ChainSame ==
  ASSUME NEW n, NEW s, NEW h, NEW l, Chain(n, s, h, l), NEW l2, \A w \in On(n, s) : l2[w] = l[w]
  PROVE  Chain(n, s, h, l2)
<1>1. \A i \in 1..n : l2[s[i]] = l[s[i]]
  BY DEF On
<1> QED BY <1>1 DEF Chain

\* Where a walk is.
LEMMA AtNode ==
  ASSUME NEW n, NEW s, Chain(n, s, freeList, next), NEW i, At(n, s, i)
  PROVE  /\ n \in Nat /\ i \in Nat \ {0} /\ On(n, s) \subseteq Words
         /\ fl # Null <=> i # n + 1
         /\ fl # Null => i \in 1..n /\ fl = s[i] /\ fl \in On(n, s) /\ fl \in Words
                         /\ next[fl] = IF i = n THEN Null ELSE s[i + 1]
         /\ prev # Null <=> i # 1
         /\ prev # Null => i - 1 \in 1..n /\ prev = s[i - 1] /\ prev \in On(n, s) /\ prev \in Words
         /\ fl # Null /\ prev # Null => prev # fl
<1>1. n \in Nat /\ s \in [1..n -> Words] /\ i \in 1..n + 1 /\ \A j, k \in 1..n : s[j] = s[k] => j = k
  BY DEF Chain, At
<1>2. On(n, s) \subseteq Words
  BY <1>1 DEF On
<1>3. i # n + 1 => i \in 1..n /\ fl = s[i] /\ fl \in On(n, s) /\ next[fl] = IF i = n THEN Null ELSE s[i + 1]
  BY <1>1 DEF At, On, Chain
<1>4. i # 1 => i - 1 \in 1..n /\ prev = s[i - 1] /\ prev \in On(n, s)
  BY <1>1 DEF At, On
<1>5. (i = n + 1 => fl = Null) /\ (i = 1 => prev = Null)
  BY DEF At
<1>6. i # n + 1 /\ i # 1 => prev # fl
  BY <1>1, <1>3, <1>4
<1> QED BY <1>1, <1>2, <1>3, <1>4, <1>5, <1>6, Sizes

\* At first there are no pieces.
LEMMA ArenaInitInv == Init => ArenaInv
<1> SUFFICES ASSUME Init PROVE ArenaInv
  OBVIOUS
<1>1. TypeOK
  <2>1. 0 \in 0..BlockSize - 1 /\ 0 \in 0..MaxBlocks
    BY Sizes
  <2> QED BY <2>1 DEF Init, TypeOK, Pointers
<1> DEFINE s == [i \in 1..0 |-> 0]
<1>2. s \in [1..0 -> Words] /\ On(0, s) = {} /\ \A i \in 1..0 : FALSE
  BY DEF On
<1> HIDE DEF s
<1>3. Chain(0, s, freeList, next)
  BY <1>2 DEF Chain, Init
<1>4. Tiles({}, available, 0)
  <2>1. InUse(0) = {}
    <3>1. 0 * Stride = 0
      BY Sizes
    <3>2. \A w \in Words : ~(w < 0)
      BY Sizes
    <3> QED BY <3>1, <3>2 DEF InUse
  <2>2. available \in [Words -> Nat]
    BY <1>1, Typed
  <2> QED BY <2>1, <2>2, MakesTiling
<1>5. Whole(allocated, 0, s)
  BY <1>2, <1>3, <1>4 DEF Whole, Init
<1> QED BY <1>1, <1>5 DEF ArenaInv, AtRest, Init

\* The search begins at the head of the list.
LEMMA AllocInv ==
  ASSUME ArenaInv, Careful, NEW k \in Requests, Alloc(k)
  PROVE  ArenaInv'
<1>1. AtRest /\ TypeOK
  BY DEF ArenaInv, Alloc, InFree
<1>2. PICK n, s : Whole(allocated, n, s)
  BY <1>1 DEF AtRest
<1>3. Chain(n, s, freeList, next)
  BY <1>2 DEF Whole
<1>4. FreeNodes = On(n, s) /\ ~Loops
  BY <1>3, NodesAre
<1>5. /\ pc' = "search" /\ request' = k /\ fl' = freeList
      /\ UNCHANGED <<blocks, freeList, available, next, allocated, prev, newFl, foundBefore, foundAfter>>
  BY <1>4 DEF Alloc
<1>6. n \in Nat /\ freeList = (IF n = 0 THEN Null ELSE s[1]) /\ On(n, s) = {s[j] : j \in 1..n}
  BY <1>3 DEF Chain, On
<1>7. n = 0 \/ \E j \in 1..n : available[s[j]] >= k
  <2>1. FreeNodes # {} => \E w \in FreeNodes : available[w] >= k
    BY DEF Alloc, MayAlloc
  <2>2. ASSUME n # 0 PROVE s[1] \in On(n, s)
    BY <1>6, <2>2
  <2> QED BY <1>4, <1>6, <2>1, <2>2
<1>8. At(n, s, 1)'
  <2>1. prev' = Null
    BY <1>1, <1>5 DEF AtRest
  <2> QED BY <1>5, <1>6, <2>1 DEF At
<1>9. Whole(allocated, n, s)'
  BY <1>2, <1>5 DEF Whole, EndOf
<1>10. \A j \in 1..1 - 1 : FALSE
  OBVIOUS
<1>11. SearchAt(n, s, 1)'
  BY <1>1, <1>5, <1>7, <1>8, <1>9, <1>10 DEF SearchAt, AtRest
<1>12. TypeOK'
  BY <1>1, <1>5 DEF TypeOK
<1> QED BY <1>5, <1>11, <1>12 DEF ArenaInv

\* A node that is too small.
LEMMA SearchNextInv ==
  ASSUME ArenaInv, SearchNext
  PROVE  ArenaInv'
<1>1. TypeOK /\ \E n, s, i : SearchAt(n, s, i)
  BY DEF ArenaInv, SearchNext, InFree
<1>2. PICK n, s, i : SearchAt(n, s, i)
  BY <1>1
<1>3. Chain(n, s, freeList, next) /\ At(n, s, i)
  BY <1>2 DEF SearchAt, Whole
<1>4. /\ n \in Nat /\ i \in 1..n /\ fl = s[i] /\ next[fl] = IF i = n THEN Null ELSE s[i + 1]
      /\ fl \in Words
  BY <1>3, AtNode DEF SearchNext
<1>5. /\ available[fl] < request /\ prev' = fl /\ fl' = next[fl]
      /\ UNCHANGED <<blocks, freeList, available, next, allocated, pc, request, newFl, foundBefore, foundAfter>>
  BY DEF SearchNext
<1>6. Whole(allocated, n, s)'
  BY <1>2, <1>5 DEF SearchAt, Whole, EndOf
<1>7. At(n, s, i + 1)'
  <2>1. i + 1 \in 1..n + 1 /\ i + 1 # 1 /\ (i + 1) - 1 = i /\ (i + 1 = n + 1 <=> i = n)
    BY <1>4
  <2> QED BY <1>4, <1>5, <2>1 DEF At
<1>8. \A j \in 1..(i + 1) - 1 : available'[s[j]] < request'
  <2>1. \A j \in 1..(i + 1) - 1 : j = i \/ j \in 1..i - 1
    BY <1>4
  <2> QED BY <1>2, <1>4, <1>5, <2>1 DEF SearchAt
<1>9. SearchAt(n, s, i + 1)'
  BY <1>2, <1>5, <1>6, <1>7, <1>8 DEF SearchAt
<1>10. TypeOK'
  BY <1>1, <1>4, <1>5 DEF TypeOK, Pointers
<1>11. pc' = "search"
  BY <1>5 DEF SearchNext
<1> QED BY <1>9, <1>10, <1>11 DEF ArenaInv

\* A block is added only to an empty list, where it is large enough.
LEMMA NewBlockInv ==
  ASSUME ArenaInv, NewBlock
  PROVE  ArenaInv'
<1>1. TypeOK /\ \E n, s, i : SearchAt(n, s, i)
  BY DEF ArenaInv, NewBlock, InFree
<1>2. PICK n, s, i : SearchAt(n, s, i)
  BY <1>1
<1>3. Chain(n, s, freeList, next) /\ At(n, s, i)
  BY <1>2 DEF SearchAt, Whole
<1>4. n \in Nat /\ i = n + 1 /\ (prev # Null <=> i # 1) /\ s \in [1..n -> Words]
  BY <1>3, AtNode DEF NewBlock, Chain
<1>5. request \in 1..BlockSize - 1 /\ request \in Nat \ {0}
  BY <1>2, ArenaAssumption DEF SearchAt
<1>6. available \in [Words -> Nat] /\ blocks \in Nat /\ allocated \subseteq Words /\ next \in [Words -> Pointers]
  BY <1>1, Typed
<1>7. n = 0
  <2>1. \A j \in 1..n : available[s[j]] < request
    BY <1>2, <1>4 DEF SearchAt
  <2>2. \A j \in 1..n : available[s[j]] \in Nat
    BY <1>4, <1>6
  <2>3. \A j \in 1..n : ~(available[s[j]] >= request)
    BY <1>5, <2>1, <2>2
  <2> QED BY <1>2, <2>3 DEF SearchAt
<1>8. On(n, s) = {} /\ prev = Null
  BY <1>4, <1>7 DEF On
<1>9. Tiles(allocated, available, blocks)
  BY <1>2, <1>8 DEF SearchAt, Whole
<1> DEFINE x == blocks * Stride
<1>10. /\ pc' = "search" /\ blocks' = blocks + 1 /\ freeList' = x /\ fl' = x
       /\ available' = [available EXCEPT ![x] = BlockSize - 1]
       /\ next' = [next EXCEPT ![x] = freeList]
       /\ UNCHANGED <<allocated, request, prev, newFl, foundBefore, foundAfter>>
  BY DEF NewBlock
<1>11. x \in Words
  <2>1. blocks \in 0..MaxBlocks - 1 /\ 0 \in 0..Stride - 1
    BY <1>6, Sizes DEF NewBlock
  <2>2. Stride * blocks + 0 \in 0..Stride * MaxBlocks - 1
    BY <2>1, Sizes, Below
  <2>3. x = Stride * blocks + 0 /\ Stride * MaxBlocks = MaxBlocks * Stride
    BY <1>6, Sizes
  <2> QED BY <2>2, <2>3 DEF Words
<1> HIDE DEF x
<1>12. BlockSize - 1 \in Nat /\ BlockSize - 1 >= 1 /\ BlockSize - 1 >= request
  BY <1>5, Sizes
<1>13. /\ available' \in [Words -> Nat] /\ available'[x] = BlockSize - 1
       /\ \A w \in Words : w # x => available'[w] = available[w]
  BY <1>6, <1>10, <1>11, <1>12
<1>14. x \notin allocated /\ Tiles(allocated \union {x}, available', blocks + 1)
  <2>1. blocks \in 0..MaxBlocks - 1
    BY <1>6, Sizes DEF NewBlock
  <2> QED BY <1>6, <1>9, <1>12, <1>13, <2>1, BlockTiles DEF x
<1>15. PICK t : Chain(n + 1, t, x, next') /\ On(n + 1, t) = On(n, s) \union {x}
  <2>1. next'[x] = freeList /\ x \notin On(n, s) /\ \A w \in On(n, s) : next'[w] = next[w]
    BY <1>6, <1>8, <1>10, <1>11
  <2> QED BY <1>3, <1>11, <2>1, ChainPush
<1>16. Chain(1, t, freeList', next') /\ On(1, t) = {x} /\ t[1] = x
  BY <1>7, <1>8, <1>10, <1>15 DEF Chain
<1>17. Whole(allocated, 1, t)'
  <2>1. \A v, w \in {x} : v + available'[v] + 1 # w
    BY <1>11, <1>12, <1>13, Sizes
  <2>2. allocated' \intersect On(1, t) = {} /\ allocated' \union On(1, t) = allocated \union {x}
    BY <1>10, <1>14, <1>16
  <2> QED BY <1>10, <1>14, <1>16, <2>1, <2>2 DEF Whole, EndOf
<1>18. At(1, t, 1)'
  <2>1. prev' = Null /\ fl' = t[1] /\ 1 \in 1..1 + 1
    BY <1>8, <1>10, <1>16
  <2> QED BY <2>1 DEF At
<1>19. SearchAt(1, t, 1)'
  <2>1. \E j \in 1..1 : available'[t[j]] >= request'
    BY <1>10, <1>12, <1>13, <1>16
  <2>2. \A j \in 1..1 - 1 : FALSE
    OBVIOUS
  <2> QED BY <1>2, <1>10, <1>17, <1>18, <2>1, <2>2 DEF SearchAt
<1>20. TypeOK'
  <2>1. blocks' \in 0..MaxBlocks
    BY <1>1, <1>6, <1>10, Sizes DEF NewBlock
  <2>2. available' \in [Words -> 0..BlockSize - 1]
    <3>1. BlockSize - 1 \in 0..BlockSize - 1
      BY <1>12
    <3> QED BY <1>1, <1>10, <3>1 DEF TypeOK
  <2>3. next' \in [Words -> Pointers] /\ freeList' \in Pointers /\ fl' \in Pointers
    BY <1>1, <1>10, <1>11 DEF TypeOK, Pointers
  <2> QED BY <1>1, <1>10, <2>1, <2>2, <2>3 DEF TypeOK
<1> QED BY <1>10, <1>19, <1>20 DEF ArenaInv

\* A call that leaves the pieces as they ought to be returns.
LEMMA AllocReturns ==
  ASSUME TypeOK, HandOut, pc = "search", fl \in Words,
         available' \in [Words -> 0..BlockSize - 1], next' \in [Words -> Pointers], freeList' \in Pointers,
         NEW CONSTANT n, NEW CONSTANT s, Whole(allocated, n, s)'
  PROVE  ArenaInv'
<1>1. Chain(n, s, freeList', next')
  BY DEF Whole
<1>2. ~Loops'
  BY <1>1, NodesAreNext
<1>3. /\ pc' = "idle" /\ request' = 0 /\ prev' = Null /\ fl' = Null /\ newFl' = Null
      /\ foundBefore' = FALSE /\ foundAfter' = FALSE /\ blocks' = blocks /\ allocated' = allocated \union {fl}
  BY <1>2 DEF HandOut, Return
<1>4. AtRest'
  BY <1>3 DEF AtRest
<1>5. TypeOK'
  BY <1>3 DEF TypeOK, Pointers
<1> QED BY <1>3, <1>4, <1>5 DEF ArenaInv

\* The rest of a node takes its place in the list.
LEMMA SplitInv ==
  ASSUME ArenaInv, Split
  PROVE  ArenaInv'
<1>1. TypeOK /\ \E n, s, i : SearchAt(n, s, i)
  BY DEF ArenaInv, Split, InFree
<1>2. PICK n, s, i : SearchAt(n, s, i)
  BY <1>1
<1>3. Chain(n, s, freeList, next) /\ At(n, s, i) /\ Whole(allocated, n, s)
  BY <1>2 DEF SearchAt, Whole
<1>4. /\ n \in Nat /\ i \in 1..n /\ fl = s[i] /\ fl \in On(n, s) /\ fl \in Words
      /\ On(n, s) \subseteq Words /\ (prev # Null <=> i # 1)
      /\ (prev # Null => prev = s[i - 1] /\ prev \in On(n, s) /\ prev \in Words /\ prev # fl)
  BY <1>3, AtNode DEF Split
<1>5. request \in 1..BlockSize - 1 /\ request \in Nat \ {0}
  BY <1>2, ArenaAssumption DEF SearchAt
<1>6. available \in [Words -> Nat] /\ blocks \in Nat /\ allocated \subseteq Words /\ next \in [Words -> Pointers]
  BY <1>1, Typed
<1> DEFINE P == allocated \union On(n, s)
           x == fl + 1 + request
<1>7. P \subseteq Words /\ fl \in P /\ Tiles(P, available, blocks) /\ allocated \intersect On(n, s) = {}
  BY <1>3, <1>4, <1>6 DEF Whole
<1>8. fl \in Nat /\ available[fl] \in Nat /\ available[fl] >= request + 2 /\ x \in Nat /\ fl < x
  BY <1>4, <1>5, <1>6, Sizes DEF Split
<1>9. x \in Words
  <2>1. \A w \in Nat : fl <= w /\ w < End(available, fl) => w \in InUse(blocks)
    <3> HIDE DEF P
    <3> QED BY <1>6, <1>7, PieceIs
  <2>2. x < End(available, fl)
    BY <1>5, <1>8 DEF End
  <2> QED BY <1>8, <2>1, <2>2 DEF InUse
<1>10. /\ available' = [available EXCEPT ![x] = available[fl] - (request + 1), ![fl] = request]
       /\ Replace(x, [next EXCEPT ![x] = next[fl]]) /\ HandOut /\ pc = "search"
  BY DEF Split
<1>11. allocated' = allocated \union {fl} /\ blocks' = blocks
  BY <1>10 DEF HandOut
<1> HIDE DEF x
<1>12. /\ available[fl] - (request + 1) \in Nat /\ available[fl] - (request + 1) \in 0..BlockSize - 1
  <2>1. available[fl] \in 0..BlockSize - 1
    BY <1>1, <1>4 DEF TypeOK
  <2> QED BY <1>5, <1>8, <2>1, Sizes
<1>13. /\ available' \in [Words -> Nat] /\ available'[fl] = request /\ available'[x] = available[fl] - (request + 1)
       /\ \A w \in Words : w # fl /\ w # x => available'[w] = available[w]
  <2>1. x # fl
    BY <1>8
  <2> QED BY <1>4, <1>5, <1>6, <1>9, <1>10, <1>12, <2>1
<1>14. /\ x \notin P /\ Tiles(P \union {x}, available', blocks)
       /\ End(available', fl) = x /\ End(available', x) = End(available, fl)
       /\ \A w \in P : w # fl => End(available', w) = End(available, w)
  <2> HIDE DEF P
  <2>1. /\ P \subseteq Words /\ available \in [Words -> Nat] /\ blocks \in Nat /\ Tiles(P, available, blocks)
        /\ fl \in P /\ request \in Nat \ {0} /\ available[fl] >= request + 2 /\ x = fl + 1 + request
        /\ available' \in [Words -> Nat] /\ available'[fl] = request
        /\ available'[x] = available[fl] - (request + 1)
        /\ \A w \in Words : w # fl /\ w # x => available'[w] = available[w]
    BY <1>5, <1>6, <1>7, <1>8, <1>13 DEF x
  <2>2. x \notin P /\ Tiles(P \union {x}, available', blocks)
    BY <2>1, SplitTiles
  <2>3. End(available', fl) = x /\ End(available', x) = End(available, fl)
    BY <1>8, <2>1 DEF End
  <2>4. \A w \in P : w # fl => End(available', w) = End(available, w)
    BY <2>1, <2>2 DEF End
  <2> QED BY <2>2, <2>3, <2>4
<1>15. PICK t : Chain(n, t, freeList', next') /\ On(n, t) = (On(n, s) \ {s[i]}) \union {x}
  <2>1. x \notin On(n, s) /\ x # prev
    BY <1>4, <1>9, <1>14, Sizes
  <2>2. freeList' = IF i = 1 THEN x ELSE freeList
    BY <1>4, <1>10 DEF Replace
  <2>3. next'[x] = next[s[i]] /\ (i # 1 => next'[s[i - 1]] = x)
    BY <1>4, <1>6, <1>9, <1>10, <2>1 DEF Replace
  <2>4. ASSUME NEW j \in 1..n, j # i, j # i - 1 PROVE next'[s[j]] = next[s[j]]
    <3>1. s[j] # x /\ s[j] \in Words
      BY <1>4, <2>1 DEF On
    <3>2. prev # Null => s[j] # prev
      <4>1. i # 1 => i - 1 \in 1..n
        BY <1>4
      <4> QED BY <1>3, <1>4, <2>4, <4>1 DEF Chain
    <3> QED BY <1>6, <1>10, <3>1, <3>2 DEF Replace
  <2>5. /\ Chain(n, s, freeList, next) /\ i \in 1..n /\ x \in Words /\ x \notin On(n, s)
        /\ freeList' = (IF i = 1 THEN x ELSE freeList)
        /\ next'[x] = next[s[i]] /\ (i # 1 => next'[s[i - 1]] = x)
        /\ \A j \in 1..n : j # i /\ j # i - 1 => next'[s[j]] = next[s[j]]
    BY <1>3, <1>4, <1>9, <2>1, <2>2, <2>3, <2>4
  <2> QED BY <2>5, ChainReplace
<1>16. On(n, t) = (On(n, s) \ {fl}) \union {x}
  BY <1>4, <1>15
<1>17. \A v, w \in On(n, t) : End(available', v) # w
  <2>1. \A v, w \in On(n, s) : End(available, v) # w
    BY <1>3 DEF Whole, EndOf, End
  <2>2. \A w \in P : w \in Nat /\ End(available, w) \in Nat /\ w < End(available, w)
    <3> HIDE DEF P
    <3> QED BY <1>6, <1>7, PieceIs
  <2>3. \A v, w \in P : v < w => End(available, v) <= w
    <3> HIDE DEF P
    <3> QED BY <1>6, <1>7, PieceIs
  <2>4. On(n, s) \subseteq P
    OBVIOUS
  <2>5. x < End(available, fl)
    BY <1>5, <1>8 DEF End, x
  <2> HIDE DEF P
  <2>6. ASSUME NEW v \in On(n, s), v # fl PROVE End(available', v) # x
    <3>1. End(available', v) = End(available, v)
      BY <1>14, <2>4, <2>6
    <3>2. (v < fl => End(available, v) <= fl) /\ (fl < v => End(available, fl) <= v)
      BY <1>7, <2>3, <2>4
    <3>3. /\ v \in Nat /\ End(available, v) \in Nat /\ v < End(available, v)
          /\ fl \in Nat /\ x \in Nat /\ End(available, fl) \in Nat /\ fl < x
      BY <1>7, <1>8, <2>2, <2>4
    <3> QED BY <2>5, <2>6, <3>1, <3>2, <3>3
  <2>7. End(available', x) # x
    BY <1>8, <1>14, <2>5
  <2>8. ASSUME NEW v \in On(n, s), v # fl, NEW w \in On(n, s) PROVE End(available', v) # w /\ End(available', x) # w
    BY <1>4, <1>14, <2>1, <2>4, <2>8
  <2> QED BY <1>4, <1>14, <1>16, <2>1, <2>6, <2>7, <2>8
<1>18. Whole(allocated, n, t)'
  <2>1. allocated' \union On(n, t) = P \union {x} /\ allocated' \intersect On(n, t) = {}
    BY <1>4, <1>7, <1>11, <1>14, <1>16
  <2>2. \A v, w \in On(n, t) : EndOf(v)' # w
    BY <1>17 DEF End, EndOf
  <2> HIDE DEF P
  <2> QED BY <1>11, <1>14, <1>15, <2>1, <2>2 DEF Whole
<1>19. available' \in [Words -> 0..BlockSize - 1]
  <2>1. request \in 0..BlockSize - 1
    BY <1>5
  <2> QED BY <1>1, <1>10, <1>12, <2>1 DEF TypeOK
<1>20. next' \in [Words -> Pointers] /\ freeList' \in Pointers
  <2>1. next[fl] \in Pointers /\ x \in Pointers
    BY <1>4, <1>6, <1>9 DEF Pointers
  <2> QED BY <1>1, <1>6, <1>10, <2>1 DEF Replace, TypeOK
<1> QED BY <1>1, <1>4, <1>10, <1>18, <1>19, <1>20, AllocReturns

\* A node leaves the list.
LEMMA TakeWholeInv ==
  ASSUME ArenaInv, TakeWhole
  PROVE  ArenaInv'
<1>1. TypeOK /\ \E n, s, i : SearchAt(n, s, i)
  BY DEF ArenaInv, TakeWhole, InFree
<1>2. PICK n, s, i : SearchAt(n, s, i)
  BY <1>1
<1>3. Chain(n, s, freeList, next) /\ At(n, s, i) /\ Whole(allocated, n, s)
  BY <1>2 DEF SearchAt, Whole
<1>4. /\ n \in Nat /\ i \in 1..n /\ fl = s[i] /\ fl \in On(n, s) /\ fl \in Words
      /\ On(n, s) \subseteq Words /\ (prev # Null <=> i # 1)
      /\ (prev # Null => prev = s[i - 1] /\ prev \in On(n, s) /\ prev \in Words /\ prev # fl)
  BY <1>3, AtNode DEF TakeWhole
<1>5. available \in [Words -> Nat] /\ blocks \in Nat /\ allocated \subseteq Words /\ next \in [Words -> Pointers]
  BY <1>1, Typed
<1>6. Replace(next[fl], next) /\ available' = available /\ HandOut /\ pc = "search"
  BY DEF TakeWhole
<1>7. allocated' = allocated \union {fl} /\ blocks' = blocks
  BY <1>6 DEF HandOut
<1> DEFINE t == [j \in 1..n - 1 |-> IF j < i THEN s[j] ELSE s[j + 1]]
<1>8. Chain(n - 1, t, freeList', next') /\ On(n - 1, t) = On(n, s) \ {s[i]}
  <2>1. freeList' = IF i = 1 THEN next[s[i]] ELSE freeList
    BY <1>4, <1>6 DEF Replace
  <2>2. i # 1 => next'[s[i - 1]] = next[s[i]]
    BY <1>4, <1>5, <1>6 DEF Replace
  <2>3. ASSUME NEW j \in 1..n, j # i, j # i - 1 PROVE next'[s[j]] = next[s[j]]
    <3>1. s[j] \in Words
      BY <1>4 DEF On
    <3>2. prev # Null => s[j] # prev
      <4>1. i # 1 => i - 1 \in 1..n
        BY <1>4
      <4> QED BY <1>3, <1>4, <2>3, <4>1 DEF Chain
    <3> QED BY <1>5, <1>6, <3>1, <3>2 DEF Replace
  <2>4. t = [j \in 1..n - 1 |-> IF j < i THEN s[j] ELSE s[j + 1]]
    OBVIOUS
  <2> HIDE DEF t
  <2> QED BY <1>3, <1>4, <2>1, <2>2, <2>3, <2>4, ChainRemove
<1> HIDE DEF t
<1>9. Whole(allocated, n - 1, t)'
  <2>1. /\ allocated' \union On(n - 1, t) = allocated \union On(n, s)
        /\ allocated' \intersect On(n - 1, t) = {} /\ On(n - 1, t) \subseteq On(n, s)
    BY <1>3, <1>4, <1>7, <1>8 DEF Whole
  <2>2. \A v, w \in On(n - 1, t) : EndOf(v)' # w
    BY <1>3, <1>6, <2>1 DEF Whole, EndOf
  <2>3. Tiles(allocated \union On(n, s), available, blocks)
    BY <1>3 DEF Whole
  <2> QED BY <1>6, <1>7, <1>8, <2>1, <2>2, <2>3 DEF Whole
<1>10. next' \in [Words -> Pointers] /\ freeList' \in Pointers
  <2>1. next[fl] \in Pointers
    BY <1>4, <1>5
  <2> QED BY <1>1, <1>5, <1>6, <2>1 DEF Replace, TypeOK
<1>11. available' \in [Words -> 0..BlockSize - 1]
  BY <1>1, <1>6 DEF TypeOK
<1> QED BY <1>1, <1>4, <1>6, <1>9, <1>10, <1>11, AllocReturns

\* Freeing begins at the head of the list; without a list the node is the list.
LEMMA FreeInv ==
  ASSUME ArenaInv, Careful, NEW w \in allocated, Free(w)
  PROVE  ArenaInv'
<1>1. AtRest /\ TypeOK
  BY DEF ArenaInv, Free, InFree
<1>2. PICK n, s : Whole(allocated, n, s)
  BY <1>1 DEF AtRest
<1>3. /\ Chain(n, s, freeList, next) /\ allocated \intersect On(n, s) = {}
      /\ Tiles(allocated \union On(n, s), available, blocks) /\ \A u, v \in On(n, s) : EndOf(u) # v
  BY <1>2 DEF Whole
<1>4. FreeNodes = On(n, s) /\ ~Loops /\ (n > 1 => Cardinality(FreeNodes) > 1)
  BY <1>3, NodesAre
<1>5. /\ n \in Nat /\ s \in [1..n -> Words] /\ freeList = (IF n = 0 THEN Null ELSE s[1])
      /\ (n # 0 => s[1] # Null)
  BY <1>3, Sizes DEF Chain
<1>6. w \in Words /\ w \notin On(n, s) /\ next \in [Words -> Pointers]
  BY <1>1, <1>3, Typed
<1>7. /\ allocated' = allocated \ {w} /\ next' = [next EXCEPT ![w] = Null]
      /\ UNCHANGED <<blocks, available>>
  BY DEF Free
<1>8. Chain(n, s, freeList, next')
  <2>1. \A v \in On(n, s) : next'[v] = next[v]
    BY <1>6, <1>7
  <2> QED BY <1>3, <2>1, ChainSame
<1>9. next' \in [Words -> Pointers] /\ allocated' \subseteq Words /\ next'[w] = Null
  BY <1>1, <1>6, <1>7 DEF Pointers, TypeOK
<1>10. CASE freeList = Null
  <2>1. freeList' = w /\ Return(TRUE)
    BY <1>10 DEF Free
  <2>2. n = 0 /\ On(n, s) = {}
    BY <1>5, <1>10 DEF On
  <2>3. PICK t : Chain(n + 1, t, w, next') /\ On(n + 1, t) = On(n, s) \union {w}
    <3>1. next'[w] = freeList /\ \A v \in On(n, s) : next'[v] = next'[v]
      BY <1>9, <1>10
    <3> QED BY <1>6, <1>8, <3>1, ChainPush
  <2>4. Chain(1, t, freeList', next') /\ On(1, t) = {w}
    BY <2>1, <2>2, <2>3
  <2>5. w + available[w] + 1 # w
    BY <1>1, <1>6, Typed, Sizes
  <2>6. Whole(allocated, 1, t)'
    <3>1. allocated' \intersect {w} = {} /\ allocated' \union {w} = allocated \union On(n, s)
      BY <1>7, <2>2
    <3> QED BY <1>3, <1>7, <2>4, <2>5, <3>1 DEF Whole, EndOf
  <2>7. AtRest' /\ pc' = "idle"
    BY <2>1, <2>6 DEF AtRest, Return
  <2>8. TypeOK'
    BY <1>1, <1>6, <1>7, <1>9, <2>1 DEF TypeOK, Return, Pointers
  <2> QED BY <2>7, <2>8 DEF ArenaInv
<1>11. CASE freeList # Null
  <2>1. /\ pc' = "merge" /\ newFl' = w /\ fl' = freeList
        /\ UNCHANGED <<freeList, request, prev, foundBefore, foundAfter>>
    BY <1>4, <1>11 DEF Free
  <2>2. n # 0 /\ freeList = s[1]
    BY <1>5, <1>11
  <2>3. request' = 0 /\ prev' = Null /\ ~foundBefore' /\ ~foundAfter'
    BY <1>1, <2>1 DEF AtRest
  <2>4. Whole(allocated \union {newFl}, n, s)'
    <3>1. allocated' \union {newFl'} = allocated
      BY <1>7, <2>1
    <3> QED BY <1>3, <1>7, <1>8, <2>1, <3>1 DEF Whole, EndOf
  <2>5. At(n, s, 1)'
    BY <1>5, <2>1, <2>2, <2>3 DEF At
  <2>6. n = 1 \/ ~Beside(newFl, s[1])'
    <3>1. Cardinality(FreeNodes) > 1 => ~Beside(w, freeList)
      BY DEF Free, MayFree
    <3>2. n # 1 => ~Beside(w, s[1])
      BY <1>4, <1>5, <2>2, <3>1
    <3> QED BY <1>7, <2>1, <3>2 DEF Beside, EndOf
  <2>7. \A j \in 1..1 - 1 : FALSE
    OBVIOUS
  <2>8. WalkAt(n, s, 1)'
    BY <1>9, <2>1, <2>2, <2>3, <2>4, <2>5, <2>6, <2>7 DEF WalkAt
  <2>9. Freeing' /\ InFree'
    BY <1>6, <1>7, <2>1, <2>3, <2>8 DEF Freeing, InFree
  <2>10. TypeOK'
    BY <1>1, <1>6, <1>7, <1>9, <2>1 DEF TypeOK, Pointers
  <2> QED BY <2>9, <2>10 DEF ArenaInv
<1> QED BY <1>10, <1>11

\* What a walk that is not at its end has before it.
LEMMA WalkIs ==
  ASSUME ArenaInv, pc = "merge", fl # Null
  PROVE  /\ TypeOK /\ request = 0 /\ newFl \in Words /\ newFl \notin allocated
         /\ \E n, s, i : WalkAt(n, s, i)
BY DEF ArenaInv, InFree, Freeing, Alone

\* The node of the walk, and those of the list.
LEMMA WalkNode ==
  ASSUME TypeOK, newFl \in Words, fl # Null, NEW n, NEW s, NEW i, WalkAt(n, s, i)
  PROVE  /\ n \in Nat /\ s \in [1..n -> Words] /\ i \in 1..n /\ fl = s[i] /\ fl \in On(n, s) /\ fl \in Words
         /\ next[fl] = IF i = n THEN Null ELSE s[i + 1]
         /\ On(n, s) \subseteq Words /\ (prev # Null <=> i # 1)
         /\ (prev # Null => prev = s[i - 1] /\ prev \in On(n, s) /\ prev \in Words /\ prev # fl)
         /\ newFl \notin On(n, s)
<1>1. Chain(n, s, freeList, next) /\ At(n, s, i) /\ (allocated \union {newFl}) \intersect On(n, s) = {}
  BY DEF WalkAt, Whole
<1> QED BY <1>1, AtNode DEF Chain

\* What the merges do to the list: node i leaves it unless it is the first.
LEMMA Bypassed ==
  ASSUME TypeOK, newFl \in Words, fl # Null, NEW n, NEW s, NEW i, WalkAt(n, s, i), i # 1,
         NEW l, l[prev] = next[fl], \A w \in Words : w # prev /\ w # fl => l[w] = next[w]
  PROVE  \E t : /\ Chain(n - 1, t, freeList, l) /\ On(n - 1, t) = On(n, s) \ {fl}
                /\ i \in 1..(n - 1) + 1 /\ n - 1 # 0
                /\ \A j \in 1..i - 1 : t[j] = s[j]
                /\ next[fl] = IF i = (n - 1) + 1 THEN Null ELSE t[i]
<1> DEFINE t == [j \in 1..n - 1 |-> IF j < i THEN s[j] ELSE s[j + 1]]
<1>1. /\ n \in Nat /\ s \in [1..n -> Words] /\ i \in 1..n /\ fl = s[i] /\ fl \in On(n, s) /\ fl \in Words
      /\ next[fl] = (IF i = n THEN Null ELSE s[i + 1])
      /\ prev # Null /\ prev = s[i - 1] /\ prev # fl
  BY WalkNode
<1>2. Chain(n, s, freeList, next) /\ \A j, k \in 1..n : s[j] = s[k] => j = k
  BY DEF WalkAt, Whole, Chain
<1>3. Chain(n - 1, t, freeList, l) /\ On(n - 1, t) = On(n, s) \ {s[i]}
  <2>1. l[s[i - 1]] = next[s[i]]
    BY <1>1
  <2>2. ASSUME NEW j \in 1..n, j # i, j # i - 1 PROVE l[s[j]] = next[s[j]]
    <3>1. i - 1 \in 1..n
      BY <1>1
    <3>2. s[j] # prev /\ s[j] # fl /\ s[j] \in Words
      BY <1>1, <1>2, <2>2, <3>1
    <3> QED BY <3>2
  <2>3. t = [j \in 1..n - 1 |-> IF j < i THEN s[j] ELSE s[j + 1]]
    OBVIOUS
  <2> HIDE DEF t
  <2>4. /\ Chain(n, s, freeList, next) /\ i \in 1..n
        /\ freeList = (IF i = 1 THEN next[s[i]] ELSE freeList)
        /\ (i # 1 => l[s[i - 1]] = next[s[i]])
        /\ \A j \in 1..n : j # i /\ j # i - 1 => l[s[j]] = next[s[j]]
    BY <1>1, <1>2, <2>1, <2>2
  <2> QED BY <2>3, <2>4, ChainRemove
<1>4. i \in 1..(n - 1) + 1 /\ n - 1 # 0
  BY <1>1
<1>5. \A j \in 1..i - 1 : t[j] = s[j]
  BY <1>1
<1>6. next[fl] = IF i = (n - 1) + 1 THEN Null ELSE t[i]
  BY <1>1
<1> HIDE DEF t
<1> QED BY <1>1, <1>3, <1>4, <1>5, <1>6

\* A piece that has grown is still not larger than a block.
LEMMA GrownIsTyped ==
  ASSUME NEW P, P \subseteq Words, NEW a \in [Words -> 0..BlockSize - 1], NEW k \in Nat,
         NEW v \in P, NEW d \in Nat, NEW b, b = [a EXCEPT ![v] = d], Tiles(P, b, k)
  PROVE  b \in [Words -> 0..BlockSize - 1]
<1>1. 0..BlockSize - 1 \subseteq Nat /\ v \in Nat /\ v \in Words
  BY Sizes
<1>2. b \in [Words -> Nat] /\ b[v] = d
  BY <1>1
<1>3. v..v + d \subseteq InUse(k)
  <2>1. v..End(b, v) - 1 \subseteq InUse(k)
    BY DEF Tiles, Within
  <2>2. End(b, v) - 1 = v + d
    BY <1>1, <1>2 DEF End
  <2> QED BY <2>1, <2>2
<1>4. d <= BlockSize - 1
  BY <1>1, <1>3, RunIsShort
<1>5. d \in 0..BlockSize - 1
  BY <1>4, Sizes
<1> QED BY <1>5

\* The node behind the freed one is merged with it.
LEMMA MergeAfterInv ==
  ASSUME ArenaInv, MergeAfter
  PROVE  ArenaInv'
<1>1. TypeOK /\ request = 0 /\ newFl \in Words /\ newFl \notin allocated /\ \E n, s, i : WalkAt(n, s, i)
  BY WalkIs DEF MergeAfter
<1>2. PICK n, s, i : WalkAt(n, s, i)
  BY <1>1
<1>3. fl # Null /\ pc = "merge" /\ ~foundAfter /\ fl = EndOf(newFl)
  BY DEF MergeAfter, ComesAfter
<1>4. /\ n \in Nat /\ s \in [1..n -> Words] /\ i \in 1..n /\ fl = s[i] /\ fl \in On(n, s) /\ fl \in Words
      /\ next[fl] = (IF i = n THEN Null ELSE s[i + 1])
      /\ On(n, s) \subseteq Words /\ (prev # Null <=> i # 1)
      /\ (prev # Null => prev = s[i - 1] /\ prev \in On(n, s) /\ prev \in Words /\ prev # fl)
      /\ newFl \notin On(n, s)
  BY <1>1, <1>2, <1>3, WalkNode
<1>5. /\ Tiles((allocated \union {newFl}) \union On(n, s), available, blocks)
      /\ allocated \intersect On(n, s) = {} /\ (\A v, w \in On(n, s) : End(available, v) # w)
      /\ \A j \in 1..i - 1 : ~Beside(newFl, s[j])
      /\ (foundBefore => i # 1 /\ \A v \in On(n, s) : End(available, v) # newFl)
      /\ (n = 1 \/ ~Beside(newFl, s[1])) /\ next[newFl] = Null
  BY <1>2 DEF WalkAt, Whole, EndOf, End
<1>6. available \in [Words -> Nat] /\ blocks \in Nat /\ allocated \subseteq Words /\ next \in [Words -> Pointers]
  BY <1>1, Typed
<1>7. /\ next' = Bypass /\ fl' = next[fl] /\ foundAfter' = TRUE
      /\ available' = [available EXCEPT ![newFl] = available[newFl] + available[fl] + 1]
      /\ pc' = (IF foundBefore THEN "link" ELSE "merge")
      /\ UNCHANGED <<blocks, freeList, allocated, request, prev, newFl, foundBefore>>
  BY DEF MergeAfter
<1> DEFINE P == (allocated \union {newFl}) \union On(n, s)
<1>8. P \subseteq Words /\ newFl \in P /\ fl \in P
  BY <1>1, <1>4, <1>6
<1>9. /\ available[newFl] + available[fl] + 1 \in Nat
      /\ available' \in [Words -> Nat] /\ available'[newFl] = available[newFl] + available[fl] + 1
      /\ \A w \in Words : w # newFl => available'[w] = available[w]
  BY <1>1, <1>4, <1>6, <1>7
<1>10. Tiles(P \ {fl}, available', blocks)
  <2> HIDE DEF P
  <2>1. Tiles(P, available, blocks)
    BY <1>5 DEF P
  <2>2. End(available, newFl) = fl
    BY <1>3 DEF EndOf, End
  <2> QED BY <1>6, <1>8, <1>9, <2>1, <2>2, MergeTiles
<1>11. newFl # fl /\ End(available', newFl) = End(available, fl)
       /\ \A w \in On(n, s) : End(available', w) = End(available, w)
  <2>1. newFl # fl /\ fl = newFl + available[newFl] + 1
    BY <1>3, <1>4 DEF EndOf
  <2>2. newFl \in Nat /\ available[newFl] \in Nat /\ available[fl] \in Nat
    BY <1>1, <1>4, <1>6, Sizes
  <2>3. End(available', newFl) = End(available, fl)
    BY <1>9, <2>1, <2>2 DEF End
  <2> QED BY <1>4, <1>9, <2>1, <2>3 DEF End
<1>12. available' \in [Words -> 0..BlockSize - 1]
  <2>1. newFl \in P \ {fl} /\ P \ {fl} \subseteq Words
    BY <1>8, <1>11
  <2>2. available \in [Words -> 0..BlockSize - 1]
    BY <1>1 DEF TypeOK
  <2> HIDE DEF P
  <2> QED BY <1>6, <1>7, <1>9, <1>10, <2>1, <2>2, GrownIsTyped
<1>13. next' \in [Words -> Pointers] /\ fl' \in Pointers
  <2>1. next[fl] \in Pointers
    BY <1>4, <1>6
  <2> QED BY <1>6, <1>7, <2>1 DEF Bypass
<1>14. TypeOK'
  BY <1>1, <1>7, <1>12, <1>13 DEF TypeOK
<1>15. CASE i = 1
  <2>1. n = 1
    BY <1>3, <1>4, <1>5, <1>15 DEF Beside
  <2>2. fl' = Null /\ pc' = "merge" /\ prev' = Null /\ next' = next
    BY <1>4, <1>5, <1>7, <1>15, <2>1 DEF Bypass
  <2>3. On(n, s) = {fl}
    BY <1>4, <1>15, <2>1 DEF On
  <2>4. P \ {fl} = allocated \union {newFl}
    BY <1>4, <1>5, <1>11, <2>3
  <2>5. Tiles(allocated' \union {newFl'}, available', blocks')
    BY <1>7, <1>10, <2>4
  <2>6. Alone'
    BY <1>5, <1>7, <2>2, <2>5 DEF Alone
  <2>7. Freeing' /\ InFree'
    BY <1>1, <1>7, <2>2, <2>6 DEF Freeing, InFree
  <2> QED BY <1>14, <2>7 DEF ArenaInv
<1>16. CASE i # 1
  <2>1. next' = [next EXCEPT ![prev] = next[fl]]
    BY <1>4, <1>7, <1>16 DEF Bypass
  <2>2. next'[prev] = next[fl] /\ \A w \in Words : w # prev /\ w # fl => next'[w] = next[w]
    BY <1>4, <1>6, <1>16, <2>1
  <2>3. PICK t : /\ Chain(n - 1, t, freeList, next') /\ On(n - 1, t) = On(n, s) \ {fl}
                 /\ i \in 1..(n - 1) + 1 /\ n - 1 # 0
                 /\ \A j \in 1..i - 1 : t[j] = s[j]
                 /\ next[fl] = IF i = (n - 1) + 1 THEN Null ELSE t[i]
    BY <1>1, <1>2, <1>3, <1>16, <2>2, Bypassed
  <2> DEFINE m == n - 1
  <2>4. At(m, t, i)'
    <3>1. i - 1 \in 1..i - 1
      BY <1>4, <1>16
    <3> QED BY <1>4, <1>7, <1>16, <2>3, <3>1 DEF At
  <2>5. Whole(allocated \union {newFl}, m, t)'
    <3>1. (allocated \union {newFl}) \union On(m, t) = P \ {fl}
      BY <1>4, <1>5, <1>11, <2>3
    <3>2. (allocated \union {newFl}) \intersect On(m, t) = {}
      BY <1>4, <1>5, <2>3
    <3>3. \A v, w \in On(m, t) : End(available', v) # w
      BY <1>5, <1>11, <2>3
    <3> HIDE DEF P, m
    <3> QED BY <1>7, <1>10, <2>3, <3>1, <3>2, <3>3 DEF Whole, EndOf, End, m
  <2>6. ASSUME NEW j \in 1..i - 1 PROVE ~Beside(newFl, t[j])'
    <3>1. t[j] = s[j] /\ j \in 1..n /\ s[j] \in On(n, s)
      BY <1>4, <2>3 DEF On
    <3>2. End(available', newFl) # s[j] /\ End(available', s[j]) # newFl
      <4>1. End(available, fl) # s[j]
        BY <1>4, <1>5, <3>1
      <4>2. End(available, s[j]) # newFl
        BY <1>5 DEF Beside, EndOf, End
      <4> QED BY <1>11, <3>1, <4>1, <4>2
    <3> QED BY <1>7, <3>1, <3>2 DEF Beside, EndOf, End
  <2>7. \A v \in On(m, t) : EndOf(newFl)' # v
    BY <1>4, <1>5, <1>7, <1>11, <2>3 DEF EndOf, End
  <2>8. foundBefore => \A v \in On(m, t) : EndOf(v)' # newFl'
    BY <1>5, <1>7, <1>11, <2>3 DEF EndOf, End
  <2>9. ~Beside(newFl, t[1])'
    <3>1. 1 \in 1..i - 1
      BY <1>4, <1>16
    <3> QED BY <2>6, <3>1
  <2>10. next'[newFl'] = Null
    BY <1>1, <1>4, <1>5, <1>7, <1>16, <2>1, <2>2
  <2>11. m # 0
    BY <2>3
  <2>12. WalkAt(m, t, i)'
    <3> HIDE DEF m
    <3> QED BY <1>7, <1>16, <2>4, <2>5, <2>6, <2>7, <2>8, <2>9, <2>10, <2>11 DEF WalkAt
  <2>13. Freeing' /\ InFree'
    BY <1>1, <1>7, <2>12 DEF Freeing, InFree
  <2> QED BY <1>14, <2>13 DEF ArenaInv
<1> QED BY <1>15, <1>16

\* The freed node is merged with the one before it.
LEMMA MergeBeforeInv ==
  ASSUME ArenaInv, MergeBefore
  PROVE  ArenaInv'
<1>1. TypeOK /\ request = 0 /\ newFl \in Words /\ newFl \notin allocated /\ \E n, s, i : WalkAt(n, s, i)
  BY WalkIs DEF MergeBefore
<1>2. PICK n, s, i : WalkAt(n, s, i)
  BY <1>1
<1>3. fl # Null /\ pc = "merge" /\ ~foundBefore /\ newFl = EndOf(fl)
  BY DEF MergeBefore, ComesBefore
<1>4. /\ n \in Nat /\ s \in [1..n -> Words] /\ i \in 1..n /\ fl = s[i] /\ fl \in On(n, s) /\ fl \in Words
      /\ next[fl] = (IF i = n THEN Null ELSE s[i + 1])
      /\ On(n, s) \subseteq Words /\ (prev # Null <=> i # 1)
      /\ (prev # Null => prev = s[i - 1] /\ prev \in On(n, s) /\ prev \in Words /\ prev # fl)
      /\ newFl \notin On(n, s)
  BY <1>1, <1>2, <1>3, WalkNode
<1>5. /\ Tiles((allocated \union {newFl}) \union On(n, s), available, blocks)
      /\ allocated \intersect On(n, s) = {} /\ (\A v, w \in On(n, s) : End(available, v) # w)
      /\ \A j \in 1..i - 1 : ~Beside(newFl, s[j])
      /\ (foundAfter => i # 1 /\ \A v \in On(n, s) : End(available, newFl) # v)
      /\ (n = 1 \/ ~Beside(newFl, s[1])) /\ next[newFl] = Null
  BY <1>2 DEF WalkAt, Whole, EndOf, End
<1>6. available \in [Words -> Nat] /\ blocks \in Nat /\ allocated \subseteq Words /\ next \in [Words -> Pointers]
  BY <1>1, Typed
<1>7. /\ next' = [Bypass EXCEPT ![fl] = Null] /\ fl' = next[fl] /\ newFl' = fl /\ foundBefore' = TRUE
      /\ available' = [available EXCEPT ![fl] = available[fl] + available[newFl] + 1]
      /\ pc' = (IF foundAfter THEN "link" ELSE "merge")
      /\ UNCHANGED <<blocks, freeList, allocated, request, prev, foundAfter>>
  BY DEF MergeBefore
<1> DEFINE P == (allocated \union {newFl}) \union On(n, s)
<1>8. P \subseteq Words /\ newFl \in P /\ fl \in P
  BY <1>1, <1>4, <1>6
<1>9. /\ available[fl] + available[newFl] + 1 \in Nat
      /\ available' \in [Words -> Nat] /\ available'[fl] = available[fl] + available[newFl] + 1
      /\ \A w \in Words : w # fl => available'[w] = available[w]
  BY <1>1, <1>4, <1>6, <1>7
<1>10. Tiles(P \ {newFl}, available', blocks)
  <2> HIDE DEF P
  <2>1. Tiles(P, available, blocks)
    BY <1>5 DEF P
  <2>2. End(available, fl) = newFl
    BY <1>3 DEF EndOf, End
  <2> QED BY <1>6, <1>8, <1>9, <2>1, <2>2, MergeTiles
<1>11. newFl # fl /\ End(available', fl) = End(available, newFl)
       /\ \A w \in On(n, s) : w # fl => End(available', w) = End(available, w)
  <2>1. newFl # fl /\ newFl = fl + available[fl] + 1
    BY <1>3, <1>4 DEF EndOf
  <2>2. fl \in Nat /\ available[newFl] \in Nat /\ available[fl] \in Nat
    BY <1>1, <1>4, <1>6, Sizes
  <2>3. End(available', fl) = End(available, newFl)
    BY <1>9, <2>1, <2>2 DEF End
  <2> QED BY <1>4, <1>9, <2>1, <2>3 DEF End
<1>12. available' \in [Words -> 0..BlockSize - 1]
  <2>1. fl \in P \ {newFl} /\ P \ {newFl} \subseteq Words
    BY <1>8, <1>11
  <2>2. available \in [Words -> 0..BlockSize - 1]
    BY <1>1 DEF TypeOK
  <2> HIDE DEF P
  <2> QED BY <1>6, <1>7, <1>9, <1>10, <2>1, <2>2, GrownIsTyped
<1>13. next' \in [Words -> Pointers] /\ fl' \in Pointers /\ newFl' \in Pointers
  <2>1. next[fl] \in Pointers /\ fl \in Pointers /\ Null \in Pointers
    BY <1>4, <1>6 DEF Pointers
  <2> QED BY <1>6, <1>7, <2>1 DEF Bypass
<1>14. TypeOK'
  BY <1>1, <1>7, <1>12, <1>13 DEF TypeOK
<1>15. fl \notin allocated
  BY <1>4, <1>5
<1>16. CASE i = 1
  <2>1. n = 1
    BY <1>3, <1>4, <1>5, <1>16 DEF Beside
  <2>2. fl' = Null /\ pc' = "merge" /\ prev' = Null
    BY <1>4, <1>5, <1>7, <1>16, <2>1
  <2>3. On(n, s) = {fl}
    BY <1>4, <1>16, <2>1 DEF On
  <2>4. P \ {newFl} = allocated \union {fl}
    BY <1>1, <1>4, <1>5, <1>11, <2>3
  <2>5. Tiles(allocated' \union {newFl'}, available', blocks')
    BY <1>7, <1>10, <2>4
  <2>6. next'[newFl'] = Null
    BY <1>4, <1>6, <1>7 DEF Bypass
  <2>7. Alone'
    BY <2>2, <2>5, <2>6 DEF Alone
  <2>8. Freeing' /\ InFree'
    BY <1>1, <1>4, <1>7, <1>15, <2>2, <2>7 DEF Freeing, InFree
  <2> QED BY <1>14, <2>8 DEF ArenaInv
<1>17. CASE i # 1
  <2>1. next' = [[next EXCEPT ![prev] = next[fl]] EXCEPT ![fl] = Null]
    BY <1>4, <1>7, <1>17 DEF Bypass
  <2>2. next'[prev] = next[fl] /\ next'[fl] = Null /\ \A w \in Words : w # prev /\ w # fl => next'[w] = next[w]
    BY <1>4, <1>6, <1>17, <2>1
  <2>3. PICK t : /\ Chain(n - 1, t, freeList, next') /\ On(n - 1, t) = On(n, s) \ {fl}
                 /\ i \in 1..(n - 1) + 1 /\ n - 1 # 0
                 /\ \A j \in 1..i - 1 : t[j] = s[j]
                 /\ next[fl] = IF i = (n - 1) + 1 THEN Null ELSE t[i]
    BY <1>1, <1>2, <1>3, <1>17, <2>2, Bypassed
  <2> DEFINE m == n - 1
  <2>4. At(m, t, i)'
    <3>1. i - 1 \in 1..i - 1
      BY <1>4, <1>17
    <3> QED BY <1>4, <1>7, <1>17, <2>3, <3>1 DEF At
  <2>5. Whole(allocated \union {newFl}, m, t)'
    <3>1. (allocated \union {fl}) \union On(m, t) = P \ {newFl}
      BY <1>1, <1>4, <1>5, <1>11, <2>3
    <3>2. (allocated \union {fl}) \intersect On(m, t) = {}
      BY <1>4, <1>5, <2>3
    <3>3. \A v, w \in On(m, t) : End(available', v) # w
      BY <1>5, <1>11, <2>3
    <3> HIDE DEF P, m
    <3> QED BY <1>7, <1>10, <2>3, <3>1, <3>2, <3>3 DEF Whole, EndOf, End, m
  <2>6. ASSUME NEW j \in 1..i - 1 PROVE ~Beside(newFl, t[j])'
    <3>1. t[j] = s[j] /\ j \in 1..n /\ s[j] \in On(n, s) /\ s[j] # fl
      <4>1. t[j] \in On(n - 1, t)
        BY <1>4, <2>3 DEF On
      <4> QED BY <1>4, <2>3, <4>1 DEF On
    <3>2. End(available', fl) # s[j] /\ End(available', s[j]) # fl
      <4>1. End(available, newFl) # s[j]
        BY <1>5 DEF Beside, EndOf, End
      <4>2. End(available, s[j]) # fl
        BY <1>4, <1>5, <3>1
      <4> QED BY <1>11, <3>1, <4>1, <4>2
    <3> QED BY <1>7, <3>1, <3>2 DEF Beside, EndOf, End
  <2>7. foundAfter => \A v \in On(m, t) : EndOf(newFl)' # v
    BY <1>5, <1>7, <1>11, <2>3 DEF EndOf, End
  <2>8. \A v \in On(m, t) : EndOf(v)' # newFl'
    BY <1>4, <1>5, <1>7, <1>11, <2>3 DEF EndOf, End
  <2>9. ~Beside(newFl, t[1])'
    <3>1. 1 \in 1..i - 1
      BY <1>4, <1>17
    <3> QED BY <2>6, <3>1
  <2>10. next'[newFl'] = Null
    BY <1>7, <2>2
  <2>11. m # 0
    BY <2>3
  <2>12. WalkAt(m, t, i)'
    <3> HIDE DEF m
    <3> QED BY <1>7, <1>17, <2>4, <2>5, <2>6, <2>7, <2>8, <2>9, <2>10, <2>11 DEF WalkAt
  <2>13. Freeing' /\ InFree'
    BY <1>1, <1>4, <1>7, <1>15, <2>12 DEF Freeing, InFree
  <2> QED BY <1>14, <2>13 DEF ArenaInv
<1> QED BY <1>16, <1>17

\* A node on neither side.
LEMMA MergeNextInv ==
  ASSUME ArenaInv, MergeNext
  PROVE  ArenaInv'
<1>1. TypeOK /\ request = 0 /\ newFl \in Words /\ newFl \notin allocated /\ \E n, s, i : WalkAt(n, s, i)
  BY WalkIs DEF MergeNext
<1>2. PICK n, s, i : WalkAt(n, s, i)
  BY <1>1
<1>3. fl # Null /\ pc = "merge" /\ ~ComesAfter /\ ~ComesBefore
  BY DEF MergeNext
<1>4. /\ n \in Nat /\ i \in 1..n /\ fl = s[i] /\ fl \in On(n, s) /\ fl \in Words
      /\ next[fl] = (IF i = n THEN Null ELSE s[i + 1])
  BY <1>1, <1>2, <1>3, WalkNode
<1>5. /\ prev' = fl /\ fl' = next[fl]
      /\ UNCHANGED <<blocks, freeList, available, next, allocated, pc, request, newFl, foundBefore, foundAfter>>
  BY DEF MergeNext
<1>6. ~Beside(newFl, fl)
  <2>1. EndOf(newFl) # fl
    BY <1>2, <1>3, <1>4 DEF WalkAt, ComesAfter
  <2>2. EndOf(fl) # newFl
    BY <1>2, <1>3, <1>4 DEF WalkAt, ComesBefore
  <2> QED BY <2>1, <2>2 DEF Beside
<1>7. Whole(allocated \union {newFl}, n, s)'
  BY <1>2, <1>5 DEF WalkAt, Whole, EndOf
<1>8. At(n, s, i + 1)'
  <2>1. i + 1 \in 1..n + 1 /\ i + 1 # 1 /\ (i + 1) - 1 = i /\ (i + 1 = n + 1 <=> i = n)
    BY <1>4
  <2> QED BY <1>4, <1>5, <2>1 DEF At
<1>9. \A j \in 1..(i + 1) - 1 : ~Beside(newFl, s[j])'
  <2>1. \A j \in 1..(i + 1) - 1 : j = i \/ j \in 1..i - 1
    BY <1>4
  <2>2. \A j \in 1..(i + 1) - 1 : ~Beside(newFl, s[j])
    BY <1>2, <1>4, <1>6, <2>1 DEF WalkAt
  <2> QED BY <1>5, <2>2 DEF Beside, EndOf
<1>10. i + 1 # 1
  BY <1>4
<1>11. WalkAt(n, s, i + 1)'
  BY <1>2, <1>3, <1>5, <1>7, <1>8, <1>9, <1>10 DEF WalkAt, Beside, EndOf
<1>12. TypeOK'
  <2>1. next[fl] \in Pointers /\ fl \in Pointers
    BY <1>1, <1>4, Typed DEF Pointers
  <2> QED BY <1>1, <1>5, <2>1 DEF TypeOK
<1>13. Freeing' /\ InFree'
  BY <1>1, <1>3, <1>5, <1>11 DEF Freeing, InFree
<1> QED BY <1>12, <1>13 DEF ArenaInv

\* The freed node is put in front; alone, it is the list.
LEMMA LinkInv ==
  ASSUME ArenaInv, Link
  PROVE  ArenaInv'
<1>1. /\ TypeOK /\ newFl \in Words /\ newFl \notin allocated
      /\ Alone \/ \E n, s, i : WalkAt(n, s, i)
  BY DEF ArenaInv, Link, InFree, Freeing
<1>2. /\ next' = (IF prev # Null THEN [next EXCEPT ![newFl] = freeList] ELSE next)
      /\ freeList' = newFl /\ UNCHANGED <<blocks, available, allocated>> /\ Return(next'[newFl] # newFl)
      /\ pc = "link" \/ (pc = "merge" /\ fl = Null)
  BY DEF Link
<1>3. available \in [Words -> Nat] /\ next \in [Words -> Pointers] /\ freeList \in Pointers /\ Words \subseteq Nat
  BY <1>1, Typed
<1>4. newFl + available[newFl] + 1 # newFl
  BY <1>1, <1>3
<1>5. next' \in [Words -> Pointers] /\ freeList' \in Pointers
  BY <1>1, <1>2, <1>3 DEF Pointers
<1>6. SUFFICES ASSUME NEW CONSTANT n, NEW CONSTANT s, Whole(allocated, n, s)', next'[newFl] # newFl
               PROVE  ArenaInv'
  <2>1. CASE Alone
    <3>1. prev = Null /\ next[newFl] = Null /\ Tiles(allocated \union {newFl}, available, blocks)
      BY <2>1 DEF Alone
    <3>2. next' = next /\ next'[newFl] = Null /\ Null # newFl
      BY <1>1, <1>2, <3>1, Sizes
    <3> DEFINE e == [j \in 1..0 |-> 0]
    <3>3. e \in [1..0 -> Words] /\ On(0, e) = {} /\ \A j \in 1..0 : FALSE
      BY DEF On
    <3> HIDE DEF e
    <3>4. Chain(0, e, Null, next)
      BY <3>3 DEF Chain
    <3>5. PICK t : Chain(0 + 1, t, newFl, next') /\ On(0 + 1, t) = On(0, e) \union {newFl}
      BY <1>1, <3>2, <3>3, <3>4, ChainPush
    <3>6. Chain(1, t, freeList', next') /\ On(1, t) = {newFl}
      BY <1>2, <3>3, <3>5
    <3>7. Whole(allocated, 1, t)'
      BY <1>1, <1>2, <1>4, <3>1, <3>6 DEF Whole, EndOf
    <3> QED BY <1>6, <3>2, <3>7
  <2>2. CASE \E m, t, i : WalkAt(m, t, i)
    <3>1. PICK m, t, i : WalkAt(m, t, i)
      BY <2>2
    <3>2. /\ Chain(m, t, freeList, next) /\ (allocated \union {newFl}) \intersect On(m, t) = {}
          /\ Tiles((allocated \union {newFl}) \union On(m, t), available, blocks)
          /\ (\A v, w \in On(m, t) : EndOf(v) # w) /\ At(m, t, i) /\ m # 0
      BY <3>1 DEF WalkAt, Whole
    <3>3. m \in Nat /\ i \in Nat \ {0} /\ On(m, t) \subseteq Words /\ (fl # Null <=> i # m + 1) /\ (prev # Null <=> i # 1)
      BY <3>2, AtNode
    <3>4. i # 1
      BY <1>2, <3>1, <3>3 DEF WalkAt
    <3>5. next' = [next EXCEPT ![newFl] = freeList] /\ freeList = t[1] /\ t[1] \in On(m, t)
      <4>1. 1 \in 1..m
        BY <3>2, <3>3
      <4> QED BY <1>2, <3>2, <3>3, <3>4, <4>1 DEF Chain, On
    <3>6. next'[newFl] = freeList /\ freeList # newFl /\ newFl \notin On(m, t)
      BY <1>1, <1>3, <3>2, <3>5
    <3>7. PICK u : Chain(m + 1, u, newFl, next') /\ On(m + 1, u) = On(m, t) \union {newFl}
      <4>1. \A w \in On(m, t) : next'[w] = next[w]
        BY <1>3, <3>3, <3>5, <3>6
      <4> QED BY <1>1, <3>2, <3>6, <4>1, ChainPush
    <3>8. \A v \in On(m, t) : EndOf(newFl) # v /\ EndOf(v) # newFl
      <4>1. CASE pc = "link"
        BY <3>1, <4>1 DEF WalkAt
      <4>2. CASE fl = Null
        <5>1. \A j \in 1..m : ~Beside(newFl, t[j])
          BY <3>1, <3>3, <4>2 DEF WalkAt
        <5> QED BY <5>1 DEF On, Beside
      <4> QED BY <1>2, <4>1, <4>2
    <3>9. \A v, w \in On(m + 1, u) : EndOf(v) # w
      BY <1>4, <3>2, <3>7, <3>8 DEF EndOf
    <3>10. allocated \intersect On(m + 1, u) = {} /\ allocated \union On(m + 1, u) = (allocated \union {newFl}) \union On(m, t)
      BY <1>1, <3>2, <3>7
    <3>11. Whole(allocated, m + 1, u)'
      BY <1>2, <3>2, <3>7, <3>9, <3>10 DEF Whole, EndOf
    <3> QED BY <1>6, <3>6, <3>11
  <2> QED BY <1>1, <2>1, <2>2
<1>7. /\ pc' = "idle" /\ request' = 0 /\ prev' = Null /\ fl' = Null /\ newFl' = Null
      /\ foundBefore' = FALSE /\ foundAfter' = FALSE
  BY <1>2, <1>6 DEF Return
<1>8. AtRest'
  BY <1>6, <1>7 DEF AtRest
<1>9. TypeOK'
  BY <1>1, <1>2, <1>5, <1>7 DEF TypeOK, Pointers
<1> QED BY <1>7, <1>8, <1>9 DEF ArenaInv

\* No step breaks the invariant, when the caller is careful.
LEMMA ArenaInductive ==
  ASSUME Careful
  PROVE  ArenaInv /\ [Next]_vars => ArenaInv'
<1> SUFFICES ASSUME ArenaInv, [Next]_vars PROVE ArenaInv'
  OBVIOUS
<1>1. ASSUME NEW n \in Requests, Alloc(n) PROVE ArenaInv'
  BY <1>1, AllocInv
<1>2. ASSUME NEW w \in allocated, Free(w) PROVE ArenaInv'
  BY <1>2, FreeInv
<1>3. CASE SearchNext
  BY <1>3, SearchNextInv
<1>4. CASE NewBlock
  BY <1>4, NewBlockInv
<1>5. CASE Split
  BY <1>5, SplitInv
<1>6. CASE TakeWhole
  BY <1>6, TakeWholeInv
<1>7. CASE MergeAfter
  BY <1>7, MergeAfterInv
<1>8. CASE MergeBefore
  BY <1>8, MergeBeforeInv
<1>9. CASE MergeNext
  BY <1>9, MergeNextInv
<1>10. CASE Link
  BY <1>10, LinkInv
<1>11. CASE UNCHANGED vars
  <2>1. UNCHANGED <<blocks, freeList, available, next, allocated, pc, request, prev, fl, newFl, foundBefore, foundAfter>>
    BY <1>11 DEF vars
  <2>2. TypeOK'
    BY <2>1 DEF ArenaInv, TypeOK
  <2>3. CASE pc = "idle" /\ AtRest
    <3>1. PICK n, s : Whole(allocated, n, s)
      BY <2>3 DEF AtRest
    <3>2. Whole(allocated, n, s)'
      BY <2>1, <3>1 DEF Whole, EndOf
    <3>3. AtRest'
      BY <2>1, <2>3, <3>2 DEF AtRest
    <3> QED BY <2>1, <2>2, <2>3, <3>3 DEF ArenaInv
  <2>4. CASE pc = "search" /\ \E n, s, i : SearchAt(n, s, i)
    <3>1. PICK n, s, i : SearchAt(n, s, i)
      BY <2>4
    <3>2. Whole(allocated, n, s)' /\ At(n, s, i)'
      BY <2>1, <3>1 DEF SearchAt, Whole, EndOf, At
    <3>3. SearchAt(n, s, i)'
      BY <2>1, <3>1, <3>2 DEF SearchAt
    <3> QED BY <2>1, <2>2, <2>4, <3>3 DEF ArenaInv
  <2>5. CASE InFree /\ Freeing
    <3>1. request' = 0 /\ newFl' \in Words /\ newFl' \notin allocated' /\ InFree'
      BY <2>1, <2>5 DEF Freeing, InFree
    <3>2. ASSUME Alone PROVE Alone'
      BY <2>1, <3>2 DEF Alone
    <3>3. ASSUME NEW n, NEW s, NEW i, WalkAt(n, s, i) PROVE WalkAt(n, s, i)'
      <4>1. Whole(allocated \union {newFl}, n, s)' /\ At(n, s, i)'
        BY <2>1, <3>3 DEF WalkAt, Whole, EndOf, At
      <4> QED BY <2>1, <3>3, <4>1 DEF WalkAt, Beside, EndOf
    <3>4. Freeing'
      <4>1. CASE Alone
        BY <3>1, <3>2, <4>1 DEF Freeing
      <4>2. CASE \E n, s, i : WalkAt(n, s, i)
        <5>1. PICK n, s, i : WalkAt(n, s, i)
          BY <4>2
        <5>2. WalkAt(n, s, i)'
          BY <3>3, <5>1
        <5> QED BY <3>1, <5>2 DEF Freeing
      <4> QED BY <2>5, <4>1, <4>2 DEF Freeing
    <3> QED BY <2>2, <3>1, <3>4 DEF ArenaInv
  <2> QED BY <2>3, <2>4, <2>5 DEF ArenaInv
<1> QED BY <1>1, <1>2, <1>3, <1>4, <1>5, <1>6, <1>7, <1>8, <1>9, <1>10, <1>11 DEF Next

-----------------------------------------------------------------------------
(* The theorems                                                            *)

\* What ArenaInv says of a time between two calls.
LEMMA InvTiled == ArenaInv => Tiled
<1> SUFFICES ASSUME ArenaInv, pc = "idle"
             PROVE  /\ \A w \in Words :
                         Cardinality({v \in allocated \union FreeNodes : v <= w /\ w < EndOf(v)}) =
                           IF w < blocks * Stride /\ w % Stride < BlockSize THEN 1 ELSE 0
                    /\ \A v, w \in FreeNodes : EndOf(v) # w
  BY DEF Tiled
<1>1. TypeOK /\ AtRest
  BY DEF ArenaInv, InFree
<1>2. PICK n, s : Whole(allocated, n, s)
  BY <1>1 DEF AtRest
<1>3. /\ Chain(n, s, freeList, next) /\ Tiles(allocated \union On(n, s), available, blocks)
      /\ \A v, w \in On(n, s) : EndOf(v) # w
  BY <1>2 DEF Whole
<1>4. FreeNodes = On(n, s)
  BY <1>3, NodesAre
<1>5. available \in [Words -> Nat] /\ blocks \in Nat /\ allocated \subseteq Words
  BY <1>1, Typed
<1>6. On(n, s) \subseteq Words
  BY <1>3 DEF Chain, On
<1> DEFINE P == allocated \union FreeNodes
<1>7. P \subseteq Words /\ Tiles(P, available, blocks)
  BY <1>3, <1>4, <1>5, <1>6
<1>8. ASSUME NEW w \in Words
      PROVE  Cardinality({v \in P : v <= w /\ w < EndOf(v)}) =
               IF w < blocks * Stride /\ w % Stride < BlockSize THEN 1 ELSE 0
  <2> HIDE DEF P
  <2>1. Cardinality({v \in P : v <= w /\ w < End(available, v)}) =
          IF w < blocks * Stride /\ w % Stride < BlockSize THEN 1 ELSE 0
    BY <1>5, <1>7, OnePiece
  <2> QED BY <2>1 DEF End, EndOf
<1> QED BY <1>3, <1>4, <1>8

\* A call that ends returns.
LEMMA CallsReturn ==
  ArenaInv /\ ArenaInv' /\ [Next]_vars =>
    /\ pc = "search" /\ pc' # "search" => pc' = "idle"
    /\ InFree /\ ~InFree' => pc' = "idle"
<1> SUFFICES ASSUME ArenaInv, ArenaInv', [Next]_vars
             PROVE  /\ pc = "search" /\ pc' # "search" => pc' = "idle"
                    /\ InFree /\ ~InFree' => pc' = "idle"
  OBVIOUS
<1>1. pc' # "panicked"
  BY DEF ArenaInv, InFree
<1>2. CASE UNCHANGED vars
  BY <1>2 DEF vars, InFree
<1>3. CASE Next
  BY <1>1, <1>3 DEF Next, Alloc, Free, SearchNext, NewBlock, Split, TakeWhole, HandOut, MergeAfter,
                    MergeBefore, MergeNext, Link, Return, InFree
<1> QED BY <1>2, <1>3

\* Addresses, sizes and links stay in the blocks, for a careful caller: memory.cpp, all of
\* ArenaAllocator.
THEOREM ArenaTyped == Careful => (Spec => []TypeOK)
<1> SUFFICES ASSUME Careful PROVE Spec => []TypeOK
  OBVIOUS
<1>1. ArenaInv => TypeOK
  BY DEF ArenaInv
<1> QED BY <1>1, ArenaInitInv, ArenaInductive, PTL DEF Spec

\* Nothing is handed out twice and nothing is lost, and free nodes side by side are one, for a
\* careful caller: alloc_no_construct and free_no_destruct.
THEOREM WordsAreTiled == Careful => (Spec => []Tiled)
<1> SUFFICES ASSUME Careful PROVE Spec => []Tiled
  OBVIOUS
<1> QED BY InvTiled, ArenaInitInv, ArenaInductive, PTL DEF Spec

\* The assertions of alloc_no_construct (memory.cpp:239) and add_to_free_list (memory.cpp:119)
\* hold for a careful caller.
THEOREM ArenaAssertions == Careful => (Spec => AllocKeepsListFinite /\ FreeLinksNodeOnce)
<1> SUFFICES ASSUME Careful PROVE Spec => AllocKeepsListFinite /\ FreeLinksNodeOnce
  OBVIOUS
<1>1. ArenaInv /\ ArenaInv' /\ [Next]_vars => [pc = "search" /\ pc' # "search" => pc' = "idle"]_vars
  BY CallsReturn
<1>2. ArenaInv /\ ArenaInv' /\ [Next]_vars => [InFree /\ ~InFree' => pc' = "idle"]_vars
  BY CallsReturn
<1> QED BY <1>1, <1>2, ArenaInitInv, ArenaInductive, PTL DEF Spec, AllocKeepsListFinite, FreeLinksNodeOnce
=============================================================================
