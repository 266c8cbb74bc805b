----------------------------- MODULE DataLemmas -----------------------------
(***************************************************************************)
(* Lemmas about the data the models are built from, for the modules that   *)
(* prove something about a model: least and greatest numbers, functions    *)
(* that repeat a step, powers of two and the items of a sequence.          *)
(***************************************************************************)
EXTENDS Pow2, NaturalsInduction, WellFoundedInduction, FiniteSetTheorems, SequenceTheorems, TLAPS

\* A set of natural numbers that is not empty has a least member.
LEMMA LeastNumber ==
  ASSUME NEW T, T \subseteq Nat, T # {}
  PROVE  \E x \in T : \A y \in T : x <= y
<1>1. PICK x \in T : \A y \in T : <<y, x>> \notin OpToRel(<, Nat)
  BY WFMin, NatLessThanWellFounded
<1>2. \A y \in T : ~(y < x)
  BY <1>1 DEF OpToRel
<1> QED BY <1>2

\* A set with 0 and with the successor of every number in it has all of them.
LEMMA SetInduction ==
  ASSUME NEW T, 0 \in T, \A n \in Nat : n \in T => n + 1 \in T
  PROVE  Nat \subseteq T
<1> SUFFICES ASSUME Nat \ T # {} PROVE FALSE
  OBVIOUS
<1>1. PICK x \in Nat \ T : \A y \in Nat \ T : x <= y
  BY LeastNumber
<1>2. x # 0 /\ x - 1 \in Nat /\ x - 1 \in T
  BY <1>1
<1> QED BY <1>1, <1>2

\* f is what becomes of base when step n of G follows step n - 1.
IsIteration(f, base, G, S) ==
  f \in [Nat -> S] /\ f[0] = base /\ \A n \in Nat : f[n + 1] = G[n][f[n]]

\* A step that stays in S can be repeated from any value in S: the functions that the loops
\* of the model are written as exist.
LEMMA Iterates ==
  ASSUME NEW S, NEW base \in S, NEW G \in [Nat -> [S -> S]]
  PROVE  \E f : IsIteration(f, base, G, S)
<1> DEFINE IsRun(n, f) == f[0] = base /\ \A i \in 0..n - 1 : f[i + 1] = G[i][f[i]]
           T == {n \in Nat : \E f \in [0..n -> S] : IsRun(n, f)}
<1>1. 0 \in T
  <2>1. [i \in 0..0 |-> base] \in [0..0 -> S] /\ IsRun(0, [i \in 0..0 |-> base])
    OBVIOUS
  <2> QED BY <2>1
<1>2. \A n \in Nat : n \in T => n + 1 \in T
  <2> SUFFICES ASSUME NEW n \in Nat, n \in T PROVE n + 1 \in T
    OBVIOUS
  <2>1. PICK f \in [0..n -> S] : IsRun(n, f)
    OBVIOUS
  <2> DEFINE g == [i \in 0..n + 1 |-> IF i = n + 1 THEN G[n][f[n]] ELSE f[i]]
  <2>2. f[n] \in S
    OBVIOUS
  <2>3. g \in [0..n + 1 -> S]
    BY <2>2
  <2>4. IsRun(n + 1, g)
    BY <2>1
  <2>5. \E r \in [0..n + 1 -> S] : IsRun(n + 1, r)
    <3> HIDE DEF g, IsRun
    <3> QED BY <2>3, <2>4
  <2>6. n + 1 \in Nat
    OBVIOUS
  <2> HIDE DEF IsRun
  <2> QED BY <2>5, <2>6
<1>3. \A n \in Nat : \E f \in [0..n -> S] : IsRun(n, f)
  <2>1. Nat \subseteq T
    <3> HIDE DEF T
    <3> QED BY <1>1, <1>2, SetInduction
  <2> QED BY <2>1
<1> DEFINE run(n) == CHOOSE f \in [0..n -> S] : IsRun(n, f)
           h == [n \in Nat |-> run(n)[n]]
<1>4. \A n \in Nat : run(n) \in [0..n -> S] /\ IsRun(n, run(n))
  BY <1>3
<1> HIDE DEF run
<1>5. ASSUME NEW n \in Nat PROVE \A i \in 0..n : run(n)[i] = run(n + 1)[i]
  <2> DEFINE f1 == run(n)
             f2 == run(n + 1)
             U == {i \in Nat : i <= n => f1[i] = f2[i]}
  <2>0. IsRun(n, f1) /\ IsRun(n + 1, f2)
    BY <1>4, n + 1 \in Nat
  <2> HIDE DEF f1, f2
  <2>1. 0 \in U
    BY <2>0
  <2>2. \A i \in Nat : i \in U => i + 1 \in U
    <3> SUFFICES ASSUME NEW i \in Nat, f1[i] = f2[i], i + 1 <= n PROVE f1[i + 1] = f2[i + 1]
      OBVIOUS
    <3>1. i \in 0..n - 1 /\ i \in 0..(n + 1) - 1
      OBVIOUS
    <3>2. f1[i + 1] = G[i][f1[i]] /\ f2[i + 1] = G[i][f2[i]]
      BY <3>1, <2>0
    <3> QED BY <3>2
  <2>3. Nat \subseteq U
    <3> HIDE DEF U
    <3> QED BY <2>1, <2>2, SetInduction
  <2>4. \A i \in 0..n : f1[i] = f2[i]
    BY <2>3
  <2> QED BY <2>4 DEF f1, f2
<1>6. h \in [Nat -> S]
  BY <1>4
<1>7. h[0] = base
  BY <1>4
<1>8. ASSUME NEW n \in Nat PROVE h[n + 1] = G[n][h[n]]
  <2>1. h[n + 1] = run(n + 1)[n + 1] /\ h[n] = run(n)[n]
    OBVIOUS
  <2>2. run(n + 1)[n + 1] = G[n][run(n + 1)[n]]
    BY <1>4
  <2>3. run(n)[n] = run(n + 1)[n]
    BY <1>5
  <2> QED BY <2>1, <2>2, <2>3
<1>9. IsIteration(h, base, G, S)
  <2> HIDE DEF h
  <2> QED BY <1>6, <1>7, <1>8 DEF IsIteration
<1> QED BY <1>9

\* Min of a set of numbers is its least.
LEMMA LeastIsMin ==
  ASSUME NEW T, T \subseteq Nat, T # {}
  PROVE  Min(T) \in T /\ \A y \in T : Min(T) <= y
<1>1. \E x \in T : \A y \in T : x <= y
  BY LeastNumber
<1> QED BY <1>1 DEF Min

\* Max of a set of numbers that is bounded is its greatest.
LEMMA GreatestIsMax ==
  ASSUME NEW m \in Nat, NEW T, T \subseteq 0..m, T # {}
  PROVE  Max(T) \in T /\ \A y \in T : y <= Max(T)
<1> DEFINE U == {m - y : y \in T}
<1>1. U \subseteq Nat /\ U # {}
  <2>1. PICK y \in T : TRUE
    OBVIOUS
  <2>2. m - y \in U
    OBVIOUS
  <2>3. U \subseteq Nat
    OBVIOUS
  <2> HIDE DEF U
  <2> QED BY <2>2, <2>3
<1>2. PICK u \in U : \A w \in U : u <= w
  BY <1>1, LeastNumber
<1>3. PICK x \in T : u = m - x
  BY <1>2
<1>4. \A y \in T : x >= y
  <2> SUFFICES ASSUME NEW y \in T PROVE x >= y
    OBVIOUS
  <2>1. m - y \in U
    OBVIOUS
  <2>2. u <= m - y
    BY <1>2, <2>1
  <2> QED BY <1>3, <2>2
<1>5. \E z \in T : \A y \in T : z >= y
  BY <1>3, <1>4
<1>6. Max(T) \in T /\ \A y \in T : Max(T) >= y
  BY <1>5 DEF Max
<1>7. \A y \in T : y \in Int
  OBVIOUS
<1> QED BY <1>6, <1>7

-----------------------------------------------------------------------------
\* There is a function that doubles c again and again.
LEMMA DoublingExists ==
  ASSUME NEW c \in Nat
  PROVE  \E f : f = [n \in Nat |-> IF n = 0 THEN c ELSE 2 * f[n - 1]]
<1> DEFINE G == [n \in Nat |-> [x \in Nat |-> 2 * x]]
           F(f) == [n \in Nat |-> IF n = 0 THEN c ELSE 2 * f[n - 1]]
<1>1. G \in [Nat -> [Nat -> Nat]]
  OBVIOUS
<1>2. PICK f \in [Nat -> Nat] : f[0] = c /\ \A n \in Nat : f[n + 1] = G[n][f[n]]
  <2> HIDE DEF G
  <2>1. \E f : IsIteration(f, c, G, Nat)
    BY <1>1, Iterates
  <2> QED BY <2>1 DEF IsIteration
<1>3. \A n \in Nat : f[n + 1] = 2 * f[n]
  BY <1>2
<1>4. \A n \in Nat : F(f)[n] = f[n]
  <2> SUFFICES ASSUME NEW n \in Nat PROVE F(f)[n] = f[n]
    OBVIOUS
  <2>1. CASE n = 0
    BY <2>1, <1>2
  <2>2. CASE n # 0
    <3>1. n - 1 \in Nat /\ (n - 1) + 1 = n
      BY <2>2
    <3>2. f[(n - 1) + 1] = 2 * f[n - 1]
      BY <3>1, <1>3
    <3> QED BY <2>2, <3>1, <3>2
  <2> QED BY <2>1, <2>2
<1>5. f = F(f)
  BY <1>4
<1> QED BY <1>5

\* Such a function goes on as a loop that doubles does.
LEMMA DoublingSteps ==
  ASSUME NEW c \in Nat, NEW D, D = [n \in Nat |-> IF n = 0 THEN c ELSE 2 * D[n - 1]]
  PROVE  /\ D \in [Nat -> Nat]
         /\ D[0] = c
         /\ \A n \in Nat : D[n + 1] = 2 * D[n]
<1> DEFINE E == [n \in Nat |-> IF n = 0 THEN c ELSE 2 * D[n - 1]]
<1>1. D = E
  OBVIOUS
<1>2. DOMAIN D = Nat /\ D[0] = c
  BY <1>1
<1>3. \A n \in Nat : D[n + 1] = 2 * D[n]
  <2> SUFFICES ASSUME NEW n \in Nat PROVE D[n + 1] = 2 * D[n]
    OBVIOUS
  <2>1. n + 1 \in Nat /\ n + 1 # 0 /\ (n + 1) - 1 = n
    OBVIOUS
  <2>2. E[n + 1] = 2 * D[n]
    BY <2>1
  <2> QED BY <2>2, <1>1
<1>4. \A n \in Nat : D[n] \in Nat
  <2> DEFINE T == {n \in Nat : D[n] \in Nat}
  <2>1. 0 \in T /\ \A n \in Nat : n \in T => n + 1 \in T
    BY <1>2, <1>3
  <2>2. Nat \subseteq T
    <3> HIDE DEF T
    <3> QED BY <2>1, SetInduction
  <2> QED BY <2>2
<1>5. D = [n \in Nat |-> D[n]]
  BY <1>1
<1>6. D \in [Nat -> Nat]
  BY <1>4, <1>5
<1> QED BY <1>2, <1>3, <1>6

\* The powers of two leave every number behind.
LEMMA PowersGrow == PowersOf2 \in [Nat -> Nat] /\ \A n \in Nat : PowersOf2[n] >= n
<1> DEFINE T == {n \in Nat : PowersOf2[n] >= n}
<1>1. PowersOf2 = [n \in Nat |-> IF n = 0 THEN 1 ELSE 2 * PowersOf2[n - 1]]
  <2> DEFINE F(f) == [n \in Nat |-> IF n = 0 THEN 1 ELSE 2 * f[n - 1]]
             P == PowersOf2
  <2>1. P = CHOOSE f : f = F(f)
    BY DEF PowersOf2
  <2>2. \E f : f = F(f)
    BY DoublingExists, 1 \in Nat
  <2>3. P = F(P)
    <3> HIDE DEF F, P
    <3> QED BY <2>1, <2>2
  <2> QED BY <2>3
<1>2. PowersOf2 \in [Nat -> Nat] /\ PowersOf2[0] = 1 /\ \A n \in Nat : PowersOf2[n + 1] = 2 * PowersOf2[n]
  BY <1>1, DoublingSteps, 1 \in Nat
<1>3. 0 \in T
  BY <1>2
<1>4. \A n \in Nat : n \in T => n + 1 \in T
  <2> SUFFICES ASSUME NEW n \in Nat, PowersOf2[n] >= n PROVE PowersOf2[n + 1] >= n + 1
    OBVIOUS
  <2>1. CASE n = 0
    BY <2>1, <1>2
  <2>2. CASE n # 0
    BY <2>2, <1>2
  <2> QED BY <2>1, <2>2
<1>5. Nat \subseteq T
  <2> HIDE DEF T
  <2> QED BY <1>3, <1>4, SetInduction
<1> QED BY <1>2, <1>5

\* The least power of two that is no less than v.
LEMMA CeilIsEnough ==
  ASSUME NEW v \in Nat
  PROVE  CeilToPow2(v) \in Nat /\ CeilToPow2(v) >= v
<1> DEFINE enough == {n \in 0..v : PowersOf2[n] >= v}
<1>1. v \in enough
  BY PowersGrow
<1>2. Min(enough) \in enough
  <2>1. enough \subseteq Nat /\ enough # {}
    BY <1>1
  <2> HIDE DEF enough
  <2> QED BY <2>1, LeastIsMin
<1>3. CeilToPow2(v) = PowersOf2[Min(enough)]
  BY DEF CeilToPow2
<1> QED BY <1>2, <1>3, PowersGrow

-----------------------------------------------------------------------------
\* A sequence is given by its items.
LEMMA SequenceIs ==
  ASSUME NEW S, NEW n \in Nat, NEW s
  PROVE  s \in [1..n -> S] <=> (s \in Seq(S) /\ Len(s) = n)
<1>1. s \in [1..n -> S] => s \in Seq(S) /\ Len(s) = n
  BY SMT
<1>2. s \in Seq(S) /\ Len(s) = n => s \in [1..n -> S]
  BY LenProperties
<1> QED
  BY <1>1, <1>2

\* A sequence of n items, of whatever kind.
HasItems(s, n) == \E S : s \in [1..n -> S]

\* The items of a sequence with one more at place i, or with the one there taken out.
LEMMA InsertAtIs ==
  ASSUME NEW n \in Nat, NEW s, HasItems(s, n), NEW i \in 1..n + 1, NEW x
  PROVE  InsertAt(s, i, x) = [k \in 1..n + 1 |-> IF k < i THEN s[k] ELSE IF k = i THEN x ELSE s[k - 1]]
<1> DEFINE a == SubSeq(s, 1, i - 1)
           b == <<x>>
           e == SubSeq(s, i, n)
<1>0. PICK S : s \in [1..n -> S] /\ x \in S
  <2>1. PICK S : s \in [1..n -> S]
    BY DEF HasItems
  <2>2. s \in [1..n -> S \union {x}]
    BY <2>1
  <2> QED BY <2>2
<1>1. s \in [1..n -> S] /\ s \in Seq(S) /\ Len(s) = n /\ x \in S
  <2>1. s \in [1..n -> S] /\ x \in S
    BY <1>0
  <2> QED BY <2>1, SequenceIs
<1>2. /\ a \in Seq(S) /\ Len(a) = i - 1
      /\ \A k \in 1..i - 1 : a[k] = s[k]
  <2>1. \A j \in 1..i - 1 : s[j] \in S
    BY <1>1
  <2> QED BY <1>1, <2>1, SubSeqProperties
<1>3. /\ e \in Seq(S) /\ Len(e) = n - i + 1
      /\ \A k \in 1..n - i + 1 : e[k] = s[i + k - 1]
  <2>1. \A j \in i..n : s[j] \in S
    BY <1>1
  <2> QED BY <1>1, <2>1, SubSeqProperties
<1>4. b \in Seq(S) /\ Len(b) = 1 /\ b[1] = x
  BY <1>1
<1>5. InsertAt(s, i, x) = (a \o b) \o e
  BY <1>1 DEF InsertAt
<1> HIDE DEF a, b, e
<1>6. /\ a \o b \in Seq(S) /\ Len(a \o b) = i
      /\ \A k \in 1..i : (a \o b)[k] = IF k <= i - 1 THEN a[k] ELSE b[k - (i - 1)]
  <2>1. /\ a \o b \in Seq(S) /\ Len(a \o b) = Len(a) + Len(b)
        /\ \A k \in 1..Len(a) + Len(b) : (a \o b)[k] = IF k <= Len(a) THEN a[k] ELSE b[k - Len(a)]
    BY <1>2, <1>4, ConcatProperties
  <2>2. Len(a) + Len(b) = i
    BY <1>2, <1>4
  <2> QED BY <2>1, <2>2, <1>2
<1> DEFINE ab == a \o b
<1> HIDE DEF ab
<1>7. /\ ab \o e \in Seq(S) /\ Len(ab \o e) = n + 1
      /\ \A k \in 1..n + 1 : (ab \o e)[k] = IF k <= i THEN ab[k] ELSE e[k - i]
  <2>1. ab \in Seq(S) /\ Len(ab) = i
    BY <1>6 DEF ab
  <2>2. /\ ab \o e \in Seq(S) /\ Len(ab \o e) = Len(ab) + Len(e)
        /\ \A k \in 1..Len(ab) + Len(e) : (ab \o e)[k] = IF k <= Len(ab) THEN ab[k] ELSE e[k - Len(ab)]
    BY <2>1, <1>3, ConcatProperties
  <2>3. Len(ab) + Len(e) = n + 1
    BY <2>1, <1>3
  <2> QED BY <2>1, <2>2, <2>3
<1>8. ASSUME NEW k \in 1..n + 1
      PROVE  (ab \o e)[k] = IF k < i THEN s[k] ELSE IF k = i THEN x ELSE s[k - 1]
  <2>1. CASE k < i
    BY <2>1, <1>2, <1>6, <1>7 DEF ab
  <2>2. CASE k = i
    <3>1. (ab \o e)[i] = ab[i]
      BY <2>2, <1>7
    <3>2. ab[i] = b[i - (i - 1)]
      <4>1. i \in 1..i /\ ~(i <= i - 1)
        BY <2>2
      <4> QED BY <4>1, <1>6 DEF ab
    <3>3. i - (i - 1) = 1
      BY <2>2
    <3> QED BY <2>2, <1>4, <3>1, <3>2, <3>3
  <2>3. CASE k > i
    <3>1. k - i \in 1..n - i + 1 /\ i + (k - i) - 1 = k - 1
      BY <2>3
    <3> QED BY <2>3, <3>1, <1>3, <1>7
  <2>4. k < i \/ k = i \/ k > i
    OBVIOUS
  <2> QED BY <2>1, <2>2, <2>3, <2>4
<1>9. ab \o e = [k \in 1..n + 1 |-> (ab \o e)[k]]
  BY <1>7, LenProperties
<1> QED BY <1>5, <1>8, <1>9 DEF ab

\* A sequence without its i-th item.
LEMMA RemoveAtIs ==
  ASSUME NEW n \in Nat, NEW s, HasItems(s, n), NEW i \in 1..n
  PROVE  RemoveAt(s, i) = [k \in 1..n - 1 |-> IF k < i THEN s[k] ELSE s[k + 1]]
<1> DEFINE a == SubSeq(s, 1, i - 1)
           e == SubSeq(s, i + 1, n)
<1>0. PICK S : s \in [1..n -> S]
  BY DEF HasItems
<1>1. s \in [1..n -> S] /\ s \in Seq(S) /\ Len(s) = n
  <2>1. s \in [1..n -> S]
    BY <1>0
  <2> QED BY <2>1, SequenceIs
<1>2. /\ a \in Seq(S) /\ Len(a) = i - 1
      /\ \A k \in 1..i - 1 : a[k] = s[k]
  <2>1. \A j \in 1..i - 1 : s[j] \in S
    BY <1>1
  <2> QED BY <1>1, <2>1, SubSeqProperties
<1>3. /\ e \in Seq(S) /\ Len(e) = n - i
      /\ \A k \in 1..n - i : e[k] = s[i + k]
  <2>1. \A j \in i + 1..n : s[j] \in S
    BY <1>1
  <2>2. /\ e \in Seq(S) /\ Len(e) = (IF i + 1 <= n THEN n - (i + 1) + 1 ELSE 0)
        /\ \A k \in 1..n - (i + 1) + 1 : e[k] = s[(i + 1) + k - 1]
    BY <1>1, <2>1, SubSeqProperties
  <2>3. n - (i + 1) + 1 = n - i /\ (~(i + 1 <= n) => n - i = 0)
    OBVIOUS
  <2>4. \A k \in 1..n - i : (i + 1) + k - 1 = i + k
    OBVIOUS
  <2> HIDE DEF e
  <2> QED BY <2>2, <2>3, <2>4
<1>5. RemoveAt(s, i) = a \o e
  BY <1>1 DEF RemoveAt
<1> HIDE DEF a, e
<1>7. /\ a \o e \in Seq(S) /\ Len(a \o e) = n - 1
      /\ \A k \in 1..n - 1 : (a \o e)[k] = IF k <= i - 1 THEN a[k] ELSE e[k - (i - 1)]
  <2>2. /\ a \o e \in Seq(S) /\ Len(a \o e) = Len(a) + Len(e)
        /\ \A k \in 1..Len(a) + Len(e) : (a \o e)[k] = IF k <= Len(a) THEN a[k] ELSE e[k - Len(a)]
    BY <1>2, <1>3, ConcatProperties
  <2>3. Len(a) + Len(e) = n - 1
    BY <1>2, <1>3
  <2> QED BY <1>2, <2>2, <2>3
<1>8. ASSUME NEW k \in 1..n - 1
      PROVE  (a \o e)[k] = IF k < i THEN s[k] ELSE s[k + 1]
  <2>1. CASE k < i
    BY <2>1, <1>2, <1>7
  <2>3. CASE ~(k < i)
    <3>1. k - (i - 1) \in 1..n - i /\ i + (k - (i - 1)) = k + 1 /\ ~(k <= i - 1)
      BY <2>3
    <3> QED BY <2>3, <3>1, <1>3, <1>7
  <2> QED BY <2>1, <2>3
<1>9. a \o e = [k \in 1..n - 1 |-> (a \o e)[k]]
  BY <1>7, LenProperties
<1> QED BY <1>5, <1>8, <1>9

\* The items of a sequence without its last.
LEMMA FrontIs ==
  ASSUME NEW S, NEW s \in Seq(S), Len(s) > 0
  PROVE  /\ Front(s) \in Seq(S) /\ Len(Front(s)) = Len(s) - 1
         /\ \A i \in 1..Len(s) - 1 : Front(s)[i] = s[i]
         /\ s[Len(s)] \in S /\ s = Append(Front(s), s[Len(s)])
<1> DEFINE n == Len(s)
           f == Front(s)
<1>1. n \in Nat /\ n > 0 /\ \A i \in 1..n : s[i] \in S
  OBVIOUS
<1>0. n \in Nat /\ n > 0
  BY <1>1
<1>2. f \in Seq(S) /\ Len(f) = n - 1 /\ \A i \in 1..n - 1 : f[i] = s[i]
  <2>1. \A i \in 1..n - 1 : s[i] \in S
    BY <1>1
  <2>2. 1 \in Int /\ n - 1 \in Int
    BY <1>1
  <2>3. f = SubSeq(s, 1, n - 1)
    BY DEF Front
  <2>4. /\ SubSeq(s, 1, n - 1) \in Seq(S)
        /\ Len(SubSeq(s, 1, n - 1)) = IF 1 <= n - 1 THEN n - 1 - 1 + 1 ELSE 0
        /\ \A i \in 1..n - 1 - 1 + 1 : SubSeq(s, 1, n - 1)[i] = s[1 + i - 1]
    <3> HIDE DEF n, f
    <3> QED BY <2>1, <2>2, SubSeqProperties
  <2>5. f \in Seq(S) /\ Len(f) = n - 1
    <3> HIDE DEF n, f
    <3> QED BY <1>1, <2>3, <2>4
  <2>6. ASSUME NEW i \in 1..n - 1 PROVE f[i] = s[i]
    <3> HIDE DEF n, f
    <3>1. i \in 1..n - 1 - 1 + 1 /\ 1 + i - 1 = i
      BY <1>1
    <3> QED BY <2>3, <2>4, <3>1
  <2> QED BY <2>5, <2>6
<1>3. s[n] \in S
  BY <1>1
<1>4. s = Append(f, s[n])
  <2> DEFINE t == Append(f, s[n])
  <2> HIDE DEF f, n
  <2>1. t \in Seq(S) /\ Len(t) = n /\ (\A i \in 1..n - 1 : t[i] = f[i]) /\ t[n] = s[n]
    BY <1>1, <1>2, <1>3
  <2>2. ASSUME NEW i \in 1..n PROVE s[i] = t[i]
    <3>1. CASE i = n
      BY <2>1, <3>1
    <3>2. CASE i \in 1..n - 1
      BY <1>2, <2>1, <3>2
    <3>3. i = n \/ i \in 1..n - 1
      BY <1>0
    <3> QED BY <3>1, <3>2, <3>3
  <2> HIDE DEF t
  <2>3. s = t
    BY <2>1, <2>2, SeqEqual DEF n
  <2> QED BY <2>3 DEF t
<1> QED BY <1>2, <1>3, <1>4

\* A number has one place among groups of b.
LEMMA PlaceIs ==
  ASSUME NEW b \in Nat \ {0}, NEW n \in Nat
  PROVE  n \div b \in Nat /\ n % b \in 0..b - 1 /\ n = b * (n \div b) + (n % b)
OBVIOUS

\* The groups below m * b are the first m.
LEMMA PlaceIn ==
  ASSUME NEW b \in Nat \ {0}, NEW m \in Nat, NEW n \in 0..b * m - 1
  PROVE  n \div b \in 0..m - 1
<1> DEFINE q == n \div b
           r == n % b
<1>1. n \in Nat /\ b * m \in Nat
  OBVIOUS
<1>2. q \in Nat /\ r \in 0..b - 1 /\ n = b * q + r
  BY <1>1, PlaceIs
<1> HIDE DEF q, r
<1>3. ASSUME q >= m PROVE FALSE
  <2>1. PICK d \in Nat : q = m + d
    <3>1. q - m \in Nat /\ q = m + (q - m)
      BY <1>2, <1>3
    <3> QED BY <3>1
  <2>2. b * q = b * m + b * d /\ b * d \in Nat
    BY <2>1
  <2> QED BY <1>1, <1>2, <2>2
<1> QED BY <1>2, <1>3 DEF q

\* A number put together from a group and a place has these.
LEMMA PlaceOf ==
  ASSUME NEW b \in Nat \ {0}, NEW i \in Nat, NEW o \in 0..b - 1
  PROVE  b * i + o \in Nat /\ (b * i + o) \div b = i /\ (b * i + o) % b = o
<1> DEFINE n == b * i + o
           q == n \div b
           r == n % b
<1>1. n \in Nat /\ n = b * i + o
  OBVIOUS
<1> HIDE DEF n
<1>2. q \in Nat /\ r \in 0..b - 1 /\ n = b * q + r
  BY <1>1, PlaceIs
<1> HIDE DEF q, r
<1>3. q = i
  <2>1. ASSUME q > i PROVE FALSE
    <3>1. PICK d \in Nat : q = i + 1 + d
      <4>1. q - i - 1 \in Nat /\ q = i + 1 + (q - i - 1)
        BY <1>2, <2>1
      <4> QED BY <4>1
    <3>2. b * q = b * i + b + b * d /\ b * d \in Nat
      BY <3>1
    <3> QED BY <1>1, <1>2, <3>2
  <2>2. ASSUME q < i PROVE FALSE
    <3>1. PICK d \in Nat : i = q + 1 + d
      <4>1. i - q - 1 \in Nat /\ i = q + 1 + (i - q - 1)
        BY <1>2, <2>2
      <4> QED BY <4>1
    <3>2. b * i = b * q + b + b * d /\ b * d \in Nat
      BY <1>2, <3>1
    <3> QED BY <1>1, <1>2, <3>2
  <2> QED BY <1>2, <2>1, <2>2
<1>4. r = o
  BY <1>1, <1>2, <1>3
<1> QED BY <1>1, <1>3, <1>4 DEF n, q, r

\* It lies below the groups after its own.
LEMMA Below ==
  ASSUME NEW b \in Nat \ {0}, NEW m \in Nat, NEW i \in 0..m - 1, NEW o \in 0..b - 1
  PROVE  b * i + o \in 0..b * m - 1
<1>1. PICK d \in Nat : m = i + 1 + d
  <2>1. m - i - 1 \in Nat /\ m = i + 1 + (m - i - 1)
    OBVIOUS
  <2> QED BY <2>1
<1>2. b * m = b * i + b + b * d /\ b * d \in Nat /\ b * i \in Nat
  BY <1>1
<1> QED BY <1>2

\* The greater of two numbers.
LEMMA MaxPairIs ==
  ASSUME NEW j \in Nat, NEW k \in Nat
  PROVE  Max({j, k}) = IF j >= k THEN j ELSE k
<1>1. {j, k} \subseteq 0..j + k /\ {j, k} # {} /\ j + k \in Nat
  OBVIOUS
<1> DEFINE T == {j, k}
<1>2. Max(T) \in T /\ \A y \in T : y <= Max(T)
  <2> HIDE DEF T
  <2> QED BY <1>1, GreatestIsMax DEF T
<1> QED BY <1>2

\* The lesser of two numbers.
LEMMA MinPairIs ==
  ASSUME NEW j \in Nat, NEW k \in Nat
  PROVE  Min({j, k}) = IF j <= k THEN j ELSE k
<1>1. {j, k} \subseteq Nat /\ {j, k} # {}
  OBVIOUS
<1> DEFINE T == {j, k}
<1>2. Min(T) \in T /\ \A y \in T : Min(T) <= y
  <2> HIDE DEF T
  <2> QED BY <1>1, LeastIsMin DEF T
<1> QED BY <1>2
=============================================================================
