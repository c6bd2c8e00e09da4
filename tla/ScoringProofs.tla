----------------------------- MODULE ScoringProofs -----------------------------
(***************************************************************************)
(* What the score, the risk and the points promise for every record that a *)
(* student may ever have, not only for those within a few rows of a demo   *)
(* student.                                                                *)
(*                                                                         *)
(* The proofs need induction over the topics of a record.  The induction   *)
(* theorems of the library take a predicate, so that a set takes its place *)
(* here: of a set of counterexamples NatLeast gives the least.             *)
(***************************************************************************)
EXTENDS Scoring, FiniteSetTheorems, SequenceTheorems, WellFoundedInduction, TLAPS

-----------------------------------------------------------------------------
(* Induction. *)

LEMMA NatLeast ==
  ASSUME NEW T \in SUBSET Nat, T # {}
  PROVE  \E x \in T : \A y \in T : x <= y
<1> DEFINE R == {p \in Nat \X Nat : p[1] < p[2]}
<1>1. IsWellFoundedOn(R, Nat)
  <2>1. OpToRel(<, Nat) = R
    BY DEF OpToRel
  <2> QED  BY <2>1, NatLessThanWellFounded
<1>2. \A x, y \in Nat : <<y, x>> \in R <=> y < x
  OBVIOUS
<1> HIDE DEF R
<1>3. PICK x \in T : \A y \in T : ~ (<<y, x>> \in R)
  BY <1>1, WFMin
<1>4. \A y \in T : ~ (y < x)
  BY <1>2, <1>3, Zenon
<1>5. \A y \in T : x <= y
  BY <1>4
<1> QED  BY <1>5

(* Induction over the numbers up to n, for a set of them. *)
LEMMA UpTo ==
  ASSUME NEW n \in Nat, NEW S, 0 \in S, \A k \in 1..n : k - 1 \in S => k \in S
  PROVE  \A k \in 0..n : k \in S
<1> DEFINE T == {k \in 0..n : k \notin S}
<1>1. SUFFICES T = {}
  OBVIOUS
<1>2. SUFFICES ASSUME T # {} PROVE FALSE
  OBVIOUS
<1>3. PICK x \in T : \A y \in T : x <= y
  <2>1. T \in SUBSET Nat
    OBVIOUS
  <2> HIDE DEF T
  <2> QED  BY <1>2, <2>1, NatLeast
<1>4. x \in 1..n /\ x - 1 \in 0..n /\ x - 1 \notin T
  BY <1>3
<1> QED  BY <1>3, <1>4

-----------------------------------------------------------------------------
(* Sums. *)

(* The sums of the first entries. *)
Sums(f, s) == f = [n \in 0..Len(s) |-> IF n = 0 THEN 0 ELSE f[n - 1] + s[n]]

Ints(s) == Len(s) \in Nat /\ \A i \in 1..Len(s) : s[i] \in Int

LEMMA SumsExist ==
  ASSUME NEW s, Ints(s)
  PROVE  \E f : Sums(f, s)
<1> DEFINE N == Len(s)
           Good(f, k) == /\ f \in [0..k -> Int] /\ f[0] = 0
                         /\ \A i \in 1..k : f[i] = f[i - 1] + s[i]
           S == {k \in Nat : \E f : Good(f, k)}
<1>0. N \in Nat /\ \A i \in 1..N : s[i] \in Int
  BY DEF Ints
<1> HIDE DEF N
<1>1. 0 \in S
  <2>1. Good([i \in 0..0 |-> 0], 0)
    OBVIOUS
  <2> QED  BY <2>1
<1>2. ASSUME NEW k \in 1..N, k - 1 \in S PROVE k \in S
  <2>1. PICK f : Good(f, k - 1)
    BY <1>2
  <2>2. PICK g : g = [i \in 0..k |-> IF i = k THEN f[k - 1] + s[k] ELSE f[i]]
    OBVIOUS
  <2>3. k \in Nat /\ k - 1 \in Nat /\ s[k] \in Int /\ f[k - 1] \in Int
    BY <1>0, <2>1
  <2>4. g \in [0..k -> Int] /\ g[0] = 0
    BY <2>1, <2>2, <2>3
  <2>5. \A i \in 1..k : g[i] = g[i - 1] + s[i]
    BY <2>1, <2>2, <2>3
  <2> QED  BY <2>3, <2>4, <2>5
<1>3. N \in S
  <2> HIDE DEF S
  <2> QED  BY <1>0, <1>1, <1>2, UpTo
<1>4. PICK f : Good(f, N)
  BY <1>3
<1>5. f = [n \in 0..N |-> IF n = 0 THEN 0 ELSE f[n - 1] + s[n]]
  BY <1>0, <1>4
<1> QED  BY <1>5 DEF Sums, N

(* The sum is the last of the sums of the first entries. *)
LEMMA SumIs ==
  ASSUME NEW s, Ints(s)
  PROVE  \E f \in [0..Len(s) -> Int] :
             f[0] = 0 /\ (\A n \in 1..Len(s) : f[n] = f[n - 1] + s[n]) /\ Sum(s) = f[Len(s)]
<1>1. PICK f : f = CHOOSE g : Sums(g, s)
  OBVIOUS
<1>2. Sum(s) = f[Len(s)]
  BY <1>1 DEF Sum, Sums
<1>3. Sums(f, s)
  BY <1>1, SumsExist
<1>4. PICK N : N = Len(s)
  OBVIOUS
<1>5. N \in Nat /\ (\A i \in 1..N : s[i] \in Int)
      /\ f = [n \in 0..N |-> IF n = 0 THEN 0 ELSE f[n - 1] + s[n]]
  BY <1>3, <1>4 DEF Sums, Ints
<1>6. f[0] = 0 /\ \A n \in 1..N : f[n] = f[n - 1] + s[n]
  BY <1>5
<1>7. \A n \in 0..N : f[n] \in Int
  <2> DEFINE S == {n \in 0..N : f[n] \in Int}
  <2>1. 0 \in S /\ \A k \in 1..N : k - 1 \in S => k \in S
    BY <1>5, <1>6
  <2> HIDE DEF S
  <2>2. \A n \in 0..N : n \in S
    BY <1>5, <2>1, UpTo
  <2> QED  BY <2>2 DEF S
<1>8. f \in [0..N -> Int]
  BY <1>5, <1>7
<1> QED  BY <1>2, <1>4, <1>6, <1>8

LEMMA SumInt ==
  ASSUME NEW s, Ints(s)
  PROVE  Sum(s) \in Int
BY SumIs DEF Ints

(* A sum of up to six entries. *)
LEMMA SumFew ==
  ASSUME NEW s, Ints(s)
  PROVE  /\ Len(s) = 1 => Sum(s) = s[1]
         /\ Len(s) = 2 => Sum(s) = s[1] + s[2]
         /\ Len(s) = 3 => Sum(s) = s[1] + s[2] + s[3]
         /\ Len(s) = 4 => Sum(s) = s[1] + s[2] + s[3] + s[4]
         /\ Len(s) = 6 => Sum(s) = s[1] + s[2] + s[3] + s[4] + s[5] + s[6]
<1>1. PICK f : /\ f[0] = 0 /\ \A n \in 1..Len(s) : f[n] = f[n - 1] + s[n]
               /\ Sum(s) = f[Len(s)]
  BY SumIs
<1>2. PICK N : N = Len(s)
  OBVIOUS
<1>3. (\A i \in 1..N : s[i] \in Int) /\ N \in Nat
  BY <1>2 DEF Ints
<1>4. N >= 1 => f[1] = s[1]
  BY <1>1, <1>2, <1>3
<1>5. N >= 2 => f[2] = s[1] + s[2]
  BY <1>1, <1>2, <1>3, <1>4
<1>6. N >= 3 => f[3] = s[1] + s[2] + s[3]
  BY <1>1, <1>2, <1>3, <1>5
<1>7. N >= 4 => f[4] = s[1] + s[2] + s[3] + s[4]
  BY <1>1, <1>2, <1>3, <1>6
<1>8. N >= 5 => f[5] = s[1] + s[2] + s[3] + s[4] + s[5]
  BY <1>1, <1>2, <1>3, <1>7
<1>9. N >= 6 => f[6] = s[1] + s[2] + s[3] + s[4] + s[5] + s[6]
  BY <1>1, <1>2, <1>3, <1>8
<1>10. Sum(s) = f[N]
  BY <1>1, <1>2
<1>11. N = 1 => Sum(s) = s[1]
  BY <1>4, <1>10
<1>12. N = 2 => Sum(s) = s[1] + s[2]
  BY <1>5, <1>10
<1>13. N = 3 => Sum(s) = s[1] + s[2] + s[3]
  BY <1>6, <1>10
<1>14. N = 4 => Sum(s) = s[1] + s[2] + s[3] + s[4]
  BY <1>7, <1>10
<1>15. N = 6 => Sum(s) = s[1] + s[2] + s[3] + s[4] + s[5] + s[6]
  BY <1>9, <1>10
<1> QED  BY <1>2, <1>11, <1>12, <1>13, <1>14, <1>15

LEMMA SumMonotone ==
  ASSUME NEW s, NEW t, Ints(s), Ints(t), Len(s) = Len(t),
         \A i \in 1..Len(s) : s[i] <= t[i]
  PROVE  Sum(s) <= Sum(t)
<1>1. PICK N : N = Len(s)
  OBVIOUS
<1>2. PICK f \in [0..N -> Int] : /\ f[0] = 0 /\ \A n \in 1..N : f[n] = f[n - 1] + s[n]
                                 /\ Sum(s) = f[N]
  BY <1>1, SumIs
<1>3. PICK g \in [0..N -> Int] : /\ g[0] = 0 /\ \A n \in 1..N : g[n] = g[n - 1] + t[n]
                                 /\ Sum(t) = g[N]
  BY <1>1, SumIs
<1>4. N \in Nat /\ \A i \in 1..N : s[i] \in Int /\ t[i] \in Int /\ s[i] <= t[i]
  BY <1>1 DEF Ints
<1> DEFINE S == {n \in 0..N : f[n] <= g[n]}
<1>5. 0 \in S
  BY <1>2, <1>3, <1>4
<1>6. ASSUME NEW k \in 1..N, k - 1 \in S PROVE k \in S
  <2>1. /\ k \in 1..N /\ k - 1 \in 0..N /\ f[k - 1] <= g[k - 1]
        /\ f[k - 1] \in Int /\ g[k - 1] \in Int /\ s[k] \in Int /\ t[k] \in Int
    BY <1>6, <1>4
  <2>2. f[k] = f[k - 1] + s[k] /\ g[k] = g[k - 1] + t[k] /\ s[k] <= t[k]
    BY <1>2, <1>3, <1>4
  <2>3. f[k] <= g[k]
    BY <2>1, <2>2
  <2> QED  BY <2>3, <1>4
<1>7. N \in S
  <2> HIDE DEF S
  <2>1. \A n \in 0..N : n \in S
    BY <1>4, <1>5, <1>6, UpTo
  <2> QED  BY <2>1, <1>4
<1> QED  BY <1>2, <1>3, <1>7

(* A sum whose entries outside of A are 0. *)
LEMMA SumBetween ==
  ASSUME NEW s, Ints(s), NEW A \in SUBSET (1..Len(s)), NEW lo \in Nat, NEW hi \in Nat,
         \A i \in A : lo <= s[i] /\ s[i] <= hi,
         \A i \in 1..Len(s) : i \notin A => s[i] = 0
  PROVE  /\ Cardinality(A) \in Nat
         /\ lo * Cardinality(A) <= Sum(s) /\ Sum(s) <= hi * Cardinality(A)
<1>1. PICK N : N = Len(s)
  OBVIOUS
<1>2. PICK f \in [0..N -> Int] : /\ f[0] = 0 /\ \A n \in 1..N : f[n] = f[n - 1] + s[n]
                                 /\ Sum(s) = f[N]
  BY <1>1, SumIs
<1>3. N \in Nat /\ \A i \in 1..N : s[i] \in Int
  BY <1>1 DEF Ints
<1> DEFINE C(n) == Cardinality(A \cap 1..n)
           S == {n \in 0..N : C(n) \in Nat /\ lo * C(n) <= f[n] /\ f[n] <= hi * C(n)}
<1>4. 0 \in S
  <2>1. A \cap 1..0 = {}
    BY <1>1, <1>3
  <2>2. C(0) = 0
    BY <2>1, FS_EmptySet
  <2> QED  BY <2>2, <1>2, <1>3
<1>5. ASSUME NEW k \in 1..N, k - 1 \in S PROVE k \in S
  <2>1. C(k - 1) \in Nat /\ lo * C(k - 1) <= f[k - 1] /\ f[k - 1] <= hi * C(k - 1)
    BY <1>5
  <2>2. IsFiniteSet(A \cap 1..(k - 1))
    <3>1. IsFiniteSet(1..(k - 1))
      BY <1>3, FS_Interval
    <3> QED  BY <3>1, FS_Intersection
  <2>3. f[k] = f[k - 1] + s[k] /\ f[k - 1] \in Int /\ s[k] \in Int
    BY <1>2, <1>3
  <2>4. CASE k \in A
    <3>1. A \cap 1..k = (A \cap 1..(k - 1)) \cup {k} /\ k \notin A \cap 1..(k - 1)
      BY <2>4, <1>3
    <3>2. C(k) = C(k - 1) + 1
      BY <3>1, <2>2, FS_AddElement
    <3>3. PICK c \in Nat : c = C(k - 1)
      BY <2>1
    <3>4. lo * (c + 1) = lo * c + lo /\ hi * (c + 1) = hi * c + hi
      OBVIOUS
    <3>5. lo <= s[k] /\ s[k] <= hi
      BY <2>4
    <3>6. PICK p \in Int, q \in Int : p = lo * c /\ q = hi * c
      OBVIOUS
    <3>7. p <= f[k - 1] /\ f[k - 1] <= q
      BY <3>3, <3>6, <2>1
    <3>8. p + lo <= f[k] /\ f[k] <= q + hi
      BY <3>5, <3>7, <2>3
    <3>9. C(k) = c + 1
      BY <3>2, <3>3
    <3> HIDE DEF C
    <3> QED  BY <3>9, <3>4, <3>6, <3>8
  <2>5. CASE k \notin A
    <3>1. A \cap 1..k = A \cap 1..(k - 1)
      BY <2>5, <1>3
    <3>2. f[k] = f[k - 1]
      BY <2>3, <2>5, <1>1
    <3>3. C(k) = C(k - 1)
      BY <3>1
    <3> QED  BY <3>2, <3>3, <2>1
  <2> QED  BY <2>4, <2>5
<1>6. N \in S
  <2> HIDE DEF S
  <2>1. \A n \in 0..N : n \in S
    BY <1>3, <1>4, <1>5, UpTo
  <2> QED  BY <2>1, <1>3
<1>7. A \cap 1..N = A
  BY <1>1
<1> QED  BY <1>2, <1>6, <1>7

-----------------------------------------------------------------------------
(* Division and rounding. *)

LEMMA Division ==
  ASSUME NEW a \in Int, NEW m \in Nat \ {0}
  PROVE  /\ a \div m \in Int
         /\ m * (a \div m) <= a /\ a < m * (a \div m) + m
OBVIOUS

LEMMA DivMonotone ==
  ASSUME NEW a \in Int, NEW b \in Int, NEW m \in Nat \ {0}, a <= b
  PROVE  a \div m <= b \div m
<1>1. PICK p \in Int, q \in Int : p = a \div m /\ q = b \div m
  OBVIOUS
<1>2. m * p <= a /\ b < m * q + m
  BY <1>1, Division
<1>3. SUFFICES ASSUME q < p PROVE FALSE
  BY <1>1
<1>4. m * q + m <= m * p
  <2>1. m * (q + 1) <= m * p
    BY <1>3
  <2> QED  BY <2>1
<1> QED  BY <1>2, <1>4

LEMMA DivExact ==
  ASSUME NEW x \in Int, NEW m \in Nat \ {0}
  PROVE  (x * m) \div m = x
<1>1. PICK q \in Int : q = (x * m) \div m
  OBVIOUS
<1>2. PICK y \in Int : y = x * m
  OBVIOUS
<1>3. m * q <= y /\ y < m * q + m
  BY <1>1, <1>2, Division
<1>4. CASE q < x
  <2>1. m * (q + 1) <= m * x
    BY <1>4
  <2> QED  BY <2>1, <1>2, <1>3
<1>5. CASE x < q
  <2>1. m * (x + 1) <= m * q
    BY <1>5
  <2> QED  BY <2>1, <1>2, <1>3
<1> QED  BY <1>1, <1>4, <1>5

LEMMA DivAtMost ==
  ASSUME NEW a \in Int, NEW m \in Nat \ {0}, NEW x \in Int, a <= x * m
  PROVE  a \div m <= x
<1>1. PICK y \in Int : y = x * m
  OBVIOUS
<1>2. a \div m <= y \div m
  BY <1>1, DivMonotone
<1> QED  BY <1>1, <1>2, DivExact

LEMMA DivAtLeast ==
  ASSUME NEW a \in Int, NEW m \in Nat \ {0}, NEW x \in Int, x * m <= a
  PROVE  x <= a \div m
<1>1. PICK y \in Int : y = x * m
  OBVIOUS
<1>2. y \div m <= a \div m
  BY <1>1, DivMonotone
<1> QED  BY <1>1, <1>2, DivExact

LEMMA DivNat ==
  ASSUME NEW a \in Nat, NEW m \in Nat \ {0}
  PROVE  a \div m \in Nat
<1>1. PICK q \in Int : q = a \div m
  OBVIOUS
<1>2. a < m * q + m
  BY <1>1, Division
<1>3. ASSUME q < 0 PROVE FALSE
  <2>1. m * (q + 1) <= m * 0
    BY <1>3
  <2> QED  BY <2>1, <1>2
<1> QED  BY <1>1, <1>3

LEMMA UnitNat == Unit \in Nat \ {0}
BY SMT DEF Unit

(* A rate, in millionths. *)
Rate(x) == x \in Int /\ 0 <= x /\ x <= Unit

LEMMA RateRange ==
  ASSUME NEW x, Rate(x)
  PROVE  x \in 0..Unit
BY UnitNat DEF Rate

LEMMA Numbers == Unit = 1000000 /\ Half = 500000
BY SMT DEF Unit, Half

LEMMA RatioRange ==
  ASSUME NEW n \in Nat, NEW m \in Nat \ {0}, n <= m
  PROVE  Rate(Ratio(n, m))
<1>1. PICK a \in Nat : a = n * Unit
  BY UnitNat
<1>2. a <= Unit * m
  BY <1>1, UnitNat
<1>3. a \div m \in Nat /\ a \div m <= Unit
  BY <1>2, DivNat, DivAtMost, UnitNat
<1> QED  BY <1>1, <1>3, UnitNat DEF Ratio, Rate

(* A rate grows with its numerator. *)
LEMMA RatioMonotone ==
  ASSUME NEW a \in Nat, NEW b \in Nat, NEW m \in Nat \ {0}, a <= b
  PROVE  Ratio(a, m) \in Nat /\ Ratio(b, m) \in Nat /\ Ratio(a, m) <= Ratio(b, m)
<1>1. PICK x \in Nat, y \in Nat : x = a * Unit /\ y = b * Unit
  BY UnitNat
<1>2. x <= y
  BY <1>1, UnitNat
<1>3. x \div m \in Nat /\ y \div m \in Nat
  BY DivNat
<1> QED  BY <1>1, <1>2, <1>3, DivMonotone DEF Ratio

LEMMA PerMilles ==
  ASSUME NEW x \in PerMille
  PROVE  x \in Int /\ 0 <= x /\ x <= 1000
BY DEF PerMille

LEMMA Halved ==
  ASSUME NEW x \in Int
  PROVE  (x * 1000) \div 2 = 500 * x
<1>1. PICK y \in Int : y = 500 * x
  OBVIOUS
<1>2. x * 1000 = y * 2
  BY <1>1
<1> QED  BY <1>1, <1>2, DivExact

LEMMA Quartered ==
  ASSUME NEW x \in Int
  PROVE  (x * 1000) \div 4 = 250 * x
<1>1. PICK y \in Int : y = 250 * x
  OBVIOUS
<1>2. x * 1000 = y * 4
  BY <1>1
<1> QED  BY <1>1, <1>2, DivExact

-----------------------------------------------------------------------------
(* The recent mocks. *)

LEMMA RecentOf ==
  ASSUME NEW m \in Seq(PerMille), NEW n, n = AtMost(Len(m), 4)
  PROVE  /\ n \in 0..4 /\ n <= Len(m)
         /\ SubSeq(m, 1, n) \in Seq(PerMille) /\ Len(SubSeq(m, 1, n)) = n
         /\ \A i \in 1..n : SubSeq(m, 1, n)[i] = m[i]
<1>1. Len(m) \in Nat /\ \A i \in 1..Len(m) : m[i] \in PerMille
  BY LenProperties
<1>2. n \in 0..4 /\ n <= Len(m)
  <2>1. PICK k \in Nat : k = Len(m)
    BY <1>1
  <2>2. AtMost(k, 4) \in 0..4 /\ AtMost(k, 4) <= k
    BY DEF AtMost
  <2> QED  BY <2>1, <2>2
<1>3. \A i \in 1..n : m[i] \in PerMille
  BY <1>1, <1>2
<1>4. /\ SubSeq(m, 1, n) \in Seq(PerMille)
      /\ Len(SubSeq(m, 1, n)) = IF 1 <= n THEN n - 1 + 1 ELSE 0
      /\ \A i \in 1..(n - 1 + 1) : SubSeq(m, 1, n)[i] = m[1 + i - 1]
  <2>1. n \in Int /\ 1 \in Int
    BY <1>2
  <2> QED  BY <1>3, <2>1, SubSeqProperties
<1>5. Len(SubSeq(m, 1, n)) = n /\ \A i \in 1..n : SubSeq(m, 1, n)[i] = m[i]
  BY <1>2, <1>4
<1> QED  BY <1>2, <1>4, <1>5

(* The mean of the recent mocks, and the newest less the oldest of them. *)
MockFacts(d, m, k) ==
    /\ k \in Nat /\ \A i \in 1..k : m[i] \in PerMille
    /\ k = 0 => m = <<>> /\ MockAverage(d) = Half /\ Trend(d) = 0
    /\ k = 1 => MockAverage(d) = 1000 * m[1] /\ Trend(d) = 0
    /\ k = 2 => MockAverage(d) = 500 * (m[1] + m[2]) /\ Trend(d) = m[1] - m[2]
    /\ k = 3 => /\ MockAverage(d) = ((m[1] + m[2] + m[3]) * 1000) \div 3
                /\ Trend(d) = m[1] - m[3]
    /\ k >= 4 => /\ MockAverage(d) = 250 * (m[1] + m[2] + m[3] + m[4])
                 /\ Trend(d) = m[1] - m[4]

LEMMA MockCases ==
  ASSUME NEW d, d.mocks \in Seq(PerMille)
  PROVE  MockFacts(d, d.mocks, Len(d.mocks))
<1>a. PICK m \in Seq(PerMille) : m = d.mocks
  OBVIOUS
<1>b. PICK r, n : RecentMocks(d) = r /\ n = AtMost(Len(m), 4) /\ r = SubSeq(m, 1, n)
  BY <1>a DEF RecentMocks
<1>1. Len(m) \in Nat /\ \A i \in 1..Len(m) : m[i] \in PerMille
  BY LenProperties
<1>2. /\ n \in 0..4 /\ n <= Len(m) /\ r \in Seq(PerMille) /\ Len(r) = n
      /\ \A i \in 1..n : r[i] = m[i]
  BY <1>b, RecentOf
<1>3. Ints(r)
  <2>1. \A i \in 1..n : r[i] \in Int
    BY <1>1, <1>2, PerMilles
  <2> QED  BY <2>1, <1>2 DEF Ints
<1>4. PICK s : s = Sum(r)
  OBVIOUS
<1>5. n # 0 => r # <<>>
  BY <1>2, EmptySeq
<1>6. n # 0 => MockAverage(d) = (s * 1000) \div n
  BY <1>b, <1>2, <1>4, <1>5 DEF MockAverage
<1>7. n >= 2 => Trend(d) = m[1] - m[n]
  BY <1>b, <1>2 DEF Trend
<1>8. n < 2 => Trend(d) = 0
  BY <1>b, <1>2 DEF Trend
<1>9. n = 0 => m = <<>> /\ MockAverage(d) = Half
  <2>1. n = 0 => r = <<>>
    BY <1>2, EmptySeq
  <2>2. Len(m) = 0 => m = <<>>
    BY EmptySeq
  <2>3. n = 0 => Len(m) = 0
    <3>1. PICK k \in Nat : k = Len(m)
      BY <1>1
    <3>2. AtMost(k, 4) = 0 => k = 0
      BY DEF AtMost
    <3> QED  BY <3>1, <3>2, <1>b
  <2> QED  BY <2>1, <2>2, <2>3, <1>b DEF MockAverage
<1>10. ASSUME n = 1 PROVE MockAverage(d) = 1000 * m[1]
  <2>1. PICK a \in PerMille : a = m[1]
    BY <1>1, <1>2, <1>10
  <2>2. s = a
    BY <2>1, <1>2, <1>3, <1>4, <1>10, SumFew
  <2>3. (a * 1000) \div 1 = 1000 * a
    BY PerMilles
  <2> QED  BY <2>1, <2>2, <2>3, <1>6, <1>10
<1>11. ASSUME n = 2 PROVE MockAverage(d) = 500 * (m[1] + m[2])
  <2>1. PICK a \in PerMille, b \in PerMille : a = m[1] /\ b = m[2]
    BY <1>1, <1>2, <1>11
  <2>2. s = a + b
    BY <2>1, <1>2, <1>3, <1>4, <1>11, SumFew
  <2>3. ((a + b) * 1000) \div 2 = 500 * (a + b)
    <3>1. PICK x \in Int : x = a + b
      BY PerMilles
    <3>2. (x * 1000) \div 2 = 500 * x
      BY Halved
    <3> QED  BY <3>1, <3>2
  <2> QED  BY <2>1, <2>2, <2>3, <1>6, <1>11
<1>12. ASSUME n = 3 PROVE MockAverage(d) = ((m[1] + m[2] + m[3]) * 1000) \div 3
  <2>1. s = m[1] + m[2] + m[3]
    BY <1>2, <1>3, <1>4, <1>12, SumFew
  <2> QED  BY <2>1, <1>6, <1>12
<1>13. ASSUME n = 4 PROVE MockAverage(d) = 250 * (m[1] + m[2] + m[3] + m[4])
  <2>1. PICK a \in PerMille, b \in PerMille, c \in PerMille, e \in PerMille :
            a = m[1] /\ b = m[2] /\ c = m[3] /\ e = m[4]
    BY <1>1, <1>2, <1>13
  <2>2. s = a + b + c + e
    BY <2>1, <1>2, <1>3, <1>4, <1>13, SumFew
  <2>3. ((a + b + c + e) * 1000) \div 4 = 250 * (a + b + c + e)
    <3>1. PICK x \in Int : x = a + b + c + e
      BY PerMilles
    <3>2. (x * 1000) \div 4 = 250 * x
      BY Quartered
    <3> QED  BY <3>1, <3>2
  <2> QED  BY <2>1, <2>2, <2>3, <1>6, <1>13
<1>14. PICK k \in Nat : k = Len(m)
  BY <1>1
<1>15. (k <= 4 => n = k) /\ (k >= 4 => n = 4)
  <2>1. (k <= 4 => AtMost(k, 4) = k) /\ (k >= 4 => AtMost(k, 4) = 4)
    BY DEF AtMost
  <2> QED  BY <2>1, <1>14, <1>b
<1>16. k = 0 => m = <<>> /\ MockAverage(d) = Half /\ Trend(d) = 0
  BY <1>8, <1>9, <1>15
<1>17. k = 1 => MockAverage(d) = 1000 * m[1] /\ Trend(d) = 0
  BY <1>8, <1>10, <1>15
<1>18. k = 2 => MockAverage(d) = 500 * (m[1] + m[2]) /\ Trend(d) = m[1] - m[2]
  BY <1>7, <1>11, <1>15
<1>19. k = 3 => /\ MockAverage(d) = ((m[1] + m[2] + m[3]) * 1000) \div 3
                /\ Trend(d) = m[1] - m[3]
  BY <1>7, <1>12, <1>15
<1>20. k >= 4 => /\ MockAverage(d) = 250 * (m[1] + m[2] + m[3] + m[4])
                 /\ Trend(d) = m[1] - m[4]
  BY <1>7, <1>13, <1>15
<1>21. MockFacts(d, m, k)
  BY <1>1, <1>14, <1>16, <1>17, <1>18, <1>19, <1>20 DEF MockFacts
<1> QED  BY <1>21, <1>14, <1>a

LEMMA MockRange ==
  ASSUME NEW d, d.mocks \in Seq(PerMille)
  PROVE  Rate(MockAverage(d)) /\ Trend(d) \in Int /\ -1000 <= Trend(d) /\ Trend(d) <= 1000
<1> SUFFICES ASSUME NEW m, NEW k, MockFacts(d, m, k)
             PROVE  Rate(MockAverage(d)) /\ Trend(d) \in Int /\ -1000 <= Trend(d) /\ Trend(d) <= 1000
  BY MockCases
<1>1. k \in Nat /\ \A i \in 1..k : m[i] \in PerMille
  BY DEF MockFacts
<1>2. CASE k = 0
  <2>1. MockAverage(d) = Half /\ Trend(d) = 0
    BY <1>2 DEF MockFacts
  <2> QED  BY <2>1, Numbers, SMT DEF Rate
<1>3. CASE k = 1
  <2>1. PICK a \in PerMille : a = m[1]
    BY <1>1, <1>3
  <2>2. MockAverage(d) = 1000 * a /\ Trend(d) = 0
    BY <2>1, <1>3 DEF MockFacts
  <2> QED  BY <2>2, PerMilles, Numbers, SMT DEF Rate
<1>4. CASE k = 2
  <2>1. PICK a \in PerMille, b \in PerMille : a = m[1] /\ b = m[2]
    BY <1>1, <1>4
  <2>2. MockAverage(d) = 500 * (a + b) /\ Trend(d) = a - b
    BY <2>1, <1>4 DEF MockFacts
  <2> QED  BY <2>2, PerMilles, Numbers, SMT DEF Rate
<1>5. CASE k = 3
  <2>1. PICK a \in PerMille, b \in PerMille, c \in PerMille : a = m[1] /\ b = m[2] /\ c = m[3]
    BY <1>1, <1>5
  <2>2. MockAverage(d) = ((a + b + c) * 1000) \div 3 /\ Trend(d) = a - c
    BY <2>1, <1>5 DEF MockFacts
  <2> QED  BY <2>2, PerMilles, Numbers, SMT DEF Rate
<1>6. CASE k >= 4
  <2>1. PICK a \in PerMille, b \in PerMille, c \in PerMille, e \in PerMille :
            a = m[1] /\ b = m[2] /\ c = m[3] /\ e = m[4]
    BY <1>1, <1>6
  <2>2. MockAverage(d) = 250 * (a + b + c + e) /\ Trend(d) = a - e
    BY <2>1, <1>6 DEF MockFacts
  <2> QED  BY <2>2, PerMilles, Numbers, SMT DEF Rate
<1>7. k = 0 \/ k = 1 \/ k = 2 \/ k = 3 \/ k >= 4
  BY <1>1
<1> QED  BY <1>2, <1>3, <1>4, <1>5, <1>6, <1>7

-----------------------------------------------------------------------------
(* The other components. *)

(* What the queries can return. *)
Valid(d) ==
    /\ d \in Data
    /\ d.onTime <= d.submitted
    /\ \A i \in DOMAIN d.topics : d.topics[i].correct <= d.topics[i].total

LEMMA Fields ==
  ASSUME NEW d, Valid(d)
  PROVE  /\ d.mocks \in Seq(PerMille)
         /\ d.topics \in Seq([topic: TopicName, correct: Nat, total: Nat])
         /\ d.present \in Nat /\ d.absent \in Nat /\ d.late \in Nat
         /\ d.assigned \in Nat /\ d.submitted \in Nat /\ d.onTime \in Nat
         /\ d.recent \in Nat /\ d.prior \in Nat /\ d.silly \in Nat /\ d.other \in Nat
         /\ d.onTime <= d.submitted
BY DEF Valid, Data

(* A topic of a record. *)
Answered(t) == t.correct \in Nat /\ t.total \in Nat /\ t.correct <= t.total

LEMMA Topics ==
  ASSUME NEW d, Valid(d)
  PROVE  /\ Len(d.topics) \in Nat /\ DOMAIN d.topics = 1..Len(d.topics)
         /\ \A i \in 1..Len(d.topics) : Answered(d.topics[i])
<1>1. PICK t \in Seq([topic: TopicName, correct: Nat, total: Nat]) : t = d.topics
  BY Fields
<1>2. \A i \in DOMAIN t : t[i].correct <= t[i].total
  BY <1>1 DEF Valid
<1>3. /\ Len(t) \in Nat /\ DOMAIN t = 1..Len(t)
      /\ \A i \in 1..Len(t) : t[i] \in [topic: TopicName, correct: Nat, total: Nat]
  BY LenProperties
<1>4. \A i \in 1..Len(t) : Answered(t[i])
  BY <1>2, <1>3 DEF Answered
<1> QED  BY <1>1, <1>3, <1>4

LEMMA AccuracyRange ==
  ASSUME NEW t, Answered(t)
  PROVE  Rate(Accuracy(t)) /\ (t.total = 0 => Accuracy(t) = 0)
<1>1. CASE t.total > 0
  <2>1. PICK n \in Nat, m \in Nat \ {0} : n = t.correct /\ m = t.total /\ n <= m
    BY <1>1 DEF Answered
  <2> QED  BY <2>1, <1>1, RatioRange DEF Accuracy
<1>2. CASE ~ (t.total > 0)
  <2>1. Accuracy(t) = 0
    BY <1>2 DEF Accuracy
  <2> QED  BY <2>1, <1>2, UnitNat DEF Rate
<1> QED  BY <1>1, <1>2

(* The accuracies of the topics; those not attempted are 0. *)
Accuracies(d) == [i \in DOMAIN d.topics |-> Accuracy(d.topics[i])]

LEMMA AccuraciesAre ==
  ASSUME NEW d, Valid(d)
  PROVE  /\ Len(Accuracies(d)) = Len(d.topics) /\ Ints(Accuracies(d))
         /\ \A i \in 1..Len(d.topics) : /\ Accuracies(d)[i] = Accuracy(d.topics[i])
                                        /\ Rate(Accuracies(d)[i])
         /\ Attempted(d) \in SUBSET (1..Len(d.topics))
         /\ \A i \in 1..Len(d.topics) : i \notin Attempted(d) => Accuracies(d)[i] = 0
<1>1. PICK t, n : t = d.topics /\ n = Len(t)
  OBVIOUS
<1>2. n \in Nat /\ DOMAIN t = 1..n /\ \A i \in 1..n : Answered(t[i])
  BY <1>1, Topics
<1>3. PICK a : a = [i \in 1..n |-> Accuracy(t[i])]
  OBVIOUS
<1>4. Accuracies(d) = a
  BY <1>1, <1>2, <1>3 DEF Accuracies
<1>5. \A i \in 1..n : a[i] = Accuracy(t[i]) /\ Rate(a[i])
  BY <1>2, <1>3, AccuracyRange
<1>6. Len(a) = n
  BY <1>2, <1>3
<1>7. Ints(a)
  BY <1>2, <1>5, <1>6 DEF Ints, Rate
<1>8. Attempted(d) = {i \in 1..n : t[i].total > 0}
  BY <1>1, <1>2 DEF Attempted
<1>9. \A i \in 1..n : i \notin Attempted(d) => a[i] = 0
  <2>1. SUFFICES ASSUME NEW i \in 1..n, i \notin Attempted(d) PROVE a[i] = 0
    OBVIOUS
  <2>2. ~ (t[i].total > 0) /\ t[i].total \in Nat
    BY <2>1, <1>2, <1>8 DEF Answered
  <2> QED  BY <2>2, <1>2, <1>5, AccuracyRange
<1> QED  BY <1>1, <1>4, <1>5, <1>6, <1>7, <1>8, <1>9

(* The mean over the topics attempted, if there are any. *)
LEMMA MasteryIs ==
  ASSUME NEW d, Valid(d)
  PROVE  /\ Attempted(d) = {} => TopicMastery(d) = Half
         /\ Attempted(d) # {} =>
                /\ Cardinality(Attempted(d)) \in Nat \ {0}
                /\ Sum(Accuracies(d)) \in Int
                /\ TopicMastery(d) = Sum(Accuracies(d)) \div Cardinality(Attempted(d))
<1>1. Attempted(d) = {} => TopicMastery(d) = Half
  BY DEF TopicMastery
<1>2. ASSUME Attempted(d) # {}
      PROVE  Cardinality(Attempted(d)) \in Nat \ {0}
  <2>1. IsFiniteSet(1..Len(d.topics))
    <3>1. PICK n \in Nat : n = Len(d.topics)
      BY Topics
    <3>2. IsFiniteSet(1..n)
      BY FS_Interval
    <3> QED  BY <3>1, <3>2
  <2>2. IsFiniteSet(Attempted(d))
    BY <2>1, AccuraciesAre, FS_Subset
  <2> QED  BY <2>2, <1>2, FS_CardinalityType, FS_EmptySet
<1>3. Sum(Accuracies(d)) \in Int
  BY AccuraciesAre, SumInt
<1>4. Attempted(d) # {} =>
          TopicMastery(d) = Sum(Accuracies(d)) \div Cardinality(Attempted(d))
  BY DEF TopicMastery, Accuracies
<1> QED  BY <1>1, <1>2, <1>3, <1>4

LEMMA MasteryRange ==
  ASSUME NEW d, Valid(d)
  PROVE  Rate(TopicMastery(d))
<1>1. CASE Attempted(d) = {}
  BY <1>1, MasteryIs, Numbers, SMT DEF Rate
<1>2. CASE Attempted(d) # {}
  <2>1. PICK a, c, s : a = Accuracies(d) /\ c = Cardinality(Attempted(d)) /\ s = Sum(a)
    OBVIOUS
  <2>2. c \in Nat \ {0} /\ s \in Int /\ TopicMastery(d) = s \div c
    BY <1>2, <2>1, MasteryIs
  <2>3. 0 * c <= s /\ s <= Unit * c
    <3>1. \A i \in Attempted(d) : 0 <= a[i] /\ a[i] <= Unit
      BY <2>1, AccuraciesAre DEF Rate
    <3>2. Ints(a) /\ Attempted(d) \in SUBSET (1..Len(a))
          /\ \A i \in 1..Len(a) : i \notin Attempted(d) => a[i] = 0
      BY <2>1, AccuraciesAre
    <3>3. 0 \in Nat /\ Unit \in Nat
      BY UnitNat
    <3> QED  BY <2>1, <3>1, <3>2, <3>3, SumBetween
  <2>4. 0 <= s \div c /\ s \div c <= Unit /\ s \div c \in Int
    BY <2>2, <2>3, DivAtMost, DivAtLeast, UnitNat
  <2> QED  BY <2>2, <2>4 DEF Rate
<1> QED  BY <1>1, <1>2

(* A share of what is due, never more than all of it. *)
LEMMA AtMostMonotone ==
  ASSUME NEW x \in Int, NEW y \in Int, NEW most \in Int, x <= y
  PROVE  /\ AtMost(x, most) \in Int /\ AtMost(y, most) \in Int
         /\ AtMost(x, most) <= AtMost(y, most) /\ AtMost(x, most) <= most
         /\ (x >= 0 /\ most >= 0) => AtMost(x, most) \in Nat
BY DEF AtMost

LEMMA ClampMonotone ==
  ASSUME NEW x \in Int, NEW y \in Int, NEW most \in Nat, x <= y
  PROVE  /\ Clamp(x, most) \in Nat /\ Clamp(y, most) \in Nat
         /\ Clamp(x, most) <= Clamp(y, most) /\ Clamp(x, most) <= most
BY DEF Clamp, AtMost

(* Adding the same to a numerator and its denominator. *)
LEMMA Mediant ==
  ASSUME NEW a \in Nat, NEW m \in Nat \ {0}, a <= m, NEW k \in Nat
  PROVE  Ratio(a, m) <= Ratio(a + k, m + k)
<1>1. PICK U \in Nat : U = Unit
  BY UnitNat
<1>2. PICK p \in Nat, v \in Nat : p = a * U /\ v = (a + k) * U
  OBVIOUS
<1>3. PICK q \in Int : q = p \div m
  OBVIOUS
<1>4. m * q <= p
  BY <1>3, Division
<1>5. q <= U
  <2>1. p <= U * m
    BY <1>2
  <2> QED  BY <2>1, <1>3, DivAtMost
<1>6. q * k <= U * k
  BY <1>5
<1>7. v = p + U * k
  BY <1>2
<1>8. q * (m + k) = m * q + q * k
  OBVIOUS
<1>9. q * (m + k) <= v
  BY <1>4, <1>6, <1>7, <1>8
<1>10. q <= v \div (m + k)
  BY <1>9, DivAtLeast
<1> QED  BY <1>1, <1>2, <1>3, <1>10 DEF Ratio

LEMMA CompletionRange ==
  ASSUME NEW a \in Nat, NEW x \in Nat, NEW y \in Nat, x <= y,
         NEW d, d.assigned = a, d.submitted = x,
         NEW b, b.assigned = a, b.submitted = y
  PROVE  Rate(Completion(d)) /\ Completion(d) <= Completion(b)
<1>1. CASE a = 0
  <2>1. Completion(d) = Unit /\ Completion(b) = Unit
    BY <1>1 DEF Completion
  <2> QED  BY <2>1, UnitNat DEF Rate
<1>2. CASE a # 0
  <2>1. PICK u, v : u = AtMost(x, a) /\ v = AtMost(y, a)
    OBVIOUS
  <2>2. u \in Nat /\ v \in Nat /\ u <= v /\ u <= a
    <3>1. AtMost(y, a) \in Nat
      BY DEF AtMost
    <3> QED  BY <2>1, <3>1, AtMostMonotone
  <2>3. Completion(d) = Ratio(u, a) /\ Completion(b) = Ratio(v, a)
    BY <1>2, <2>1 DEF Completion
  <2> QED  BY <1>2, <2>2, <2>3, RatioRange, RatioMonotone
<1> QED  BY <1>1, <1>2

(* What is due: what was assigned, or handed in if that is more. *)
Due(a, x) == IF a > x THEN a ELSE x

LEMMA DueNext ==
  ASSUME NEW a \in Nat, NEW x \in Nat
  PROVE  /\ Due(a, x) \in Nat /\ x <= Due(a, x) /\ Due(a, x + 1) \in Nat \ {0}
         /\ \/ Due(a, x + 1) = Due(a, x)
            \/ Due(a, x + 1) = Due(a, x) + 1 /\ Due(a, x) = x
<1>1. CASE a > x
  BY <1>1 DEF Due
<1>2. CASE ~ (a > x)
  BY <1>2 DEF Due
<1> QED  BY <1>1, <1>2

Sheets(d, a, x, o) == d.assigned = a /\ d.submitted = x /\ d.onTime = o

LEMMA AssignmentIs ==
  ASSUME NEW d, NEW a \in Nat, NEW x \in Nat, NEW o \in Nat, o <= x, Sheets(d, a, x, o),
         NEW m \in Nat, m = Due(a, x), NEW g \in Nat, g = 6 * x + 4 * o,
         NEW e \in Nat, e = 10 * m
  PROVE  /\ m = 0 => AssignmentScore(d) = Unit
         /\ m # 0 => AssignmentScore(d) = Ratio(g, e)
         /\ Rate(AssignmentScore(d))
<1>1. x <= m
  BY DEF Due
<1>2. m = 0 => AssignmentScore(d) = Unit
  BY DEF AssignmentScore, Due, Sheets
<1>3. m # 0 => AssignmentScore(d) = Ratio(g, e)
  BY DEF AssignmentScore, Due, Sheets
<1>4. m = 0 => Rate(AssignmentScore(d))
  BY <1>2, UnitNat DEF Rate
<1>5. m # 0 => Rate(AssignmentScore(d))
  <2>1. g <= e
    BY <1>1
  <2>2. m # 0 => e # 0
    OBVIOUS
  <2> QED  BY <1>3, <2>1, <2>2, RatioRange
<1> QED  BY <1>2, <1>3, <1>4, <1>5

LEMMA AttendanceIs ==
  ASSUME NEW d, NEW p \in Nat, NEW a \in Nat, NEW l \in Nat,
         d.present = p, d.absent = a, d.late = l, NEW m \in Nat, m = p + a + l
  PROVE  /\ m = 0 => AttendanceRate(d) = Unit
         /\ m # 0 => AttendanceRate(d) = Ratio(p, m)
         /\ Rate(AttendanceRate(d))
<1>1. p <= m
  OBVIOUS
<1>2. m = 0 => AttendanceRate(d) = Unit
  BY DEF AttendanceRate
<1>3. m # 0 => AttendanceRate(d) = Ratio(p, m)
  BY DEF AttendanceRate
<1>4. m = 0 => Rate(AttendanceRate(d))
  BY <1>2, UnitNat DEF Rate
<1>5. m # 0 => Rate(AttendanceRate(d))
  BY <1>1, <1>3, RatioRange
<1> QED  BY <1>2, <1>3, <1>4, <1>5

LEMMA StudyIs ==
  ASSUME NEW d, NEW x \in Nat, NEW p \in Nat, d.recent = x, d.prior = p,
         NEW b, NEW y \in Nat, b.recent = y, b.prior = p, x <= y
  PROVE  /\ Rate(StudyBase(d)) /\ StudyBase(d) <= StudyBase(b)
         /\ Rate(StudyTrend(d)) /\ StudyTrend(d) <= StudyTrend(b)
<1>1. Rate(StudyBase(d)) /\ StudyBase(d) <= StudyBase(b)
  <2>1. PICK u \in Int, v \in Int : u = Ratio(x, 420) /\ v = Ratio(y, 420) /\ u <= v
    <3>1. 420 \in Nat \ {0}
      OBVIOUS
    <3> QED  BY <3>1, RatioMonotone
  <2>2. StudyBase(d) = Clamp(u, Unit) /\ StudyBase(b) = Clamp(v, Unit)
    BY <2>1 DEF StudyBase
  <2> QED  BY <2>1, <2>2, ClampMonotone, UnitNat DEF Rate
<1>2. Rate(StudyTrend(d)) /\ StudyTrend(d) <= StudyTrend(b)
  <2>1. CASE p = 0
    <3>1. StudyTrend(d) = Half /\ StudyTrend(b) = Half
      BY <2>1 DEF StudyTrend
    <3> QED  BY <3>1, Numbers, SMT DEF Rate
  <2>2. CASE p # 0
    <3>0. PICK m \in Nat \ {0} : m = 2 * p
      BY <2>2
    <3>1. PICK u \in Int, v \in Int : u = Ratio(x, m) /\ v = Ratio(y, m) /\ u <= v
      BY RatioMonotone
    <3>2. StudyTrend(d) = Clamp(u, Unit) /\ StudyTrend(b) = Clamp(v, Unit)
      BY <2>2, <3>0, <3>1 DEF StudyTrend
    <3> QED  BY <3>1, <3>2, ClampMonotone, UnitNat DEF Rate
  <2> QED  BY <2>1, <2>2
<1> QED  BY <1>1, <1>2

LEMMA ConsistencyOf ==
  ASSUME NEW d, NEW b, Rate(StudyBase(d)), Rate(StudyTrend(d)),
         Rate(StudyBase(b)), Rate(StudyTrend(b)),
         StudyBase(d) <= StudyBase(b), StudyTrend(d) <= StudyTrend(b)
  PROVE  Rate(StudyConsistency(d)) /\ StudyConsistency(d) <= StudyConsistency(b)
<1>1. PICK u, v, w, z : /\ u = StudyBase(d) /\ v = StudyTrend(d)
                        /\ w = StudyBase(b) /\ z = StudyTrend(b)
  OBVIOUS
<1>2. Rate(u) /\ Rate(v) /\ Rate(w) /\ Rate(z) /\ u <= w /\ v <= z
  BY <1>1
<1>3. StudyConsistency(d) = (7 * u + 3 * v) \div 10 /\ StudyConsistency(b) = (7 * w + 3 * z) \div 10
  BY <1>1 DEF StudyConsistency
<1>4. /\ (7 * u + 3 * v) \div 10 \in Int /\ 0 <= (7 * u + 3 * v) \div 10
      /\ (7 * u + 3 * v) \div 10 <= Unit /\ (7 * u + 3 * v) \div 10 <= (7 * w + 3 * z) \div 10
  BY <1>2, Numbers, SMT DEF Rate
<1> QED  BY <1>3, <1>4 DEF Rate

LEMMA SillyIs ==
  ASSUME NEW d, NEW x \in Nat, NEW o \in Nat, d.silly = x, d.other = o
  PROVE  /\ x + o = 0 => SillyRate(d) = 0
         /\ x + o # 0 => SillyRate(d) = Ratio(x, x + o)
         /\ Rate(SillyRate(d))
<1>1. PICK m \in Nat : m = x + o /\ x <= m
  OBVIOUS
<1>2. m = 0 => SillyRate(d) = 0
  BY <1>1 DEF SillyRate
<1>3. m # 0 => SillyRate(d) = Ratio(x, m)
  BY <1>1 DEF SillyRate
<1>4. m = 0 => Rate(SillyRate(d))
  BY <1>2, UnitNat DEF Rate
<1>5. m # 0 => Rate(SillyRate(d))
  BY <1>1, <1>3, RatioRange
<1> QED  BY <1>1, <1>2, <1>3, <1>4, <1>5

-----------------------------------------------------------------------------
(* The score of a record. *)

(* Every component of a record is a rate. *)
Rates(d) ==
    /\ Rate(MockAverage(d)) /\ Rate(TopicMastery(d)) /\ Rate(AssignmentScore(d))
    /\ Rate(AttendanceRate(d)) /\ Rate(StudyConsistency(d)) /\ Rate(SillyRate(d))
    /\ Rate(StudyBase(d)) /\ Rate(Completion(d))
    /\ Trend(d) \in Int /\ -1000 <= Trend(d) /\ Trend(d) <= 1000

LEMMA ValidRates ==
  ASSUME NEW d, Valid(d)
  PROVE  Rates(d)
<1>1. Rate(MockAverage(d)) /\ Trend(d) \in Int /\ -1000 <= Trend(d) /\ Trend(d) <= 1000
  BY Fields, MockRange
<1>2. Rate(TopicMastery(d))
  BY MasteryRange
<1>3. Rate(AssignmentScore(d))
  <2>1. PICK a \in Nat, x \in Nat, o \in Nat : Sheets(d, a, x, o) /\ o <= x
    BY Fields DEF Sheets
  <2>2. PICK m \in Nat : m = Due(a, x)
    BY DEF Due
  <2>3. PICK g \in Nat : g = 6 * x + 4 * o
    OBVIOUS
  <2>4. PICK e \in Nat : e = 10 * m
    OBVIOUS
  <2> QED  BY <2>1, <2>2, <2>3, <2>4, AssignmentIs
<1>4. Rate(AttendanceRate(d))
  <2>1. PICK p \in Nat, a \in Nat, l \in Nat : p = d.present /\ a = d.absent /\ l = d.late
    BY Fields
  <2>2. PICK m \in Nat : m = p + a + l
    OBVIOUS
  <2> QED  BY <2>1, <2>2, AttendanceIs
<1>5. Rate(StudyBase(d)) /\ Rate(StudyTrend(d))
  <2>1. d.recent \in Nat /\ d.prior \in Nat /\ d.recent <= d.recent
    BY Fields
  <2> QED  BY <2>1, StudyIs
<1>6. Rate(StudyConsistency(d))
  <2>1. StudyBase(d) <= StudyBase(d) /\ StudyTrend(d) <= StudyTrend(d)
    BY <1>5 DEF Rate
  <2> QED  BY <1>5, <2>1, ConsistencyOf
<1>7. Rate(SillyRate(d))
  BY Fields, SillyIs
<1>8. Rate(Completion(d))
  <2>1. d.assigned \in Nat /\ d.submitted \in Nat /\ d.submitted <= d.submitted
    BY Fields
  <2> QED  BY <2>1, CompletionRange
<1> QED  BY <1>1, <1>2, <1>3, <1>4, <1>5, <1>6, <1>7, <1>8 DEF Rates

(* The six components, weighed. *)
Score(d) ==
    35 * MockAverage(d) + 25 * TopicMastery(d) + 15 * AssignmentScore(d)
    + 10 * AttendanceRate(d) + 10 * StudyConsistency(d) + 5 * (Unit - SillyRate(d))

LEMMA ContributionsAre ==
  ASSUME NEW d
  PROVE  /\ Len(Contributions(d)) = 6 /\ DOMAIN Contributions(d) = 1..6
         /\ Contributions(d)[1] = 35 * MockAverage(d)
         /\ Contributions(d)[2] = 25 * TopicMastery(d)
         /\ Contributions(d)[3] = 15 * AssignmentScore(d)
         /\ Contributions(d)[4] = 10 * AttendanceRate(d)
         /\ Contributions(d)[5] = 10 * StudyConsistency(d)
         /\ Contributions(d)[6] = 5 * (Unit - SillyRate(d))
<1>1. PICK p : p = Parts(d)
  OBVIOUS
<1>2. /\ DOMAIN p = 1..6
      /\ p[1] = <<35, MockAverage(d)>> /\ p[2] = <<25, TopicMastery(d)>>
      /\ p[3] = <<15, AssignmentScore(d)>> /\ p[4] = <<10, AttendanceRate(d)>>
      /\ p[5] = <<10, StudyConsistency(d)>> /\ p[6] = <<5, Unit - SillyRate(d)>>
  BY <1>1 DEF Parts
<1>3. PICK c : c = [k \in 1..6 |-> p[k][1] * p[k][2]]
  OBVIOUS
<1>4. Contributions(d) = c
  BY <1>1, <1>2, <1>3 DEF Contributions
<1>5. Len(c) = 6 /\ DOMAIN c = 1..6
  BY <1>3
<1>6. /\ c[1] = p[1][1] * p[1][2] /\ c[2] = p[2][1] * p[2][2] /\ c[3] = p[3][1] * p[3][2]
      /\ c[4] = p[4][1] * p[4][2] /\ c[5] = p[5][1] * p[5][2] /\ c[6] = p[6][1] * p[6][2]
  BY <1>3
<1> QED  BY <1>2, <1>4, <1>5, <1>6

LEMMA ScoreIs ==
  ASSUME NEW d, Rates(d)
  PROVE  Score(d) \in Int /\ 0 <= Score(d) /\ Sum(Contributions(d)) = Score(d)
<1>1. PICK c : c = Contributions(d)
  OBVIOUS
<1>2. PICK m, t, a, r, s, z : /\ m = MockAverage(d) /\ t = TopicMastery(d)
                              /\ a = AssignmentScore(d) /\ r = AttendanceRate(d)
                              /\ s = StudyConsistency(d) /\ z = SillyRate(d)
  OBVIOUS
<1>3. Rate(m) /\ Rate(t) /\ Rate(a) /\ Rate(r) /\ Rate(s) /\ Rate(z)
  BY <1>2 DEF Rates
<1>4. /\ Len(c) = 6 /\ c[1] = 35 * m /\ c[2] = 25 * t /\ c[3] = 15 * a
      /\ c[4] = 10 * r /\ c[5] = 10 * s /\ c[6] = 5 * (Unit - z)
  BY <1>1, <1>2, ContributionsAre
<1>5. /\ 35 * m \in Int /\ 25 * t \in Int /\ 15 * a \in Int /\ 10 * r \in Int
      /\ 10 * s \in Int /\ 5 * (Unit - z) \in Int
  BY <1>3, UnitNat, SMT DEF Rate
<1>6. c[1] \in Int /\ c[2] \in Int /\ c[3] \in Int /\ c[4] \in Int /\ c[5] \in Int /\ c[6] \in Int
  BY <1>4, <1>5
<1>7. Ints(c)
  <2>1. \A i \in 1..6 : c[i] \in Int
    BY <1>6
  <2> QED  BY <2>1, <1>4 DEF Ints
<1>8. Sum(c) = c[1] + c[2] + c[3] + c[4] + c[5] + c[6]
  BY <1>4, <1>7, SumFew
<1>9. Score(d) = 35 * m + 25 * t + 15 * a + 10 * r + 10 * s + 5 * (Unit - z)
  BY <1>2 DEF Score
<1>10. 35 * m + 25 * t + 15 * a + 10 * r + 10 * s + 5 * (Unit - z) >= 0
  BY <1>3, UnitNat, SMT DEF Rate
<1>11. Sum(c) = Score(d)
  BY <1>4, <1>8, <1>9
<1>12. Score(d) \in Int
  BY <1>5, <1>9
<1> QED  BY <1>1, <1>9, <1>10, <1>11, <1>12

(* A score of the components becomes a readiness. *)
Ready(x) == Rounded(Clamp(x, 100 * Unit), Unit)

LEMMA ReadyMonotone ==
  ASSUME NEW x \in Int, NEW y \in Int, x <= y
  PROVE  /\ Ready(x) \in Int /\ 0 <= Ready(x) /\ Ready(x) <= 100
         /\ Ready(y) \in Int /\ Ready(x) <= Ready(y)
<1>1. PICK u, v : u = Clamp(x, 100 * Unit) /\ v = Clamp(y, 100 * Unit)
  OBVIOUS
<1>2. u \in Nat /\ v \in Nat /\ u <= v /\ u <= 100 * Unit
  <2>1. PICK most \in Nat : most = 100 * Unit
    BY UnitNat
  <2> QED  BY <1>1, <2>1, ClampMonotone
<1>3. Ready(x) = Rounded(u, Unit) /\ Ready(y) = Rounded(v, Unit)
  BY <1>1 DEF Ready
<1>4. /\ Rounded(u, Unit) \in Int /\ 0 <= Rounded(u, Unit) /\ Rounded(u, Unit) <= 100
      /\ Rounded(v, Unit) \in Int /\ Rounded(u, Unit) <= Rounded(v, Unit)
  BY <1>2, Numbers, SMT DEF Rounded
<1> QED  BY <1>3, <1>4

LEMMA ReadinessIs ==
  ASSUME NEW d, Rates(d)
  PROVE  /\ Nudge(d) = 8000 * Trend(d) /\ Score(d) + 8000 * Trend(d) \in Int
         /\ Readiness(d) = Ready(Score(d) + 8000 * Trend(d))
         /\ Readiness(d) \in Int /\ 0 <= Readiness(d) /\ Readiness(d) <= 100
<1>1. PICK x \in Int : x = Score(d) + 8000 * Trend(d)
  BY ScoreIs DEF Rates
<1>2. Nudge(d) = 8000 * Trend(d)
  BY DEF Nudge
<1>3. Readiness(d) = Ready(x)
  BY <1>1, <1>2, ScoreIs DEF Readiness, Ready
<1>4. Ready(x) \in Int /\ 0 <= Ready(x) /\ Ready(x) <= 100
  BY ReadyMonotone
<1> QED  BY <1>1, <1>2, <1>3, <1>4

-----------------------------------------------------------------------------
(* The records the queries can return: the demo students, and what a row     *)
(* more makes of a record.                                                   *)

LEMMA PerMilleIs ==
  ASSUME NEW x \in Int, 0 <= x, x <= 1000
  PROVE  x \in PerMille
BY DEF PerMille

Row == [topic: TopicName, correct: Nat, total: Nat]

Right(t) == t \in Row /\ t.correct <= t.total

LEMMA ArjunValid == Valid(Arjun)
<1>1. PICK m : m = <<580, 640, 720>>
  OBVIOUS
<1>2. m \in Seq(PerMille)
  <2>1. 580 \in PerMille /\ 640 \in PerMille /\ 720 \in PerMille
    BY PerMilleIs
  <2> QED  BY <1>1, <2>1
<1>3. PICK a, b, c :
            /\ a = Topic("Algebra", 22, 30)
            /\ b = Topic("Geometry", 18, 30)
            /\ c = Topic("Trigonometry", 10, 30)
  OBVIOUS
<1>4. Right(a) /\ Right(b) /\ Right(c)
  <2>1. /\ Right(Topic("Algebra", 22, 30))
        /\ Right(Topic("Geometry", 18, 30))
        /\ Right(Topic("Trigonometry", 10, 30))
    BY DEF Topic, Row, Right, TopicName
  <2> QED  BY <1>3, <2>1
<1>5. PICK t : t = <<a, b, c>>
  OBVIOUS
<1>6. t \in Seq(Row) /\ \A i \in DOMAIN t : t[i].correct <= t[i].total
  BY <1>5, <1>4 DEF Right
<1>7. Arjun = [mocks |-> m, topics |-> t, present |-> 18, absent |-> 6, late |-> 3, assigned |-> 2, submitted |-> 1, onTime |-> 1,
              recent |-> 175, prior |-> 0, silly |-> 7, other |-> 5]
  BY <1>1, <1>3, <1>5 DEF Arjun
<1>8. Valid([mocks |-> m, topics |-> t, present |-> 18, absent |-> 6, late |-> 3, assigned |-> 2, submitted |-> 1, onTime |-> 1,
             recent |-> 175, prior |-> 0, silly |-> 7, other |-> 5])
  BY <1>2, <1>6 DEF Valid, Data, Row
<1> QED  BY <1>7, <1>8

LEMMA DivyaValid == Valid(Divya)
<1>1. PICK m : m = <<930, 800>>
  OBVIOUS
<1>2. m \in Seq(PerMille)
  <2>1. 930 \in PerMille /\ 800 \in PerMille
    BY PerMilleIs
  <2> QED  BY <1>1, <2>1
<1>3. PICK a, b :
            /\ a = Topic("Algebra", 19, 20)
            /\ b = Topic("Trigonometry", 16, 20)
  OBVIOUS
<1>4. Right(a) /\ Right(b)
  <2>1. /\ Right(Topic("Algebra", 19, 20))
        /\ Right(Topic("Trigonometry", 16, 20))
    BY DEF Topic, Row, Right, TopicName
  <2> QED  BY <1>3, <2>1
<1>5. PICK t : t = <<a, b>>
  OBVIOUS
<1>6. t \in Seq(Row) /\ \A i \in DOMAIN t : t[i].correct <= t[i].total
  BY <1>5, <1>4 DEF Right
<1>7. Divya = [mocks |-> m, topics |-> t, present |-> 26, absent |-> 1, late |-> 1, assigned |-> 2, submitted |-> 2, onTime |-> 2,
              recent |-> 440, prior |-> 0, silly |-> 1, other |-> 1]
  BY <1>1, <1>3, <1>5 DEF Divya
<1>8. Valid([mocks |-> m, topics |-> t, present |-> 26, absent |-> 1, late |-> 1, assigned |-> 2, submitted |-> 2, onTime |-> 2,
             recent |-> 440, prior |-> 0, silly |-> 1, other |-> 1])
  BY <1>2, <1>6 DEF Valid, Data, Row
<1> QED  BY <1>7, <1>8

LEMMA KaranValid == Valid(Karan)
<1>1. PICK m : m = <<550>>
  OBVIOUS
<1>2. m \in Seq(PerMille)
  <2>1. 550 \in PerMille
    BY PerMilleIs
  <2> QED  BY <1>1, <2>1
<1>3. PICK a, b :
            /\ a = Topic("Mechanics", 4, 12)
            /\ b = Topic("Optics", 8, 10)
  OBVIOUS
<1>4. Right(a) /\ Right(b)
  <2>1. /\ Right(Topic("Mechanics", 4, 12))
        /\ Right(Topic("Optics", 8, 10))
    BY DEF Topic, Row, Right, TopicName
  <2> QED  BY <1>3, <2>1
<1>5. PICK t : t = <<a, b>>
  OBVIOUS
<1>6. t \in Seq(Row) /\ \A i \in DOMAIN t : t[i].correct <= t[i].total
  BY <1>5, <1>4 DEF Right
<1>7. Karan = [mocks |-> m, topics |-> t, present |-> 20, absent |-> 4, late |-> 2, assigned |-> 0, submitted |-> 0, onTime |-> 0,
              recent |-> 120, prior |-> 0, silly |-> 2, other |-> 4]
  BY <1>1, <1>3, <1>5 DEF Karan
<1>8. Valid([mocks |-> m, topics |-> t, present |-> 20, absent |-> 4, late |-> 2, assigned |-> 0, submitted |-> 0, onTime |-> 0,
             recent |-> 120, prior |-> 0, silly |-> 2, other |-> 4])
  BY <1>2, <1>6 DEF Valid, Data, Row
<1> QED  BY <1>7, <1>8

LEMMA BlankValid == Valid(Blank)
<1>1. PICK m : m = <<>>
  OBVIOUS
<1>2. m \in Seq(PerMille)
  BY <1>1
<1>5. PICK t : t = <<>>
  OBVIOUS
<1>6. t \in Seq(Row) /\ \A i \in DOMAIN t : t[i].correct <= t[i].total
  BY <1>5
<1>7. Blank = [mocks |-> m, topics |-> t, present |-> 0, absent |-> 0, late |-> 0, assigned |-> 0, submitted |-> 0, onTime |-> 0,
              recent |-> 0, prior |-> 0, silly |-> 0, other |-> 0]
  BY <1>1, <1>5 DEF Blank
<1>8. Valid([mocks |-> m, topics |-> t, present |-> 0, absent |-> 0, late |-> 0, assigned |-> 0, submitted |-> 0, onTime |-> 0,
             recent |-> 0, prior |-> 0, silly |-> 0, other |-> 0])
  BY <1>2, <1>6 DEF Valid, Data, Row
<1> QED  BY <1>7, <1>8

LEMMA ValidMocks ==
  ASSUME NEW d, Valid(d), NEW m \in Seq(PerMille)
  PROVE  Valid([d EXCEPT !.mocks = m])
BY DEF Valid, Data

LEMMA ValidTopics ==
  ASSUME NEW d, Valid(d), NEW t \in Seq(Row),
         \A i \in DOMAIN t : t[i].correct <= t[i].total
  PROVE  Valid([d EXCEPT !.topics = t])
BY DEF Valid, Data, Row

LEMMA ValidAttendance ==
  ASSUME NEW d, Valid(d), NEW p \in Nat, NEW a \in Nat, NEW l \in Nat
  PROVE  /\ Valid([d EXCEPT !.present = p]) /\ Valid([d EXCEPT !.absent = a])
         /\ Valid([d EXCEPT !.late = l])
         /\ Valid([d EXCEPT !.absent = a, !.present = p])
BY DEF Valid, Data

LEMMA ValidWorksheets ==
  ASSUME NEW d, Valid(d), NEW g \in Nat, NEW h \in Nat, NEW o \in Nat, o <= h
  PROVE  /\ Valid([d EXCEPT !.assigned = g])
         /\ Valid([d EXCEPT !.submitted = h, !.onTime = o])
         /\ o <= d.submitted => Valid([d EXCEPT !.onTime = o])
BY DEF Valid, Data

LEMMA ValidStudy ==
  ASSUME NEW d, Valid(d), NEW r \in Nat, NEW q \in Nat
  PROVE  Valid([d EXCEPT !.recent = r]) /\ Valid([d EXCEPT !.recent = r, !.prior = q])
BY DEF Valid, Data

LEMMA ValidMistakes ==
  ASSUME NEW d, Valid(d), NEW s \in Nat, NEW e \in Nat
  PROVE  Valid([d EXCEPT !.silly = s]) /\ Valid([d EXCEPT !.other = e])
BY DEF Valid, Data

LEMMA HoldMockValid ==
  ASSUME Valid(record), HoldMock
  PROVE  Valid(record')
<1>1. PICK m \in MockScore :
        record' = LET all == <<m>> \o record.mocks
                  IN  [record EXCEPT !.mocks = SubSeq(all, 1, AtMost(Len(all), 8))]
  BY DEF HoldMock, Change
<1>2. PICK all : all = <<m>> \o record.mocks
  OBVIOUS
<1>3. all \in Seq(PerMille)
  <2>1. PICK one, old : one = <<m>> /\ old = record.mocks
    OBVIOUS
  <2>2. m \in PerMille
    BY ScoringAssumption
  <2>3. one \in Seq(PerMille) /\ old \in Seq(PerMille)
    BY <2>1, <2>2, Fields
  <2>4. one \o old \in Seq(PerMille)
    BY <2>3, ConcatProperties
  <2> QED  BY <1>2, <2>1, <2>4
<1>4. PICK n : n = AtMost(Len(all), 8)
  OBVIOUS
<1>5. n \in Int /\ n <= Len(all)
  <2>1. PICK k \in Nat : k = Len(all)
    BY <1>3, LenProperties
  <2>2. AtMost(k, 8) \in Int /\ AtMost(k, 8) <= k
    BY DEF AtMost
  <2> QED  BY <1>4, <2>1, <2>2
<1>6. PICK new : new = SubSeq(all, 1, n)
  OBVIOUS
<1>7. new \in Seq(PerMille)
  <2>1. \A i \in 1..n : all[i] \in PerMille
    BY <1>3, <1>5, LenProperties
  <2>2. 1 \in Int
    OBVIOUS
  <2> QED  BY <1>5, <1>6, <2>1, <2>2, SubSeqProperties
<1>8. record' = [record EXCEPT !.mocks = new]
  BY <1>1, <1>2, <1>4, <1>6
<1>9. PICK b : b = [record EXCEPT !.mocks = new] /\ Valid(b)
  BY <1>7, ValidMocks
<1> QED  BY <1>8, <1>9

LEMMA RowAnswered ==
  ASSUME NEW r \in Row, r.correct <= r.total, NEW right \in {0, 1},
         NEW row, row = [r EXCEPT !.correct = r.correct + right, !.total = r.total + 1]
  PROVE  row \in Row /\ row.correct <= row.total
<1>1. r.topic \in TopicName /\ r.correct \in Nat /\ r.total \in Nat
  BY DEF Row
<1>2. PICK c \in Nat, n \in Nat : c = r.correct + right /\ n = r.total + 1 /\ c <= n
  BY <1>1
<1>3. row = [topic |-> r.topic, correct |-> c, total |-> n]
  BY <1>2 DEF Row
<1> QED  BY <1>1, <1>2, <1>3 DEF Row

LEMMA AnswerQuestionValid ==
  ASSUME Valid(record), AnswerQuestion
  PROVE  Valid(record')
<1>1. PICK right \in {0, 1} :
        \/ \E i \in DOMAIN record.topics :
             record' = [record EXCEPT !.topics[i].correct = @ + right, !.topics[i].total = @ + 1]
        \/ record' = [record EXCEPT !.topics = Append(@, Topic("new", right, 1))]
  BY DEF AnswerQuestion, Change
<1>2. PICK t \in Seq(Row) : t = record.topics
  BY Fields DEF Row
<1>3. /\ Len(t) \in Nat /\ DOMAIN t = 1..Len(t)
      /\ \A i \in 1..Len(t) : t[i] \in Row /\ t[i].correct <= t[i].total
  BY <1>2, LenProperties DEF Valid
<1>4. ASSUME NEW i \in 1..Len(t),
             record' = [record EXCEPT !.topics[i].correct = @ + right, !.topics[i].total = @ + 1]
      PROVE  Valid(record')
  <2>1. PICK row : row = [t[i] EXCEPT !.correct = t[i].correct + right,
                                      !.total = t[i].total + 1]
    OBVIOUS
  <2>2. row \in Row /\ row.correct <= row.total
    <3>1. t[i] \in Row /\ t[i].correct <= t[i].total
      BY <1>3
    <3> QED  BY <2>1, <3>1, RowAnswered
  <2>3. PICK new : new = [t EXCEPT ![i] = row]
    OBVIOUS
  <2>4. new \in Seq(Row) /\ \A j \in DOMAIN new : new[j].correct <= new[j].total
    BY <1>3, <2>2, <2>3
  <2>5. record' = [record EXCEPT !.topics = new]
    BY <1>2, <1>4, <2>1, <2>3, Fields DEF Valid, Data
  <2>6. PICK b : b = [record EXCEPT !.topics = new] /\ Valid(b)
    BY <2>4, ValidTopics
  <2> QED  BY <2>5, <2>6
<1>5. ASSUME record' = [record EXCEPT !.topics = Append(@, Topic("new", right, 1))]
      PROVE  Valid(record')
  <2>1. PICK row : row = Topic("new", right, 1)
    OBVIOUS
  <2>2. row \in Row /\ row.correct <= row.total
    BY <2>1 DEF Topic, Row, TopicName
  <2>3. PICK new : new = Append(t, row)
    OBVIOUS
  <2>4. new \in Seq(Row) /\ \A j \in DOMAIN new : new[j].correct <= new[j].total
    <3>1. /\ new \in Seq(Row) /\ Len(new) = Len(t) + 1 /\ new[Len(t) + 1] = row
          /\ \A j \in 1..Len(t) : new[j] = t[j]
      BY <2>2, <2>3, AppendProperties
    <3>2. DOMAIN new = 1..(Len(t) + 1)
      BY <3>1, LenProperties
    <3> QED  BY <3>1, <3>2, <2>2, <1>3
  <2>5. record' = [record EXCEPT !.topics = new]
    BY <1>2, <1>5, <2>1, <2>3
  <2>6. PICK b : b = [record EXCEPT !.topics = new] /\ Valid(b)
    BY <2>4, ValidTopics
  <2> QED  BY <2>5, <2>6
<1> QED  BY <1>1, <1>2, <1>3, <1>4, <1>5

LEMMA CountsValid ==
  ASSUME Valid(record), TakeAttendance \/ HandOut \/ HandIn \/ Study \/ Fortnight \/ LogMistake
  PROVE  Valid(record')
<1>1. PICK d : d = record
  OBVIOUS
<1>2. /\ Valid(d) /\ d.onTime <= d.submitted
      /\ d.present \in Nat /\ d.absent \in Nat /\ d.late \in Nat
      /\ d.assigned \in Nat /\ d.submitted \in Nat /\ d.onTime \in Nat
      /\ d.recent \in Nat /\ d.silly \in Nat /\ d.other \in Nat
  BY <1>1, Fields
<1>3. CASE TakeAttendance
  <2>1. /\ Valid([d EXCEPT !.present = d.present + 1])
        /\ Valid([d EXCEPT !.absent = d.absent + 1])
        /\ Valid([d EXCEPT !.late = d.late + 1])
    <3>1. PICK p \in Nat, a \in Nat, l \in Nat :
              p = d.present + 1 /\ a = d.absent + 1 /\ l = d.late + 1
      BY <1>2
    <3>2. /\ Valid([d EXCEPT !.present = p]) /\ Valid([d EXCEPT !.absent = a])
          /\ Valid([d EXCEPT !.late = l])
      BY <1>2, ValidAttendance
    <3> QED  BY <3>1, <3>2
  <2> QED  BY <1>1, <1>3, <2>1 DEF TakeAttendance, Change
<1>4. CASE HandOut
  <2>1. PICK g \in Nat : g = d.assigned + 1
    BY <1>2
  <2>2. Valid([d EXCEPT !.assigned = g])
    BY <1>2, ValidWorksheets
  <2> QED  BY <1>1, <1>4, <2>1, <2>2 DEF HandOut, Change
<1>5. CASE HandIn
  <2>1. PICK on \in {0, 1} :
            record' = [d EXCEPT !.submitted = d.submitted + 1, !.onTime = d.onTime + on]
    BY <1>1, <1>5 DEF HandIn, Change
  <2>2. PICK h \in Nat, o \in Nat : h = d.submitted + 1 /\ o = d.onTime + on /\ o <= h
    BY <1>2
  <2>3. Valid([d EXCEPT !.submitted = h, !.onTime = o])
    BY <1>2, <2>2, ValidWorksheets
  <2> QED  BY <2>1, <2>2, <2>3
<1>6. CASE Study
  <2>1. PICK r \in Nat : r = d.recent + 220
    BY <1>2
  <2>2. Valid([d EXCEPT !.recent = r])
    BY <1>2, ValidStudy
  <2> QED  BY <1>1, <1>6, <2>1, <2>2 DEF Study, Change
<1>7. CASE Fortnight
  <2>1. PICK z \in Nat, r \in Nat : z = 0 /\ r = d.recent
    BY <1>2
  <2>2. Valid([d EXCEPT !.recent = z, !.prior = r])
    BY <1>2, ValidStudy
  <2> QED  BY <1>1, <1>7, <2>1, <2>2 DEF Fortnight, Change
<1>8. CASE LogMistake
  <2>1. PICK s \in Nat, e \in Nat : s = d.silly + 1 /\ e = d.other + 1
    BY <1>2
  <2>2. Valid([d EXCEPT !.silly = s]) /\ Valid([d EXCEPT !.other = e])
    BY <1>2, ValidMistakes
  <2> QED  BY <1>1, <1>8, <2>1, <2>2 DEF LogMistake, Change
<1> QED  BY <1>3, <1>4, <1>5, <1>6, <1>7, <1>8

(* The inductive part of the type invariant: every record reached is one the *)
(* queries can return.                                                       *)
Sound == Valid(record) /\ moves \in 0..MaxMoves

LEMMA SoundTyped ==
  ASSUME Sound
  PROVE  TypeOK
<1>1. PICK d : d = record
  OBVIOUS
<1>2. Rates(d)
  BY <1>1, ValidRates DEF Sound
<1>3. \A k \in 1..6 : Parts(d)[k][2] \in 0..Unit
  <2>1. PICK p : p = Parts(d)
    OBVIOUS
  <2>2. /\ p[1][2] = MockAverage(d) /\ p[2][2] = TopicMastery(d)
        /\ p[3][2] = AssignmentScore(d) /\ p[4][2] = AttendanceRate(d)
        /\ p[5][2] = StudyConsistency(d) /\ p[6][2] = Unit - SillyRate(d)
    BY <2>1 DEF Parts
  <2>3. Rate(Unit - SillyRate(d))
    BY <1>2, UnitNat DEF Rates, Rate
  <2>4. /\ Rate(p[1][2]) /\ Rate(p[2][2]) /\ Rate(p[3][2]) /\ Rate(p[4][2])
        /\ Rate(p[5][2]) /\ Rate(p[6][2])
    BY <2>2, <2>3, <1>2 DEF Rates
  <2>5. \A k \in 1..6 : k = 1 \/ k = 2 \/ k = 3 \/ k = 4 \/ k = 5 \/ k = 6
    OBVIOUS
  <2>6. \A k \in 1..6 : Rate(p[k][2])
    BY <2>4, <2>5
  <2> QED  BY <2>1, <2>6, RateRange
<1>4. Readiness(d) \in 0..100
  BY <1>2, ReadinessIs
<1> QED  BY <1>1, <1>3, <1>4 DEF Sound, TypeOK, Valid

LEMMA SoundInit ==
  ASSUME Init
  PROVE  Sound
<1>1. Valid(record)
  BY ArjunValid, DivyaValid, KaranValid, BlankValid DEF Init
<1>2. moves \in 0..MaxMoves
  BY ScoringAssumption DEF Init
<1> QED  BY <1>1, <1>2 DEF Sound

LEMMA SoundNext ==
  ASSUME Sound, [Next]_vars
  PROVE  Sound'
<1>1. CASE Next
  <2>1. Valid(record')
    BY <1>1, HoldMockValid, AnswerQuestionValid, CountsValid DEF Sound, Next
  <2>2. moves < MaxMoves /\ moves' = moves + 1
    BY <1>1 DEF Next, HoldMock, AnswerQuestion, TakeAttendance, HandOut, HandIn, Study,
                Fortnight, LogMistake, Change
  <2>3. moves' \in 0..MaxMoves
    BY <2>2, ScoringAssumption DEF Sound
  <2> QED  BY <2>1, <2>3 DEF Sound, Valid
<1>2. CASE UNCHANGED vars
  BY <1>2 DEF vars, Sound, Valid
<1> QED  BY <1>1, <1>2

(* What the queries return is well formed after any number of rows, and the  *)
(* components of the score are rates and the score a percentage, whatever    *)
(* the rows are: more worksheets handed in than assigned, study without end, *)
(* no row at all (analyzeStudent).                                           *)
THEOREM ScoringTypeCorrect == Spec => []TypeOK
<1>1. Init => Sound
  BY SoundInit
<1>2. Sound /\ [Next]_vars => Sound'
  BY SoundNext
<1>3. Sound => TypeOK
  BY SoundTyped
<1> QED  BY <1>1, <1>2, <1>3, PTL DEF Spec

-----------------------------------------------------------------------------
(* Doing better.  Two records are compared component by component; the mocks *)
(* weigh on the score with their mean and with their trend.                  *)

MockPart(d) == 35 * MockAverage(d) + 8000 * Trend(d)

TopMock(d, b) == d.mocks # <<>> => b.mocks # <<>> /\ d.mocks[1] <= b.mocks[1]

NoWorse(d, b) ==
    /\ MockPart(d) <= MockPart(b) /\ TopMock(d, b)
    /\ TopicMastery(d) <= TopicMastery(b)
    /\ AssignmentScore(d) <= AssignmentScore(b) /\ Completion(d) <= Completion(b)
    /\ AttendanceRate(d) <= AttendanceRate(b)
    /\ StudyConsistency(d) <= StudyConsistency(b) /\ d.recent <= b.recent
    /\ SillyRate(b) <= SillyRate(d)

LEMMA NoWorseReadiness ==
  ASSUME NEW d, NEW b, Rates(d), Rates(b), NoWorse(d, b)
  PROVE  Readiness(d) <= Readiness(b)
<1>1. PICK x \in Int, y \in Int : x = Score(d) + 8000 * Trend(d) /\ y = Score(b) + 8000 * Trend(b)
  BY ReadinessIs
<1>2. x <= y
  <2>1. PICK m, t, a, r, s, z : /\ m = MockPart(d) /\ t = TopicMastery(d)
                                /\ a = AssignmentScore(d) /\ r = AttendanceRate(d)
                                /\ s = StudyConsistency(d) /\ z = SillyRate(d)
    OBVIOUS
  <2>2. PICK m1, t1, a1, r1, s1, z1 : /\ m1 = MockPart(b) /\ t1 = TopicMastery(b)
                                      /\ a1 = AssignmentScore(b) /\ r1 = AttendanceRate(b)
                                      /\ s1 = StudyConsistency(b) /\ z1 = SillyRate(b)
    OBVIOUS
  <2>3. /\ m \in Int /\ t \in Int /\ a \in Int /\ r \in Int /\ s \in Int /\ z \in Int
        /\ x = m + 25 * t + 15 * a + 10 * r + 10 * s + 5 * (Unit - z)
    BY <1>1, <2>1, UnitNat, SMT DEF Rates, Rate, MockPart, Score
  <2>4. /\ m1 \in Int /\ t1 \in Int /\ a1 \in Int /\ r1 \in Int /\ s1 \in Int /\ z1 \in Int
        /\ y = m1 + 25 * t1 + 15 * a1 + 10 * r1 + 10 * s1 + 5 * (Unit - z1)
    BY <1>1, <2>2, UnitNat, SMT DEF Rates, Rate, MockPart, Score
  <2>5. m <= m1 /\ t <= t1 /\ a <= a1 /\ r <= r1 /\ s <= s1 /\ z1 <= z
    BY <2>1, <2>2 DEF NoWorse
  <2> QED  BY <2>3, <2>4, <2>5, UnitNat
<1>3. Ready(x) <= Ready(y)
  BY <1>2, ReadyMonotone
<1> QED  BY <1>1, <1>3, ReadinessIs

LEMMA NoWorsePoints ==
  ASSUME NEW d, NEW b, Valid(d), Valid(b), NoWorse(d, b)
  PROVE  Points(d) <= Points(b)
<1>1. PICK x, y : x = Readiness(d) /\ y = Readiness(b)
  OBVIOUS
<1>2. x \in Int /\ y \in Int /\ x <= y
  BY <1>1, ValidRates, ReadinessIs, NoWorseReadiness
<1>3. PICK u, v : u = AtMost(d.recent, 600) /\ v = AtMost(b.recent, 600)
  OBVIOUS
<1>4. u \in Int /\ v \in Int /\ u <= v
  <2>1. PICK p \in Int, q \in Int : p = d.recent /\ q = b.recent /\ p <= q
    BY Fields DEF NoWorse
  <2>2. PICK most \in Int : most = 600
    OBVIOUS
  <2>3. AtMost(p, most) \in Int /\ AtMost(q, most) \in Int /\ AtMost(p, most) <= AtMost(q, most)
    BY <2>1, AtMostMonotone
  <2> QED  BY <1>3, <2>1, <2>2, <2>3
<1>5. PICK e, f : e = Completion(d) /\ f = Completion(b)
  OBVIOUS
<1>6. e \in Int /\ f \in Int /\ e <= f
  BY <1>5, ValidRates DEF Rates, Rate, NoWorse
<1>7. /\ Points(d) = Rounded(2 * Unit * x + (Unit \div 10) * u + 50 * e, Unit)
      /\ Points(b) = Rounded(2 * Unit * y + (Unit \div 10) * v + 50 * f, Unit)
  BY <1>1, <1>3, <1>5 DEF Points
<1>8. /\ Points(d) = (2000000 * x + 100000 * u + 50 * e + 500000) \div 1000000
      /\ Points(b) = (2000000 * y + 100000 * v + 50 * f + 500000) \div 1000000
  BY <1>2, <1>4, <1>6, <1>7, Numbers, SMT DEF Rounded
<1>9. PICK g \in Int, h \in Int : /\ g = 2000000 * x + 100000 * u + 50 * e + 500000
                                  /\ h = 2000000 * y + 100000 * v + 50 * f + 500000
                                  /\ g <= h
  BY <1>2, <1>4, <1>6, SMT
<1>10. g \div 1000000 <= h \div 1000000
  BY <1>9, SMT
<1> QED  BY <1>8, <1>9, <1>10, SMT

LEMMA BadgesOf ==
  ASSUME NEW d, NEW x
  PROVE  x \in BadgesDue(d) <=>
            \/ x = "exam_ready" /\ Readiness(d) >= 85
            \/ x = "all_assignments" /\ Completion(d) >= Unit
            \/ x = "centum_club" /\ d.mocks # <<>> /\ d.mocks[1] >= 950
BY DEF BadgesDue

LEMMA NoWorseBadges ==
  ASSUME NEW d, NEW b, Valid(d), Valid(b), NoWorse(d, b)
  PROVE  BadgesDue(d) \subseteq BadgesDue(b)
<1>1. Readiness(d) >= 85 => Readiness(b) >= 85
  BY ValidRates, ReadinessIs, NoWorseReadiness
<1>2. Completion(d) >= Unit => Completion(b) >= Unit
  BY ValidRates, UnitNat DEF Rates, Rate, NoWorse
<1>3. (d.mocks # <<>> /\ d.mocks[1] >= 950) => (b.mocks # <<>> /\ b.mocks[1] >= 950)
  <2>1. SUFFICES ASSUME d.mocks # <<>>, d.mocks[1] >= 950
                 PROVE  b.mocks # <<>> /\ b.mocks[1] >= 950
    OBVIOUS
  <2>2. b.mocks # <<>> /\ d.mocks[1] <= b.mocks[1]
    BY <2>1 DEF NoWorse, TopMock
  <2>3. PICK m \in Seq(PerMille), n \in Seq(PerMille) : m = d.mocks /\ n = b.mocks
    BY Fields
  <2>4. m # <<>> /\ n # <<>>
    BY <2>1, <2>2, <2>3
  <2>5. m[1] \in Int /\ n[1] \in Int
    <3>1. 1 \in 1..Len(m) /\ 1 \in 1..Len(n)
      BY <2>4, EmptySeq, LenProperties
    <3> QED  BY <3>1, ElementOfSeq, PerMilles
  <2>6. m[1] >= 950 /\ m[1] <= n[1]
    BY <2>1, <2>2, <2>3
  <2>7. n[1] >= 950
    BY <2>5, <2>6, SMT
  <2> QED  BY <2>2, <2>3, <2>7
<1> QED  BY <1>1, <1>2, <1>3, BadgesOf

(* What rests on other rows stays as it is. *)
LEMMA Keeps ==
  ASSUME NEW d, NEW b, Valid(d), Valid(b)
  PROVE  /\ b.mocks = d.mocks => MockPart(d) <= MockPart(b) /\ TopMock(d, b)
         /\ b.topics = d.topics => TopicMastery(d) <= TopicMastery(b)
         /\ b.assigned = d.assigned /\ b.submitted = d.submitted =>
                Completion(d) <= Completion(b)
         /\ b.assigned = d.assigned /\ b.submitted = d.submitted /\ b.onTime = d.onTime =>
                AssignmentScore(d) <= AssignmentScore(b)
         /\ b.present = d.present /\ b.absent = d.absent /\ b.late = d.late =>
                AttendanceRate(d) <= AttendanceRate(b)
         /\ b.recent = d.recent /\ b.prior = d.prior =>
                StudyConsistency(d) <= StudyConsistency(b) /\ d.recent <= b.recent
         /\ b.silly = d.silly /\ b.other = d.other => SillyRate(b) <= SillyRate(d)
<1>1. Rates(d) /\ Rates(b)
  BY ValidRates
<1>2. ASSUME b.mocks = d.mocks PROVE MockPart(d) <= MockPart(b) /\ TopMock(d, b)
  <2>1. MockAverage(b) = MockAverage(d) /\ Trend(b) = Trend(d)
    BY <1>2 DEF MockAverage, Trend, RecentMocks
  <2>2. MockPart(d) = MockPart(b) /\ MockPart(d) \in Int
    BY <2>1, <1>1 DEF MockPart, Rates, Rate
  <2>3. TopMock(d, b)
    <3>1. PICK m \in Seq(PerMille) : m = d.mocks
      BY Fields
    <3>2. m # <<>> => 1 \in 1..Len(m)
      BY EmptySeq, LenProperties
    <3>3. m # <<>> => m[1] <= m[1]
      BY <3>2, ElementOfSeq, PerMilles
    <3> QED  BY <3>1, <3>3, <1>2 DEF TopMock
  <2> QED  BY <2>2, <2>3
<1>3. ASSUME b.topics = d.topics PROVE TopicMastery(d) <= TopicMastery(b)
  <2>1. TopicMastery(b) = TopicMastery(d)
    BY <1>3 DEF TopicMastery, Attempted
  <2> QED  BY <2>1, <1>1 DEF Rates, Rate
<1>4. ASSUME b.assigned = d.assigned, b.submitted = d.submitted
      PROVE  Completion(d) <= Completion(b)
  <2>1. Completion(b) = Completion(d)
    BY <1>4 DEF Completion
  <2> QED  BY <2>1, <1>1 DEF Rates, Rate
<1>5. ASSUME b.assigned = d.assigned, b.submitted = d.submitted, b.onTime = d.onTime
      PROVE  AssignmentScore(d) <= AssignmentScore(b)
  <2>1. AssignmentScore(b) = AssignmentScore(d)
    BY <1>5 DEF AssignmentScore
  <2> QED  BY <2>1, <1>1 DEF Rates, Rate
<1>6. ASSUME b.present = d.present, b.absent = d.absent, b.late = d.late
      PROVE  AttendanceRate(d) <= AttendanceRate(b)
  <2>1. AttendanceRate(b) = AttendanceRate(d)
    BY <1>6 DEF AttendanceRate
  <2> QED  BY <2>1, <1>1 DEF Rates, Rate
<1>7. ASSUME b.recent = d.recent, b.prior = d.prior
      PROVE  StudyConsistency(d) <= StudyConsistency(b) /\ d.recent <= b.recent
  <2>1. StudyConsistency(b) = StudyConsistency(d)
    BY <1>7 DEF StudyConsistency, StudyBase, StudyTrend
  <2>2. d.recent <= b.recent
    BY <1>7, Fields
  <2> QED  BY <2>1, <2>2, <1>1 DEF Rates, Rate
<1>8. ASSUME b.silly = d.silly, b.other = d.other PROVE SillyRate(b) <= SillyRate(d)
  <2>1. SillyRate(b) = SillyRate(d)
    BY <1>8 DEF SillyRate
  <2> QED  BY <2>1, <1>1 DEF Rates, Rate
<1> QED  BY <1>2, <1>3, <1>4, <1>5, <1>6, <1>7, <1>8

(* Fifty per mille more in one of the recent mocks: the mean gains at least  *)
(* 12500 millionths, of which the nudge takes back at most 8 of 35 parts.    *)
LEMMA MockPartUp ==
  ASSUME NEW d, NEW m, NEW k, MockFacts(d, m, k),
         NEW b, NEW n, MockFacts(b, n, k),
         NEW i \in 1..k, i <= 4, n[i] = m[i] + 50,
         \A j \in 1..k : j # i => n[j] = m[j]
  PROVE  MockPart(d) <= MockPart(b)
<1>1. k \in Nat /\ (\A j \in 1..k : m[j] \in Int /\ n[j] \in Int)
  <2>1. k \in Nat /\ (\A j \in 1..k : m[j] \in PerMille) /\ (\A j \in 1..k : n[j] \in PerMille)
    BY DEF MockFacts
  <2> QED  BY <2>1, PerMilles
<1>2. CASE k = 1
  <2>1. PICK x, y : x = m[1] /\ y = n[1]
    OBVIOUS
  <2>2. x \in Int /\ y \in Int /\ x <= y
    BY <2>1, <1>1, <1>2
  <2>3. /\ MockAverage(d) = 1000 * x /\ Trend(d) = 0
        /\ MockAverage(b) = 1000 * y /\ Trend(b) = 0
    BY <1>2, <2>1 DEF MockFacts
  <2> QED  BY <2>2, <2>3 DEF MockPart
<1>3. CASE k = 2
  <2>1. PICK x1, x2, y1, y2 : x1 = m[1] /\ x2 = m[2] /\ y1 = n[1] /\ y2 = n[2]
    OBVIOUS
  <2>2. /\ x1 \in Int /\ x2 \in Int /\ y1 \in Int /\ y2 \in Int
        /\ \/ y1 = x1 + 50 /\ y2 = x2
           \/ y1 = x1 /\ y2 = x2 + 50
    BY <2>1, <1>1, <1>3
  <2>3. /\ MockAverage(d) = 500 * (x1 + x2) /\ Trend(d) = x1 - x2
        /\ MockAverage(b) = 500 * (y1 + y2) /\ Trend(b) = y1 - y2
    BY <1>3, <2>1 DEF MockFacts
  <2>4. 35 * (500 * (x1 + x2)) + 8000 * (x1 - x2) <= 35 * (500 * (y1 + y2)) + 8000 * (y1 - y2)
    BY <2>2, SMT
  <2> QED  BY <2>3, <2>4 DEF MockPart
<1>4. CASE k = 3
  <2>1. PICK x1, x2, x3, y1, y2, y3 : /\ x1 = m[1] /\ x2 = m[2] /\ x3 = m[3]
                                      /\ y1 = n[1] /\ y2 = n[2] /\ y3 = n[3]
    OBVIOUS
  <2>2. /\ x1 \in Int /\ x2 \in Int /\ x3 \in Int /\ y1 \in Int /\ y2 \in Int /\ y3 \in Int
        /\ \/ y1 = x1 + 50 /\ y2 = x2 /\ y3 = x3
           \/ y1 = x1 /\ y2 = x2 + 50 /\ y3 = x3
           \/ y1 = x1 /\ y2 = x2 /\ y3 = x3 + 50
    BY <2>1, <1>1, <1>4
  <2>3. /\ MockAverage(d) = ((x1 + x2 + x3) * 1000) \div 3 /\ Trend(d) = x1 - x3
        /\ MockAverage(b) = ((y1 + y2 + y3) * 1000) \div 3 /\ Trend(b) = y1 - y3
    BY <1>4, <2>1 DEF MockFacts
  <2>4. PICK p \in Int, q \in Int : /\ p = ((x1 + x2 + x3) * 1000) \div 3
                                    /\ q = ((y1 + y2 + y3) * 1000) \div 3
                                    /\ p + 16666 <= q
    BY <2>2, SMT
  <2>5. x1 - x3 <= (y1 - y3) + 50 /\ x1 - x3 \in Int /\ y1 - y3 \in Int
    BY <2>2, SMT
  <2>6. 35 * p + 8000 * (x1 - x3) <= 35 * q + 8000 * (y1 - y3)
    BY <2>4, <2>5, SMT
  <2> QED  BY <2>3, <2>4, <2>6 DEF MockPart
<1>5. CASE k >= 4
  <2>1. PICK x1, x2, x3, x4, y1, y2, y3, y4 :
            /\ x1 = m[1] /\ x2 = m[2] /\ x3 = m[3] /\ x4 = m[4]
            /\ y1 = n[1] /\ y2 = n[2] /\ y3 = n[3] /\ y4 = n[4]
    OBVIOUS
  <2>2. /\ x1 \in Int /\ x2 \in Int /\ x3 \in Int /\ x4 \in Int
        /\ y1 \in Int /\ y2 \in Int /\ y3 \in Int /\ y4 \in Int
    BY <2>1, <1>1, <1>5
  <2>3. \/ y1 = x1 + 50 /\ y2 = x2 /\ y3 = x3 /\ y4 = x4
        \/ y1 = x1 /\ y2 = x2 + 50 /\ y3 = x3 /\ y4 = x4
        \/ y1 = x1 /\ y2 = x2 /\ y3 = x3 + 50 /\ y4 = x4
        \/ y1 = x1 /\ y2 = x2 /\ y3 = x3 /\ y4 = x4 + 50
    <3>1. i = 1 \/ i = 2 \/ i = 3 \/ i = 4
      BY <1>1
    <3>2. 1 \in 1..k /\ 2 \in 1..k /\ 3 \in 1..k /\ 4 \in 1..k
      BY <1>1, <1>5
    <3> QED  BY <2>1, <3>1, <3>2
  <2>4. /\ MockAverage(d) = 250 * (x1 + x2 + x3 + x4) /\ Trend(d) = x1 - x4
        /\ MockAverage(b) = 250 * (y1 + y2 + y3 + y4) /\ Trend(b) = y1 - y4
    BY <1>5, <2>1 DEF MockFacts
  <2>5. 35 * (250 * (x1 + x2 + x3 + x4)) + 8000 * (x1 - x4)
            <= 35 * (250 * (y1 + y2 + y3 + y4)) + 8000 * (y1 - y4)
    BY <2>2, <2>3, SMT
  <2> QED  BY <2>4, <2>5 DEF MockPart
<1>6. k = 1 \/ k = 2 \/ k = 3 \/ k >= 4
  BY <1>1
<1> QED  BY <1>2, <1>3, <1>4, <1>5, <1>6

MockRaised(d, i) == [d EXCEPT !.mocks[i] = @ + 50]

LEMMA BetterMock ==
  ASSUME NEW d, Valid(d), NEW i \in DOMAIN RecentMocks(d), d.mocks[i] <= 950,
         NEW b \in {MockRaised(d, i)}
  PROVE  Valid(b) /\ NoWorse(d, b)
<1>1. PICK m \in Seq(PerMille) : m = d.mocks
  BY Fields
<1>2. PICK k \in Nat : k = Len(m)
  BY LenProperties
<1>3. i \in 1..k /\ i <= 4
  <2>1. PICK c : c = AtMost(k, 4)
    OBVIOUS
  <2>2. RecentMocks(d) = SubSeq(m, 1, c)
    BY <1>1, <1>2, <2>1 DEF RecentMocks
  <2>3. c \in 0..4 /\ c <= k /\ DOMAIN SubSeq(m, 1, c) = 1..c
    BY <1>2, <2>1, RecentOf, LenProperties
  <2> QED  BY <2>2, <2>3, <1>2
<1>4. m[i] \in Int /\ 0 <= m[i] /\ m[i] <= 950 /\ m[i] + 50 \in PerMille
  <2>1. m[i] \in PerMille
    BY <1>2, <1>3, ElementOfSeq
  <2>2. PICK x \in Int : x = m[i] /\ 0 <= x /\ x <= 950
    BY <2>1, <1>1, PerMilles
  <2>3. x + 50 \in PerMille
    BY <2>2, PerMilleIs
  <2> QED  BY <2>2, <2>3
<1>5. PICK n : n = [m EXCEPT ![i] = m[i] + 50]
  OBVIOUS
<1>6. /\ n \in Seq(PerMille) /\ Len(n) = k /\ n[i] = m[i] + 50
      /\ \A j \in 1..k : j # i => n[j] = m[j]
  BY <1>2, <1>3, <1>4, <1>5, ExceptSeq
<1>7. b = [d EXCEPT !.mocks = n]
  BY <1>1, <1>5 DEF Valid, Data, MockRaised
<1>8. PICK e : e = [d EXCEPT !.mocks = n] /\ Valid(e)
  BY <1>6, ValidMocks
<1>9. Valid(b)
  BY <1>7, <1>8
<1>10. /\ b.mocks = n /\ b.topics = d.topics /\ b.assigned = d.assigned
       /\ b.submitted = d.submitted /\ b.onTime = d.onTime
       /\ b.present = d.present /\ b.absent = d.absent /\ b.late = d.late
       /\ b.recent = d.recent /\ b.prior = d.prior
       /\ b.silly = d.silly /\ b.other = d.other
  BY <1>7 DEF Valid, Data
<1>11. MockPart(d) <= MockPart(b)
  <2>1. MockFacts(d, m, k)
    BY <1>1, <1>2, MockCases, Fields
  <2>2. MockFacts(b, n, k)
    BY <1>6, <1>9, <1>10, MockCases, Fields
  <2> QED  BY <2>1, <2>2, <1>3, <1>6, MockPartUp
<1>12. TopMock(d, b)
  <2>1. 1 \in 1..k
    BY <1>3
  <2>2. m[1] \in Int /\ (n[1] = m[1] + 50 \/ n[1] = m[1])
    BY <2>1, <1>2, <1>6, ElementOfSeq, PerMilles
  <2>3. n # <<>>
    BY <2>1, <1>6, EmptySeq
  <2> QED  BY <2>2, <2>3, <1>1, <1>10 DEF TopMock
<1> QED  BY <1>9, <1>10, <1>11, <1>12, Keeps DEF NoWorse

LEMMA AccuracyUp ==
  ASSUME NEW t, Answered(t), t.total - t.correct > 0, NEW u,
         u.correct = t.correct + 1, u.total = t.total
  PROVE  Accuracy(t) <= Accuracy(u)
<1>1. PICK c \in Nat, n \in Nat \ {0} : c = t.correct /\ n = t.total
  BY DEF Answered
<1>2. PICK e \in Nat : e = c + 1
  OBVIOUS
<1>3. Ratio(c, n) <= Ratio(e, n)
  BY <1>2, RatioMonotone
<1>4. Accuracy(t) = Ratio(c, n) /\ Accuracy(u) = Ratio(e, n)
  BY <1>1, <1>2 DEF Accuracy
<1> QED  BY <1>3, <1>4

Corrected(d, i) == [d EXCEPT !.topics[i].correct = @ + 1]

LEMMA BetterTopic ==
  ASSUME NEW d, Valid(d), NEW i \in DOMAIN d.topics, Wrong(d.topics[i]) > 0,
         NEW b \in {Corrected(d, i)}
  PROVE  Valid(b) /\ NoWorse(d, b)
<1>1. PICK t \in Seq(Row) : t = d.topics
  BY Fields DEF Row
<1>2. PICK n \in Nat : n = Len(t)
  BY LenProperties
<1>3. /\ DOMAIN t = 1..n /\ i \in 1..n
      /\ \A j \in 1..n : t[j] \in Row /\ Answered(t[j]) /\ t[j].correct <= t[j].total
  BY <1>1, <1>2, LenProperties, Topics DEF Answered
<1>4. t[i].total - t[i].correct > 0
  BY <1>1 DEF Wrong
<1>5. PICK row : row = [t[i] EXCEPT !.correct = t[i].correct + 1]
  OBVIOUS
<1>6. /\ row \in Row /\ row.correct = t[i].correct + 1 /\ row.total = t[i].total
      /\ row.correct <= row.total
  <2>1. PICK r \in Row : r = t[i] /\ r.total - r.correct > 0
    BY <1>3, <1>4
  <2>2. PICK x \in Nat, y \in Nat : x = r.correct /\ y = r.total /\ y - x > 0
    BY <2>1 DEF Row
  <2>3. PICK c \in Nat : c = x + 1 /\ c <= y
    BY <2>2
  <2>4. row = [topic |-> r.topic, correct |-> c, total |-> r.total]
    BY <1>5, <2>1, <2>2, <2>3 DEF Row
  <2> QED  BY <2>1, <2>2, <2>3, <2>4 DEF Row
<1>7. PICK new : new = [t EXCEPT ![i] = row]
  OBVIOUS
<1>8. /\ new \in Seq(Row) /\ Len(new) = n /\ DOMAIN new = 1..n /\ new[i] = row
      /\ \A j \in 1..n : j # i => new[j] = t[j]
  BY <1>2, <1>3, <1>6, <1>7, ExceptSeq, LenProperties
<1>9. b = [d EXCEPT !.topics = new]
  BY <1>1, <1>3, <1>5, <1>7 DEF Valid, Data, Corrected
<1>10. \A j \in DOMAIN new : new[j].correct <= new[j].total
  BY <1>3, <1>6, <1>8
<1>11. PICK e : e = [d EXCEPT !.topics = new] /\ Valid(e)
  BY <1>8, <1>10, ValidTopics
<1>12. Valid(b)
  BY <1>9, <1>11
<1>13. /\ b.topics = new /\ b.mocks = d.mocks /\ b.assigned = d.assigned
       /\ b.submitted = d.submitted /\ b.onTime = d.onTime
       /\ b.present = d.present /\ b.absent = d.absent /\ b.late = d.late
       /\ b.recent = d.recent /\ b.prior = d.prior
       /\ b.silly = d.silly /\ b.other = d.other
  BY <1>9 DEF Valid, Data
<1>14. TopicMastery(d) <= TopicMastery(b)
  <2>1. Attempted(b) = Attempted(d)
    <3>1. Attempted(d) = {j \in 1..n : t[j].total > 0}
      BY <1>1, <1>3 DEF Attempted
    <3>2. Attempted(b) = {j \in 1..n : new[j].total > 0}
      BY <1>8, <1>13 DEF Attempted
    <3>3. \A j \in 1..n : new[j].total = t[j].total
      BY <1>6, <1>8
    <3> QED  BY <3>1, <3>2, <3>3
  <2>2. PICK p, q : p = Accuracies(d) /\ q = Accuracies(b)
    OBVIOUS
  <2>3. Ints(p) /\ Len(p) = n /\ \A j \in 1..n : p[j] = Accuracy(t[j]) /\ p[j] \in Int
    BY <1>1, <1>2, <2>2, AccuraciesAre DEF Rate
  <2>4. Ints(q) /\ Len(q) = n /\ \A j \in 1..n : q[j] = Accuracy(new[j]) /\ q[j] \in Int
    BY <1>8, <1>12, <1>13, <2>2, AccuraciesAre DEF Rate
  <2>5. p[i] <= q[i]
    <3>1. Accuracy(t[i]) <= Accuracy(row)
      BY <1>3, <1>4, <1>6, AccuracyUp
    <3> QED  BY <3>1, <2>3, <2>4, <1>3, <1>8
  <2>6. \A j \in 1..n : p[j] <= q[j]
    BY <2>3, <2>4, <2>5, <1>8
  <2>7. Sum(p) \in Int /\ Sum(q) \in Int /\ Sum(p) <= Sum(q)
    BY <2>3, <2>4, <2>6, SumInt, SumMonotone
  <2>8. CASE Attempted(d) = {}
    <3>1. TopicMastery(d) = Half /\ TopicMastery(b) = Half
      BY <2>8, <2>1 DEF TopicMastery
    <3>2. PICK h \in Int : h = Half
      BY Numbers, SMT
    <3> QED  BY <3>1, <3>2
  <2>9. CASE Attempted(d) # {}
    <3>1. PICK c \in Nat \ {0} : c = Cardinality(Attempted(d))
      BY <2>9, MasteryIs
    <3>2. TopicMastery(d) = Sum(p) \div c /\ TopicMastery(b) = Sum(q) \div c
      BY <2>1, <2>2, <2>9, <3>1, <1>12, MasteryIs
    <3> QED  BY <2>7, <3>2, DivMonotone
  <2> QED  BY <2>8, <2>9
<1> QED  BY <1>12, <1>13, <1>14, Keeps DEF NoWorse

LEMMA AttendanceUp ==
  ASSUME NEW p \in Nat, NEW c \in Nat, NEW l \in Nat,
         NEW d, d.present = p, d.absent = c + 1, d.late = l,
         NEW b, b.present = p + 1, b.absent = c, b.late = l
  PROVE  AttendanceRate(d) <= AttendanceRate(b)
<1>1. PICK r \in Nat, x \in Nat, n \in Nat \ {0} :
          r = p + 1 /\ x = c + 1 /\ n = p + x + l /\ n = r + c + l
  OBVIOUS
<1>2. AttendanceRate(d) = Ratio(p, n)
  BY <1>1, AttendanceIs
<1>3. AttendanceRate(b) = Ratio(r, n)
  BY <1>1, AttendanceIs
<1> QED  BY <1>1, <1>2, <1>3, RatioMonotone

(* One worksheet more, handed in on time: of as many assigned, or of one     *)
(* more that is due.                                                         *)
LEMMA AssignmentUp ==
  ASSUME NEW a \in Nat, NEW x \in Nat, NEW o \in Nat, o <= x,
         NEW d, Sheets(d, a, x, o), NEW b, Sheets(b, a, x + 1, o + 1)
  PROVE  AssignmentScore(d) <= AssignmentScore(b)
<1>1. PICK y \in Nat, w \in Nat : y = x + 1 /\ w = o + 1 /\ w <= y
  OBVIOUS
<1>a. PICK m, n : m = Due(a, x) /\ n = Due(a, y)
  OBVIOUS
<1>2. m \in Nat /\ n \in Nat \ {0} /\ x <= m /\ (n = m \/ (n = m + 1 /\ m = x))
  BY <1>a, <1>1, DueNext
<1>b. PICK g \in Nat, h \in Nat : g = 6 * x + 4 * o /\ h = 6 * y + 4 * w
  OBVIOUS
<1>c. PICK e, f : e = 10 * m /\ f = 10 * n
  OBVIOUS
<1>3. e \in Nat /\ f \in Nat \ {0} /\ (m # 0 => e \in Nat \ {0})
  BY <1>2, <1>c
<1>4. g <= e /\ h = g + 10
  BY <1>1, <1>2, <1>b, <1>c
<1>5. AssignmentScore(b) = Ratio(h, f)
  <2>1. Sheets(b, a, y, w)
    BY <1>1
  <2>2. w <= y /\ f \in Nat
    BY <1>1, <1>3
  <2> QED  BY <2>1, <2>2, <1>2, <1>a, <1>b, <1>c, AssignmentIs
<1>6. /\ m # 0 => AssignmentScore(d) = Ratio(g, e)
      /\ m = 0 => AssignmentScore(d) = Unit
  <2>1. Sheets(d, a, x, o) /\ o <= x
    OBVIOUS
  <2>2. m \in Nat /\ e \in Nat
    BY <1>2, <1>3
  <2> QED  BY <2>1, <2>2, <1>a, <1>b, <1>c, AssignmentIs
<1>7. CASE m = 0
  <2>1. AssignmentScore(d) = Unit
    BY <1>6, <1>7
  <2>2. h = f
    BY <1>1, <1>2, <1>b, <1>c, <1>7
  <2>3. Ratio(f, f) = Unit
    <3>1. PICK u \in Nat : u = Unit
      BY UnitNat
    <3>2. f * u = u * f
      BY <1>3
    <3>3. (u * f) \div f = u
      BY <1>3, DivExact
    <3> QED  BY <3>1, <3>2, <3>3 DEF Ratio
  <2> QED  BY <2>1, <2>2, <2>3, <1>5, UnitNat
<1>8. CASE m # 0 /\ n = m
  <2>1. Ratio(g, f) <= Ratio(h, f)
    BY <1>3, <1>4, RatioMonotone
  <2> QED  BY <2>1, <1>5, <1>6, <1>8, <1>c
<1>9. CASE m # 0 /\ n = m + 1
  <2>1. PICK k \in Nat : k = 10
    OBVIOUS
  <2>2. e \in Nat \ {0} /\ f = e + k /\ h = g + k
    BY <2>1, <1>2, <1>3, <1>4, <1>c, <1>9
  <2>3. Ratio(g, e) <= Ratio(g + k, e + k)
    BY <2>2, <1>4, Mediant
  <2> QED  BY <2>2, <2>3, <1>5, <1>6, <1>9
<1> QED  BY <1>2, <1>7, <1>8, <1>9

(* One of those handed in was on time after all. *)
LEMMA TimelinessUp ==
  ASSUME NEW a \in Nat, NEW x \in Nat, NEW o \in Nat, o + 1 <= x,
         NEW d, Sheets(d, a, x, o), NEW b, Sheets(b, a, x, o + 1)
  PROVE  AssignmentScore(d) <= AssignmentScore(b)
<1>1. PICK w \in Nat : w = o + 1 /\ w <= x
  OBVIOUS
<1>2. PICK m : m = Due(a, x)
  OBVIOUS
<1>3. m \in Nat \ {0}
  BY <1>1, <1>2 DEF Due
<1>4. PICK g \in Nat, h \in Nat : g = 6 * x + 4 * o /\ h = 6 * x + 4 * w
  OBVIOUS
<1>5. PICK e : e = 10 * m
  OBVIOUS
<1>6. e \in Nat \ {0} /\ g <= h
  BY <1>1, <1>3, <1>4, <1>5
<1>7. AssignmentScore(d) = Ratio(g, e)
  <2>1. o <= x
    BY <1>1
  <2> QED  BY <2>1, <1>2, <1>3, <1>4, <1>5, <1>6, AssignmentIs
<1>8. AssignmentScore(b) = Ratio(h, e)
  <2>1. Sheets(b, a, x, w) /\ w <= x
    BY <1>1
  <2> QED  BY <2>1, <1>2, <1>3, <1>4, <1>5, <1>6, AssignmentIs
<1> QED  BY <1>6, <1>7, <1>8, RatioMonotone

LEMMA SillyDown ==
  ASSUME NEW x \in Nat, NEW o \in Nat,
         NEW d, d.silly = x + 1, d.other = o, NEW b, b.silly = x, b.other = o
  PROVE  SillyRate(b) <= SillyRate(d)
<1>1. PICK y \in Nat, m \in Nat, n \in Nat \ {0} :
          y = x + 1 /\ m = x + o /\ n = y + o /\ n = m + 1 /\ x <= m
  OBVIOUS
<1>2. Rate(SillyRate(d)) /\ SillyRate(d) = Ratio(y, n)
  BY <1>1, SillyIs
<1>3. m = 0 => SillyRate(b) = 0
  BY <1>1, SillyIs
<1>4. m # 0 => SillyRate(b) = Ratio(x, m)
  BY <1>1, SillyIs
<1>5. m # 0 => Ratio(x, m) <= Ratio(y, n)
  <2>1. PICK k \in Nat : k = 1
    OBVIOUS
  <2>2. m # 0 => Ratio(x, m) <= Ratio(x + k, m + k)
    BY <1>1, Mediant
  <2> QED  BY <2>1, <2>2, <1>1
<1> QED  BY <1>2, <1>3, <1>4, <1>5 DEF Rate

LEMMA BetterAttendance ==
  ASSUME NEW d, Valid(d), NEW b \in {[d EXCEPT !.absent = @ - 1, !.present = @ + 1]},
         b.absent >= 0
  PROVE  Valid(b) /\ NoWorse(d, b)
<1>1. PICK p \in Nat, a \in Int, l \in Nat : p = d.present /\ a = d.absent - 1 /\ l = d.late
  BY Fields
<1>2. b.absent = a
  BY <1>1 DEF Valid, Data
<1>3. PICK r \in Nat, c \in Nat : r = p + 1 /\ c = a
  BY <1>2
<1>4. b = [d EXCEPT !.absent = c, !.present = r]
  BY <1>1, <1>3
<1>5. PICK e : e = [d EXCEPT !.absent = c, !.present = r] /\ Valid(e)
  BY ValidAttendance
<1>6. Valid(b)
  BY <1>4, <1>5
<1>7. /\ b.present = r /\ b.absent = c /\ b.late = d.late
      /\ b.topics = d.topics /\ b.mocks = d.mocks /\ b.assigned = d.assigned
      /\ b.submitted = d.submitted /\ b.onTime = d.onTime
      /\ b.recent = d.recent /\ b.prior = d.prior
      /\ b.silly = d.silly /\ b.other = d.other
  BY <1>4 DEF Valid, Data
<1>8. AttendanceRate(d) <= AttendanceRate(b)
  <2>1. d.present = p /\ d.absent = c + 1 /\ d.late = l
    BY <1>1, <1>3, Fields
  <2>2. b.present = p + 1 /\ b.absent = c /\ b.late = l
    BY <1>1, <1>3, <1>7
  <2> QED  BY <2>1, <2>2, AttendanceUp
<1> QED  BY <1>6, <1>7, <1>8, Keeps DEF NoWorse

LEMMA BetterWorksheet ==
  ASSUME NEW d, Valid(d), NEW b \in {[d EXCEPT !.submitted = @ + 1, !.onTime = @ + 1]}
  PROVE  Valid(b) /\ NoWorse(d, b)
<1>1. PICK a \in Nat, x \in Nat, o \in Nat :
          a = d.assigned /\ x = d.submitted /\ o = d.onTime /\ o <= x
  BY Fields
<1>2. PICK y \in Nat, w \in Nat : y = x + 1 /\ w = o + 1 /\ w <= y
  BY <1>1
<1>3. b = [d EXCEPT !.submitted = y, !.onTime = w]
  BY <1>1, <1>2
<1>4. PICK e : e = [d EXCEPT !.submitted = y, !.onTime = w] /\ Valid(e)
  BY <1>2, ValidWorksheets
<1>5. Valid(b)
  BY <1>3, <1>4
<1>6. /\ b.submitted = y /\ b.onTime = w /\ b.assigned = d.assigned
      /\ b.topics = d.topics /\ b.mocks = d.mocks
      /\ b.present = d.present /\ b.absent = d.absent /\ b.late = d.late
      /\ b.recent = d.recent /\ b.prior = d.prior
      /\ b.silly = d.silly /\ b.other = d.other
  BY <1>3 DEF Valid, Data
<1>7. Sheets(d, a, x, o) /\ Sheets(b, a, x + 1, o + 1)
  BY <1>1, <1>2, <1>6 DEF Sheets
<1>8. AssignmentScore(d) <= AssignmentScore(b)
  BY <1>1, <1>7, AssignmentUp
<1>9. Completion(d) <= Completion(b)
  <2>1. b.assigned = a /\ b.submitted = y /\ d.assigned = a /\ d.submitted = x /\ x <= y
    BY <1>1, <1>2, <1>6
  <2> QED  BY <2>1, CompletionRange
<1> QED  BY <1>5, <1>6, <1>8, <1>9, Keeps DEF NoWorse

LEMMA BetterTimeliness ==
  ASSUME NEW d, Valid(d), NEW b \in {[d EXCEPT !.onTime = @ + 1]}, b.onTime <= b.submitted
  PROVE  Valid(b) /\ NoWorse(d, b)
<1>1. PICK a \in Nat, x \in Nat, o \in Nat :
          a = d.assigned /\ x = d.submitted /\ o = d.onTime
  BY Fields
<1>2. PICK w \in Nat : w = o + 1
  BY <1>1
<1>3. b = [d EXCEPT !.onTime = w]
  BY <1>1, <1>2
<1>4. /\ b.onTime = w /\ b.submitted = d.submitted /\ b.assigned = d.assigned
      /\ b.topics = d.topics /\ b.mocks = d.mocks
      /\ b.present = d.present /\ b.absent = d.absent /\ b.late = d.late
      /\ b.recent = d.recent /\ b.prior = d.prior
      /\ b.silly = d.silly /\ b.other = d.other
  BY <1>3 DEF Valid, Data
<1>5. w <= x
  BY <1>1, <1>4
<1>6. PICK e : e = [d EXCEPT !.onTime = w] /\ Valid(e)
  BY <1>1, <1>5, ValidWorksheets
<1>7. Valid(b)
  BY <1>3, <1>6
<1>8. Sheets(d, a, x, o) /\ Sheets(b, a, x, o + 1) /\ o + 1 <= x
  BY <1>1, <1>2, <1>4, <1>5 DEF Sheets
<1>9. AssignmentScore(d) <= AssignmentScore(b)
  BY <1>8, TimelinessUp
<1> QED  BY <1>4, <1>7, <1>9, Keeps DEF NoWorse

LEMMA BetterStudy ==
  ASSUME NEW d, Valid(d), NEW b \in {[d EXCEPT !.recent = @ + 60]}
  PROVE  Valid(b) /\ NoWorse(d, b)
<1>1. PICK x \in Nat, p \in Nat : x = d.recent /\ p = d.prior
  BY Fields
<1>2. PICK y \in Nat : y = x + 60 /\ x <= y
  BY <1>1
<1>3. b = [d EXCEPT !.recent = y]
  BY <1>1, <1>2
<1>4. PICK e : e = [d EXCEPT !.recent = y] /\ Valid(e)
  BY ValidStudy
<1>5. Valid(b)
  BY <1>3, <1>4
<1>6. /\ b.recent = y /\ b.prior = d.prior
      /\ b.onTime = d.onTime /\ b.submitted = d.submitted /\ b.assigned = d.assigned
      /\ b.topics = d.topics /\ b.mocks = d.mocks
      /\ b.present = d.present /\ b.absent = d.absent /\ b.late = d.late
      /\ b.silly = d.silly /\ b.other = d.other
  BY <1>3 DEF Valid, Data
<1>7. StudyBase(d) <= StudyBase(b) /\ StudyTrend(d) <= StudyTrend(b)
      /\ Rate(StudyBase(d)) /\ Rate(StudyTrend(d))
  BY <1>1, <1>2, <1>6, StudyIs
<1>8. Rate(StudyBase(b)) /\ Rate(StudyTrend(b))
  BY <1>1, <1>2, <1>6, StudyIs
<1>9. StudyConsistency(d) <= StudyConsistency(b)
  BY <1>7, <1>8, ConsistencyOf
<1>10. d.recent <= b.recent
  BY <1>1, <1>2, <1>6
<1> QED  BY <1>5, <1>6, <1>9, <1>10, Keeps DEF NoWorse

LEMMA BetterCare ==
  ASSUME NEW d, Valid(d), NEW b \in {[d EXCEPT !.silly = @ - 1]}, b.silly >= 0
  PROVE  Valid(b) /\ NoWorse(d, b)
<1>1. PICK y \in Int, o \in Nat : y = d.silly - 1 /\ o = d.other
  BY Fields
<1>2. b.silly = y
  BY <1>1 DEF Valid, Data
<1>3. PICK x \in Nat : x = y
  BY <1>2
<1>4. b = [d EXCEPT !.silly = x]
  BY <1>1, <1>3
<1>5. PICK e : e = [d EXCEPT !.silly = x] /\ Valid(e)
  BY ValidMistakes
<1>6. Valid(b)
  BY <1>4, <1>5
<1>7. /\ b.silly = x /\ b.other = d.other /\ b.recent = d.recent /\ b.prior = d.prior
      /\ b.onTime = d.onTime /\ b.submitted = d.submitted /\ b.assigned = d.assigned
      /\ b.topics = d.topics /\ b.mocks = d.mocks
      /\ b.present = d.present /\ b.absent = d.absent /\ b.late = d.late
  BY <1>4 DEF Valid, Data
<1>8. d.silly = x + 1 /\ d.other = o /\ b.silly = x /\ b.other = o
  BY <1>1, <1>3, <1>7, Fields
<1>9. SillyRate(b) <= SillyRate(d)
  BY <1>8, SillyDown
<1> QED  BY <1>6, <1>7, <1>9, Keeps DEF NoWorse

LEMMA BetterIs ==
  ASSUME NEW d, Valid(d), NEW b \in Better(d)
  PROVE  Valid(b) /\ NoWorse(d, b)
<1>1. \/ \E i \in DOMAIN RecentMocks(d) :
            d.mocks[i] <= 950 /\ b \in {MockRaised(d, i)}
      \/ \E i \in DOMAIN d.topics :
            Wrong(d.topics[i]) > 0 /\ b \in {Corrected(d, i)}
      \/ b \in {[d EXCEPT !.absent = @ - 1, !.present = @ + 1]} /\ b.absent >= 0
      \/ b \in {[d EXCEPT !.submitted = @ + 1, !.onTime = @ + 1]}
      \/ b \in {[d EXCEPT !.onTime = @ + 1]} /\ b.onTime <= b.submitted
      \/ b \in {[d EXCEPT !.recent = @ + 60]}
      \/ b \in {[d EXCEPT !.silly = @ - 1]} /\ b.silly >= 0
  BY DEF Better, MockRaised, Corrected
<1>2. CASE \E i \in DOMAIN RecentMocks(d) :
              d.mocks[i] <= 950 /\ b \in {MockRaised(d, i)}
  BY <1>2, BetterMock, Zenon
<1>3. CASE \E i \in DOMAIN d.topics :
              Wrong(d.topics[i]) > 0 /\ b \in {Corrected(d, i)}
  BY <1>3, BetterTopic, Zenon
<1>4. CASE b \in {[d EXCEPT !.absent = @ - 1, !.present = @ + 1]} /\ b.absent >= 0
  BY <1>4, BetterAttendance, Zenon
<1>5. CASE b \in {[d EXCEPT !.submitted = @ + 1, !.onTime = @ + 1]}
  BY <1>5, BetterWorksheet, Zenon
<1>6. CASE b \in {[d EXCEPT !.onTime = @ + 1]} /\ b.onTime <= b.submitted
  BY <1>6, BetterTimeliness, Zenon
<1>7. CASE b \in {[d EXCEPT !.recent = @ + 60]}
  BY <1>7, BetterStudy, Zenon
<1>8. CASE b \in {[d EXCEPT !.silly = @ - 1]} /\ b.silly >= 0
  BY <1>8, BetterCare, Zenon
<1> QED  BY <1>1, <1>2, <1>3, <1>4, <1>5, <1>6, <1>7, <1>8, Zenon

(* A new mock, as good as each of the recent ones. *)
LEMMA MockPartNew ==
  ASSUME NEW d, NEW m, NEW k, MockFacts(d, m, k), k # 0,
         NEW b, NEW n, MockFacts(b, n, k + 1), NEW x \in Int, n[1] = x,
         \A j \in 1..k : n[j + 1] = m[j] /\ (j <= 4 => m[j] <= x)
  PROVE  MockPart(d) <= MockPart(b)
<1>1. k \in Nat /\ \A j \in 1..k : m[j] \in Int
  <2>1. k \in Nat /\ (\A j \in 1..k : m[j] \in PerMille)
    BY DEF MockFacts
  <2> QED  BY <2>1, PerMilles
<1>2. PICK l \in Nat : l = k + 1
  BY <1>1
<1>3. MockFacts(b, n, l)
  BY <1>2
<1>4. CASE k = 1
  <2>1. PICK a : a = m[1]
    OBVIOUS
  <2>2. a \in Int /\ a <= x /\ n[2] = a
    BY <2>1, <1>1, <1>4
  <2>3. MockAverage(d) = 1000 * a /\ Trend(d) = 0
    BY <1>4, <2>1 DEF MockFacts
  <2>4. MockAverage(b) = 500 * (x + a) /\ Trend(b) = x - a
    BY <1>2, <1>3, <1>4, <2>2 DEF MockFacts
  <2>5. 35 * (1000 * a) <= 35 * (500 * (x + a)) + 8000 * (x - a)
    BY <2>2, SMT
  <2>6. MockPart(d) = 35 * (1000 * a)
    BY <2>2, <2>3, SMT DEF MockPart
  <2> QED  BY <2>4, <2>5, <2>6 DEF MockPart
<1>5. CASE k = 2
  <2>1. PICK a, c : a = m[1] /\ c = m[2]
    OBVIOUS
  <2>2. a \in Int /\ c \in Int /\ a <= x /\ c <= x /\ n[2] = a /\ n[3] = c
    BY <2>1, <1>1, <1>5
  <2>3. MockAverage(d) = 500 * (a + c) /\ Trend(d) = a - c
    BY <1>5, <2>1 DEF MockFacts
  <2>4. MockAverage(b) = ((x + a + c) * 1000) \div 3 /\ Trend(b) = x - c
    BY <1>2, <1>3, <1>5, <2>2 DEF MockFacts
  <2>5. 35 * (500 * (a + c)) + 8000 * (a - c)
            <= 35 * (((x + a + c) * 1000) \div 3) + 8000 * (x - c)
    BY <2>2, SMT
  <2> QED  BY <2>3, <2>4, <2>5 DEF MockPart
<1>6. CASE k = 3
  <2>1. PICK a, c, e : a = m[1] /\ c = m[2] /\ e = m[3]
    OBVIOUS
  <2>2. /\ a \in Int /\ c \in Int /\ e \in Int /\ a <= x /\ c <= x /\ e <= x
        /\ n[2] = a /\ n[3] = c /\ n[4] = e
    BY <2>1, <1>1, <1>6
  <2>3. MockAverage(d) = ((a + c + e) * 1000) \div 3 /\ Trend(d) = a - e
    BY <1>6, <2>1 DEF MockFacts
  <2>4. MockAverage(b) = 250 * (x + a + c + e) /\ Trend(b) = x - e
    BY <1>2, <1>3, <1>6, <2>2 DEF MockFacts
  <2>5. 35 * (((a + c + e) * 1000) \div 3) + 8000 * (a - e)
            <= 35 * (250 * (x + a + c + e)) + 8000 * (x - e)
    BY <2>2, SMT
  <2> QED  BY <2>3, <2>4, <2>5 DEF MockPart
<1>7. CASE k >= 4
  <2>1. PICK a, c, e, f : a = m[1] /\ c = m[2] /\ e = m[3] /\ f = m[4]
    OBVIOUS
  <2>2. /\ a \in Int /\ c \in Int /\ e \in Int /\ f \in Int
        /\ a <= x /\ c <= x /\ e <= x /\ f <= x
        /\ n[2] = a /\ n[3] = c /\ n[4] = e
    BY <2>1, <1>1, <1>7
  <2>3. MockAverage(d) = 250 * (a + c + e + f) /\ Trend(d) = a - f
    BY <1>7, <2>1 DEF MockFacts
  <2>4. MockAverage(b) = 250 * (x + a + c + e) /\ Trend(b) = x - e
    BY <1>1, <1>2, <1>3, <1>7, <2>2 DEF MockFacts
  <2>5. 35 * (250 * (a + c + e + f)) + 8000 * (a - f)
            <= 35 * (250 * (x + a + c + e)) + 8000 * (x - e)
    BY <2>2, SMT
  <2> QED  BY <2>3, <2>4, <2>5 DEF MockPart
<1>8. k = 1 \/ k = 2 \/ k = 3 \/ k >= 4
  BY <1>1
<1> QED  BY <1>4, <1>5, <1>6, <1>7, <1>8

LEMMA Prepended ==
  ASSUME NEW S, NEW m \in Seq(S), NEW x \in S, NEW n, n = <<x>> \o m, NEW k \in Nat, k = Len(m)
  PROVE  n \in Seq(S) /\ Len(n) = k + 1 /\ n[1] = x /\ \A j \in 1..k : n[j + 1] = m[j]
<1>1. PICK one : one = <<x>>
  OBVIOUS
<1>2. one \in Seq(S) /\ Len(one) = 1 /\ one[1] = x
  BY <1>1
<1>3. /\ one \o m \in Seq(S) /\ Len(one \o m) = Len(one) + Len(m)
      /\ \A i \in 1..(Len(one) + Len(m)) :
             (one \o m)[i] = IF i <= Len(one) THEN one[i] ELSE m[i - Len(one)]
  BY <1>2, ConcatProperties
<1>4. Len(n) = 1 + k /\ \A i \in 1..(1 + k) : n[i] = IF i <= 1 THEN one[i] ELSE m[i - 1]
  BY <1>1, <1>2, <1>3
<1>5. \A j \in 1..k : n[j + 1] = m[j]
  <2>1. SUFFICES ASSUME NEW j \in 1..k PROVE n[j + 1] = m[j]
    OBVIOUS
  <2>2. PICK i \in 1..(1 + k) : i = j + 1 /\ ~ (i <= 1) /\ i - 1 = j
    OBVIOUS
  <2> QED  BY <2>2, <1>4
<1>6. n[1] = x
  <2>1. PICK i \in 1..(1 + k) : i = 1 /\ i <= 1
    OBVIOUS
  <2> QED  BY <2>1, <1>2, <1>4
<1> QED  BY <1>1, <1>3, <1>4, <1>5, <1>6

LEMMA BestMockBetter ==
  ASSUME NEW d, Valid(d), NEW x \in PerMille, RecentMocks(d) # <<>>,
         \A i \in DOMAIN RecentMocks(d) : x >= RecentMocks(d)[i],
         NEW b \in {[d EXCEPT !.mocks = <<x>> \o @]}
  PROVE  Valid(b) /\ NoWorse(d, b)
<1>a. PICK m \in Seq(PerMille) : m = d.mocks
  BY Fields
<1>b. PICK k \in Nat : k = Len(m)
  BY LenProperties
<1>c. PICK c, r : c = AtMost(k, 4) /\ r = SubSeq(m, 1, c)
  OBVIOUS
<1>1. m = d.mocks /\ k = Len(m) /\ c = AtMost(k, 4) /\ r = SubSeq(m, 1, c)
  BY <1>a, <1>b, <1>c
<1>2. RecentMocks(d) = r
  BY <1>1 DEF RecentMocks
<1>3. /\ c \in 0..4 /\ c <= k /\ r \in Seq(PerMille) /\ Len(r) = c /\ DOMAIN r = 1..c
      /\ \A i \in 1..c : r[i] = m[i]
  BY <1>1, RecentOf, LenProperties
<1>4. c # 0 /\ k # 0 /\ \A j \in 1..k : j <= 4 => j \in 1..c
  <2>1. c # 0
    BY <1>2, <1>3, EmptySeq
  <2>2. \A j \in 1..k : j <= 4 => j <= AtMost(k, 4)
    BY DEF AtMost
  <2> QED  BY <1>1, <1>3, <2>1, <2>2
<1>5. \A j \in 1..k : j <= 4 => m[j] <= x
  <2>1. \A i \in 1..c : x >= r[i] /\ r[i] = m[i] /\ m[i] \in Int
    <3>1. \A i \in 1..c : r[i] \in PerMille
      BY <1>3, ElementOfSeq
    <3> QED  BY <1>2, <1>3, <3>1, PerMilles
  <2>2. x \in Int
    BY PerMilles
  <2> QED  BY <1>4, <2>1, <2>2
<1>6. PICK n : n = <<x>> \o m
  OBVIOUS
<1>7. n \in Seq(PerMille) /\ Len(n) = k + 1 /\ n[1] = x /\ \A j \in 1..k : n[j + 1] = m[j]
  BY <1>b, <1>6, Prepended
<1>8. b = [d EXCEPT !.mocks = n]
  BY <1>1, <1>6
<1>9. PICK e : e = [d EXCEPT !.mocks = n] /\ Valid(e)
  BY <1>7, ValidMocks
<1>10. Valid(b)
  BY <1>8, <1>9
<1>11. /\ b.mocks = n /\ b.topics = d.topics /\ b.assigned = d.assigned
       /\ b.submitted = d.submitted /\ b.onTime = d.onTime
       /\ b.present = d.present /\ b.absent = d.absent /\ b.late = d.late
       /\ b.recent = d.recent /\ b.prior = d.prior
       /\ b.silly = d.silly /\ b.other = d.other
  BY <1>8 DEF Valid, Data
<1>12. MockPart(d) <= MockPart(b)
  <2>1. MockFacts(d, m, k)
    BY <1>1, MockCases, Fields
  <2>2. MockFacts(b, n, k + 1)
    BY <1>7, <1>10, <1>11, MockCases, Fields
  <2>3. x \in Int /\ \A j \in 1..k : n[j + 1] = m[j] /\ (j <= 4 => m[j] <= x)
    BY <1>5, <1>7, PerMilles
  <2> QED  BY <2>1, <2>2, <2>3, <1>4, <1>7, MockPartNew
<1>13. TopMock(d, b)
  <2>1. m[1] <= x
    BY <1>4, <1>5
  <2>2. n # <<>>
    BY <1>7, EmptySeq
  <2> QED  BY <2>1, <2>2, <1>1, <1>7, <1>11 DEF TopMock
<1> QED  BY <1>10, <1>11, <1>12, <1>13, Keeps DEF NoWorse

LEMMA EffortOf ==
  ASSUME Sound
  PROVE  EffortPays
<1>1. Valid(record)
  BY DEF Sound
<1>2. BetterNeverWorse
  <2>1. SUFFICES ASSUME NEW b \in Better(record)
                 PROVE  /\ Readiness(b) >= Readiness(record)
                        /\ Points(b) >= Points(record)
                        /\ BadgesDue(record) \subseteq BadgesDue(b)
    BY DEF BetterNeverWorse
  <2>2. Valid(b) /\ NoWorse(record, b)
    BY <1>1, BetterIs
  <2>3. Rates(record) /\ Rates(b)
    BY <1>1, <2>2, ValidRates
  <2>4. Readiness(record) <= Readiness(b) /\ Points(record) <= Points(b)
    BY <1>1, <2>2, <2>3, NoWorseReadiness, NoWorsePoints
  <2>5. BadgesDue(record) \subseteq BadgesDue(b)
    BY <1>1, <2>2, NoWorseBadges
  <2> QED  BY <2>4, <2>5
<1>3. BestMockNeverHurts
  <2>1. PICK d : d = record
    OBVIOUS
  <2>2. SUFFICES ASSUME NEW x \in MockScore, RecentMocks(d) # <<>>,
                        \A i \in DOMAIN RecentMocks(d) : x >= RecentMocks(d)[i]
                 PROVE  Readiness([d EXCEPT !.mocks = <<x>> \o @]) >= Readiness(d)
    BY <2>1 DEF BestMockNeverHurts
  <2>3. PICK b : b \in {[d EXCEPT !.mocks = <<x>> \o @]}
    OBVIOUS
  <2>4. x \in PerMille
    BY ScoringAssumption
  <2>5. Valid(b) /\ NoWorse(d, b)
    BY <1>1, <2>1, <2>2, <2>3, <2>4, BestMockBetter
  <2>6. Readiness(d) <= Readiness(b)
    BY <1>1, <2>1, <2>5, ValidRates, NoWorseReadiness
  <2> QED  BY <2>3, <2>6
<1> QED  BY <1>2, <1>3 DEF EffortPays

(* Doing better in any one thing costs no point of the score or of the       *)
(* leaderboard and no badge, and a mock as good as all recent ones lowers no *)
(* score, although both move the mean and the trend at once                  *)
(* (analyzeStudent, and the points and badges of engine.js).                 *)
THEOREM EffortIsRewarded == Spec => []EffortPays
<1>1. Init => Sound
  BY SoundInit
<1>2. Sound /\ [Next]_vars => Sound'
  BY SoundNext
<1>3. Sound => EffortPays
  BY EffortOf
<1> QED  BY <1>1, <1>2, <1>3, PTL DEF Spec

-----------------------------------------------------------------------------
(* What is shown adds up to the score. *)

LEMMA TenthsClose ==
  ASSUME NEW c \in Int
  PROVE  /\ Rounded(c, Unit \div 10) \in Int
         /\ 100000 * Rounded(c, Unit \div 10) <= c + 50000
         /\ c - 50000 <= 100000 * Rounded(c, Unit \div 10)
<1>1. Rounded(c, Unit \div 10) = (c + 50000) \div 100000
  BY Numbers, SMT DEF Rounded
<1>2. PICK q \in Int : q = (c + 50000) \div 100000 /\ 100000 * q <= c + 50000 /\ c - 50000 <= 100000 * q
  BY SMT
<1> QED  BY <1>1, <1>2

LEMMA ReadyClose ==
  ASSUME NEW s \in Int, 0 <= s, s <= 100 * Unit, NEW t \in Int
  PROVE  /\ Ready(s + t) \in Int
         /\ 1000000 * Ready(s + t) - s <= 500000 + Magnitude(t)
         /\ s - 1000000 * Ready(s + t) <= 500000 + Magnitude(t)
<1>1. PICK x \in Int : x = s + t
  OBVIOUS
<1>2. PICK v : v = Clamp(x, 100 * Unit)
  OBVIOUS
<1>3. v \in Int /\ v - s <= Magnitude(t) /\ s - v <= Magnitude(t)
  BY <1>1, <1>2, Numbers, SMT DEF Clamp, AtMost, Magnitude
<1>4. Ready(x) = (v + 500000) \div 1000000
  BY <1>2, <1>3, Numbers, SMT DEF Ready, Rounded
<1>5. PICK q \in Int : /\ q = (v + 500000) \div 1000000
                       /\ 1000000 * q <= v + 500000 /\ v - 500000 <= 1000000 * q
  BY <1>3, SMT
<1>6. Magnitude(t) \in Int
  BY DEF Magnitude
<1>7. /\ 1000000 * q - s <= 500000 + Magnitude(t)
      /\ s - 1000000 * q <= 500000 + Magnitude(t)
  BY <1>3, <1>5, <1>6, SMT
<1> QED  BY <1>1, <1>4, <1>5, <1>7

LEMMA ScoreAtMost ==
  ASSUME NEW d, Rates(d)
  PROVE  Score(d) <= 100 * Unit
<1>1. PICK m, t, a, r, s, z : /\ m = MockAverage(d) /\ t = TopicMastery(d)
                              /\ a = AssignmentScore(d) /\ r = AttendanceRate(d)
                              /\ s = StudyConsistency(d) /\ z = SillyRate(d)
  OBVIOUS
<1>2. Rate(m) /\ Rate(t) /\ Rate(a) /\ Rate(r) /\ Rate(s) /\ Rate(z)
  BY <1>1 DEF Rates
<1>3. 35 * m + 25 * t + 15 * a + 10 * r + 10 * s + 5 * (Unit - z) <= 100 * Unit
  BY <1>2, UnitNat, SMT DEF Rate
<1> QED  BY <1>1, <1>3 DEF Score

LEMMA ShownClose ==
  ASSUME NEW d, Rates(d)
  PROVE  /\ Sum(Shown(d)) \in Int
         /\ 100000 * Sum(Shown(d)) - Score(d) <= 300000
         /\ Score(d) - 100000 * Sum(Shown(d)) <= 300000
<1>1. PICK c, w : c = Contributions(d) /\ w = Shown(d)
  OBVIOUS
<1>2. Len(c) = 6 /\ DOMAIN c = 1..6 /\ \A k \in 1..6 : c[k] \in Int
  <2>1. \A k \in 1..6 : k = 1 \/ k = 2 \/ k = 3 \/ k = 4 \/ k = 5 \/ k = 6
    OBVIOUS
  <2>2. /\ c[1] \in Int /\ c[2] \in Int /\ c[3] \in Int
        /\ c[4] \in Int /\ c[5] \in Int /\ c[6] \in Int
    BY <1>1, ContributionsAre, UnitNat DEF Rates, Rate
  <2>3. Len(c) = 6 /\ DOMAIN c = 1..6
    BY <1>1, ContributionsAre
  <2> QED  BY <2>1, <2>2, <2>3
<1>3. PICK f : f = [k \in 1..6 |-> Rounded(c[k], Unit \div 10)]
  OBVIOUS
<1>4. w = f
  BY <1>1, <1>2, <1>3 DEF Shown
<1>5. \A k \in 1..6 : /\ f[k] \in Int
                      /\ 100000 * f[k] <= c[k] + 50000 /\ c[k] - 50000 <= 100000 * f[k]
  <2>1. SUFFICES ASSUME NEW k \in 1..6
                 PROVE  /\ f[k] \in Int
                        /\ 100000 * f[k] <= c[k] + 50000 /\ c[k] - 50000 <= 100000 * f[k]
    OBVIOUS
  <2>2. PICK x \in Int : x = c[k]
    BY <1>2
  <2>3. PICK y : y = Rounded(x, Unit \div 10)
    OBVIOUS
  <2>4. y \in Int /\ 100000 * y <= x + 50000 /\ x - 50000 <= 100000 * y
    BY <2>3, TenthsClose
  <2>5. f[k] = y
    BY <1>3, <2>2, <2>3
  <2> QED  BY <2>2, <2>4, <2>5
<1>6. Len(f) = 6 /\ Ints(f) /\ Ints(c)
  <2>1. Len(f) = 6
    BY <1>3
  <2> QED  BY <2>1, <1>2, <1>5 DEF Ints
<1>7. Sum(f) = f[1] + f[2] + f[3] + f[4] + f[5] + f[6]
  BY <1>6, SumFew
<1>8. Score(d) = c[1] + c[2] + c[3] + c[4] + c[5] + c[6]
  BY <1>1, <1>2, <1>6, SumFew, ScoreIs
<1>9. PICK c1, c2, c3, c4, c5, c6, f1, f2, f3, f4, f5, f6 :
          /\ c1 = c[1] /\ c2 = c[2] /\ c3 = c[3] /\ c4 = c[4] /\ c5 = c[5] /\ c6 = c[6]
          /\ f1 = f[1] /\ f2 = f[2] /\ f3 = f[3] /\ f4 = f[4] /\ f5 = f[5] /\ f6 = f[6]
  OBVIOUS
<1>10. /\ c1 \in Int /\ c2 \in Int /\ c3 \in Int /\ c4 \in Int /\ c5 \in Int /\ c6 \in Int
       /\ f1 \in Int /\ f2 \in Int /\ f3 \in Int /\ f4 \in Int /\ f5 \in Int /\ f6 \in Int
       /\ 100000 * f1 <= c1 + 50000 /\ c1 - 50000 <= 100000 * f1
       /\ 100000 * f2 <= c2 + 50000 /\ c2 - 50000 <= 100000 * f2
       /\ 100000 * f3 <= c3 + 50000 /\ c3 - 50000 <= 100000 * f3
       /\ 100000 * f4 <= c4 + 50000 /\ c4 - 50000 <= 100000 * f4
       /\ 100000 * f5 <= c5 + 50000 /\ c5 - 50000 <= 100000 * f5
       /\ 100000 * f6 <= c6 + 50000 /\ c6 - 50000 <= 100000 * f6
  BY <1>2, <1>5, <1>9
<1>11. PICK p \in Int, q \in Int : /\ p = c1 + c2 + c3 + c4 + c5 + c6
                                   /\ q = f1 + f2 + f3 + f4 + f5 + f6
                                   /\ 100000 * q - p <= 300000 /\ p - 100000 * q <= 300000
  BY <1>10, SMT
<1> QED  BY <1>1, <1>4, <1>7, <1>8, <1>9, <1>11

LEMMA ScoreExplained ==
  ASSUME Sound
  PROVE  ExplainedScore
<1>1. PICK d : d = record
  OBVIOUS
<1>2. Rates(d)
  BY <1>1, ValidRates DEF Sound
<1>3. PICK s \in Int, t \in Int, n \in Int, r \in Int :
          /\ s = Score(d) /\ t = Trend(d) /\ n = 8000 * t /\ r = Ready(s + n)
  <2>1. Score(d) \in Int /\ Trend(d) \in Int
    BY <1>2, ScoreIs DEF Rates
  <2>2. \A x \in Int : Ready(x) \in Int
    BY ReadyMonotone
  <2> QED  BY <2>1, <2>2
<1>4. PICK w \in Int : /\ w = Sum(Shown(d))
                       /\ 100000 * w - s <= 300000 /\ s - 100000 * w <= 300000
  BY <1>2, <1>3, ShownClose
<1>5. /\ 1000000 * r - s <= 500000 + Magnitude(n)
      /\ s - 1000000 * r <= 500000 + Magnitude(n)
  BY <1>2, <1>3, ScoreIs, ScoreAtMost, ReadyClose
<1>6. 10 * Magnitude(10 * r - w) <= 88 + Magnitude(t)
  BY <1>3, <1>4, <1>5, SMT DEF Magnitude
<1>7. Readiness(d) = r
  BY <1>2, <1>3, ReadinessIs
<1> QED  BY <1>1, <1>3, <1>4, <1>6, <1>7 DEF ExplainedScore

-----------------------------------------------------------------------------
(* A high risk has a reason. *)

(* A student with a weak topic has one that none goes before, so that the    *)
(* plan has a step.                                                          *)
LEMMA WeakestExists ==
  ASSUME NEW d, Valid(d), Low(d) # {}
  PROVE  Weakest(d, 4) # {}
<1>1. IsFiniteSet(Low(d)) /\ Low(d) \in SUBSET Attempted(d)
      /\ \A i \in Low(d) : i \in Int /\ Wrong(d.topics[i]) \in Int
  <2>1. Low(d) \in SUBSET Attempted(d) /\ Attempted(d) \in SUBSET (1..Len(d.topics))
    BY AccuraciesAre DEF Low
  <2>2. PICK n \in Nat : n = Len(d.topics)
    BY Topics
  <2>3. IsFiniteSet(1..n)
    BY FS_Interval
  <2>4. IsFiniteSet(Low(d))
    BY <2>1, <2>2, <2>3, FS_Subset
  <2>5. \A i \in 1..n : Wrong(d.topics[i]) \in Int
    BY <2>2, Topics DEF Wrong, Answered
  <2> QED  BY <2>1, <2>2, <2>4, <2>5
<1>2. \A i \in Low(d) : /\ IsFiniteSet(Before(d, i)) /\ Cardinality(Before(d, i)) \in Nat
                        /\ Before(d, i) \in SUBSET Low(d)
  <2>1. \A i \in Low(d) : Before(d, i) \in SUBSET Low(d)
    BY DEF Before
  <2> QED  BY <2>1, <1>1, FS_Subset, FS_CardinalityType
<1> DEFINE T == {Cardinality(Before(d, i)) : i \in Low(d)}
<1>3. PICK c \in T : \A y \in T : c <= y
  <2>1. T \in SUBSET Nat /\ T # {}
    BY <1>2
  <2> HIDE DEF T
  <2> QED  BY <2>1, NatLeast
<1>4. PICK i \in Low(d) : c = Cardinality(Before(d, i))
  OBVIOUS
<1>5. Before(d, i) = {}
  <2>1. SUFFICES ASSUME NEW j \in Before(d, i) PROVE FALSE
    OBVIOUS
  <2>2. j \in Low(d)
    BY <1>2, <2>1, <1>4
  <2>3. PICK w : \A k \in Low(d) : w[k] = Wrong(d.topics[k]) /\ w[k] \in Int
    <3>1. PICK v : v = [k \in Low(d) |-> Wrong(d.topics[k])]
      OBVIOUS
    <3>2. \A k \in Low(d) : v[k] = Wrong(d.topics[k]) /\ v[k] \in Int
      BY <3>1, <1>1
    <3> QED  BY <3>2
  <2>4. \A k \in Low(d) : Before(d, k) =
            {l \in Low(d) : w[l] > w[k] \/ (w[l] = w[k] /\ l < k)}
    BY <2>3 DEF Before
  <2>5. w[j] > w[i] \/ (w[j] = w[i] /\ j < i)
    BY <2>1, <2>4
  <2>6. Before(d, j) \in SUBSET Before(d, i)
    <3>1. \A l \in Low(d) : l \in Int /\ w[l] \in Int
      BY <1>1, <2>3
    <3>2. \A l \in Low(d) : (w[l] > w[j] \/ (w[l] = w[j] /\ l < j))
                                => (w[l] > w[i] \/ (w[l] = w[i] /\ l < i))
      BY <3>1, <2>2, <2>5
    <3> QED  BY <3>2, <2>2, <2>4
  <2>7. j \notin Before(d, j)
    BY <2>2, <2>3, <2>4, <1>1
  <2>8. Cardinality(Before(d, j)) < Cardinality(Before(d, i))
    <3>1. Cardinality(Before(d, j)) <= Cardinality(Before(d, i))
          /\ Cardinality(Before(d, j)) # Cardinality(Before(d, i))
      BY <1>2, <2>1, <2>6, <2>7, FS_Subset
    <3> QED  BY <3>1, <1>2, <2>2
  <2>9. Cardinality(Before(d, i)) <= Cardinality(Before(d, j))
    BY <1>3, <1>4, <2>2
  <2> QED  BY <2>8, <2>9, <1>2, <2>2
<1>6. Cardinality(Before(d, i)) < 4
  BY <1>5, FS_EmptySet
<1> QED  BY <1>6 DEF Weakest

(* Nothing in the plan: no weak topic, little carelessness, enough study and *)
(* most worksheets handed in.                                                *)
LEMMA EmptyPlan ==
  ASSUME NEW d, Valid(d), Plan(d) = {}
  PROVE  /\ Low(d) = {} /\ SillyRate(d) * 10 <= 3 * Unit
         /\ StudyBase(d) >= Half /\ Completion(d) * 10 >= 8 * Unit
<1>1. Weakest(d, 4) = {}
  BY DEF Plan
<1>2. Low(d) = {}
  BY <1>1, WeakestExists
<1>3. ~ (SillyRate(d) * 10 > 3 * Unit)
  BY DEF Plan
<1>4. ~ (StudyBase(d) < Half)
  BY DEF Plan
<1>5. ~ (Completion(d) * 10 < 8 * Unit)
  BY DEF Plan
<1>6. Rate(SillyRate(d)) /\ Rate(StudyBase(d)) /\ Rate(Completion(d))
  BY ValidRates DEF Rates
<1>7. SillyRate(d) * 10 <= 3 * Unit
  BY <1>3, <1>6, UnitNat DEF Rate
<1>8. StudyBase(d) >= Half
  BY <1>4, <1>6, Numbers, SMT DEF Rate
<1>9. Completion(d) * 10 >= 8 * Unit
  BY <1>5, <1>6, UnitNat DEF Rate
<1> QED  BY <1>2, <1>7, <1>8, <1>9

(* Without a weak topic the mastery is at least half. *)
LEMMA MasteryWithoutLow ==
  ASSUME NEW d, Valid(d), Low(d) = {}
  PROVE  TopicMastery(d) >= 500000
<1>1. CASE Attempted(d) = {}
  <2>1. TopicMastery(d) = Half
    BY <1>1 DEF TopicMastery
  <2> QED  BY <2>1, Numbers, SMT
<1>2. CASE Attempted(d) # {}
  <2>1. PICK a, c, s : a = Accuracies(d) /\ c = Cardinality(Attempted(d)) /\ s = Sum(a)
    OBVIOUS
  <2>2. c \in Nat \ {0} /\ s \in Int /\ TopicMastery(d) = s \div c
    BY <1>2, <2>1, MasteryIs
  <2>3. PICK lo \in Nat : lo = 600000
    OBVIOUS
  <2>4. \A i \in Attempted(d) : lo <= a[i] /\ a[i] <= Unit
    <3>1. SUFFICES ASSUME NEW i \in Attempted(d) PROVE lo <= a[i] /\ a[i] <= Unit
      OBVIOUS
    <3>2. ~ (Accuracy(d.topics[i]) * 10 < 6 * Unit)
      BY DEF Low
    <3>3. a[i] = Accuracy(d.topics[i]) /\ Rate(a[i])
      BY <2>1, AccuraciesAre
    <3>4. PICK x : x = a[i] /\ Rate(x) /\ ~ (x * 10 < 6 * Unit)
      BY <3>2, <3>3
    <3> QED  BY <2>3, <3>4, Numbers, SMT DEF Rate
  <2>5. Ints(a) /\ Attempted(d) \in SUBSET (1..Len(a))
        /\ \A i \in 1..Len(a) : i \notin Attempted(d) => a[i] = 0
    BY <2>1, AccuraciesAre
  <2>6. lo * c <= s
    BY <2>1, <2>4, <2>5, UnitNat, SumBetween
  <2>7. lo <= s \div c
    BY <2>2, <2>6, DivAtLeast
  <2> QED  BY <2>2, <2>3, <2>7
<1> QED  BY <1>1, <1>2

(* Four fifths handed in make an assignment score of 48 percent. *)
LEMMA AssignmentOfCompletion ==
  ASSUME NEW d, Valid(d), Completion(d) * 10 >= 8 * Unit
  PROVE  AssignmentScore(d) >= 480000
<1>1. PICK a \in Nat, x \in Nat, o \in Nat : Sheets(d, a, x, o) /\ o <= x
  BY Fields DEF Sheets
<1>2. PICK m \in Nat : m = Due(a, x)
  BY DEF Due
<1>3. PICK g \in Nat : g = 6 * x + 4 * o
  OBVIOUS
<1>4. PICK e \in Nat : e = 10 * m
  OBVIOUS
<1>5. /\ m = 0 => AssignmentScore(d) = Unit
      /\ m # 0 => AssignmentScore(d) = Ratio(g, e)
  BY <1>1, <1>2, <1>3, <1>4, AssignmentIs
<1>6. CASE m = 0
  BY <1>5, <1>6, Numbers, SMT
<1>7. CASE m # 0
  <2>1. 8 * m <= 10 * x
    <3>1. CASE a > x
      <4>1. m = a /\ a # 0
        BY <3>1, <1>2 DEF Due
      <4>2. Completion(d) = (x * Unit) \div a
        BY <3>1, <4>1, <1>1 DEF Completion, Sheets, Ratio, AtMost
      <4>3. PICK q \in Int, v \in Int : q = (x * Unit) \div a /\ v = x * Unit
        BY <4>1, UnitNat
      <4>4. a * q <= v
        BY <4>1, <4>3, Division
      <4>5. q >= 800000
        BY <4>2, <4>3, Numbers, SMT
      <4>6. a * 800000 <= a * q
        BY <4>5
      <4>7. v = 1000000 * x
        BY <4>3, Numbers, SMT
      <4>8. a * 800000 <= 1000000 * x
        BY <4>3, <4>4, <4>6, <4>7, SMT
      <4>9. 8 * a <= 10 * x
        BY <4>8, SMT
      <4> QED  BY <4>1, <4>9
    <3>2. CASE ~ (a > x)
      <4>1. m = x
        BY <3>2, <1>2 DEF Due
      <4> QED  BY <4>1
    <3> QED  BY <3>1, <3>2
  <2>2. e \in Nat \ {0} /\ 48 * e <= 100 * g
    BY <2>1, <1>3, <1>4, <1>7
  <2>3. 480000 * e <= g * Unit
    BY <2>2, Numbers, SMT
  <2>4. PICK p \in Int, z \in Int : p = g * Unit /\ z = 480000
    BY UnitNat
  <2>5. z <= p \div e
    BY <2>2, <2>3, <2>4, DivAtLeast
  <2> QED  BY <2>4, <2>5, <1>5, <1>7 DEF Ratio
<1> QED  BY <1>6, <1>7

(* Enough study makes a consistency of 35 percent. *)
LEMMA ConsistencyOfBase ==
  ASSUME NEW d, Valid(d), StudyBase(d) >= Half
  PROVE  StudyConsistency(d) >= 350000
<1>1. PICK u, v : u = StudyBase(d) /\ v = StudyTrend(d)
  OBVIOUS
<1>2. Rate(u) /\ Rate(v) /\ u >= Half
  <2>1. PICK x \in Nat, p \in Nat : d.recent = x /\ d.prior = p /\ x <= x
    BY Fields
  <2>2. Rate(StudyBase(d)) /\ Rate(StudyTrend(d))
    BY <2>1, StudyIs
  <2> QED  BY <1>1, <2>2
<1>3. StudyConsistency(d) = (7 * u + 3 * v) \div 10
  BY <1>1 DEF StudyConsistency
<1>4. (7 * u + 3 * v) \div 10 >= 350000
  BY <1>2, Numbers, SMT DEF Rate
<1> QED  BY <1>3, <1>4

(* What is left when no reason is shown.  The bounds add up to 49.7 points   *)
(* with mocks and to 50.2 without, and a score of 49.5 is rounded to 50.     *)
LEMMA ReadyWithoutReason ==
  ASSUME NEW d, Valid(d), Plan(d) = {}, ~ (Trend(d) < -150),
         ~ (AttendanceRate(d) * 10 < 6 * Unit),
         ~ (d.mocks # <<>> /\ MockAverage(d) * 100 < 52 * Unit)
  PROVE  Readiness(d) >= 50
<1>1. Rates(d)
  BY ValidRates
<1>2. PICK m, t, a, r, s, z, n : /\ m = MockAverage(d) /\ t = TopicMastery(d)
                                 /\ a = AssignmentScore(d) /\ r = AttendanceRate(d)
                                 /\ s = StudyConsistency(d) /\ z = SillyRate(d) /\ n = Trend(d)
  OBVIOUS
<1>3. /\ Rate(m) /\ Rate(t) /\ Rate(a) /\ Rate(r) /\ Rate(s) /\ Rate(z)
      /\ n \in Int /\ -1000 <= n /\ n <= 1000
  BY <1>1, <1>2 DEF Rates
<1>4. t >= 500000 /\ a >= 480000 /\ s >= 350000
  BY <1>2, EmptyPlan, MasteryWithoutLow, AssignmentOfCompletion, ConsistencyOfBase
<1>5. z <= 300000
  <2>1. z * 10 <= 3 * Unit
    BY <1>2, EmptyPlan
  <2> QED  BY <2>1, <1>3, Numbers, SMT DEF Rate
<1>6. r >= 600000
  BY <1>2, <1>3, Numbers, SMT DEF Rate
<1>7. n >= -150
  BY <1>2, <1>3
<1>8. (m >= 520000) \/ (m = 500000 /\ n = 0)
  <2>1. CASE d.mocks # <<>>
    BY <2>1, <1>2, <1>3, Numbers, SMT DEF Rate
  <2>2. CASE d.mocks = <<>>
    <3>1. RecentMocks(d) = <<>>
      <4>1. PICK e \in Seq(PerMille) : e = d.mocks
        BY Fields
      <4>2. PICK c : c = AtMost(Len(e), 4)
        OBVIOUS
      <4>3. c \in 0..4 /\ c <= Len(e) /\ SubSeq(e, 1, c) \in Seq(PerMille)
            /\ Len(SubSeq(e, 1, c)) = c
        BY <4>2, RecentOf
      <4>4. Len(e) = 0
        BY <4>1, <2>2, EmptySeq
      <4>5. c = 0
        BY <4>3, <4>4
      <4>6. SubSeq(e, 1, c) = <<>>
        BY <4>3, <4>5, EmptySeq
      <4> QED  BY <4>1, <4>2, <4>6 DEF RecentMocks
    <3>2. MockAverage(d) = Half
      BY <3>1 DEF MockAverage
    <3>3. Trend(d) = 0
      BY <3>1, EmptySeq DEF Trend
    <3> QED  BY <3>2, <3>3, <1>2, Numbers, SMT
  <2> QED  BY <2>1, <2>2
<1>9. PICK x \in Int : /\ x = Score(d) + 8000 * n /\ x >= 49500000
  <2>1. Score(d) = 35 * m + 25 * t + 15 * a + 10 * r + 10 * s + 5 * (1000000 - z)
    BY <1>2, Numbers, SMT DEF Score
  <2>2. 35 * m + 8000 * n >= 17000000
    BY <1>3, <1>7, <1>8, SMT DEF Rate
  <2>3. 35 * m + 25 * t + 15 * a + 10 * r + 10 * s + 5 * (1000000 - z) + 8000 * n >= 49500000
    BY <2>2, <1>3, <1>4, <1>5, <1>6, SMT DEF Rate
  <2> QED  BY <2>1, <2>3, <1>3, SMT DEF Rate
<1>10. Ready(x) >= 50
  <2>1. PICK v : v = Clamp(x, 100 * Unit)
    OBVIOUS
  <2>2. v \in Int /\ v >= 49500000
    BY <2>1, <1>9, Numbers, SMT DEF Clamp, AtMost
  <2>3. Ready(x) = (v + 500000) \div 1000000
    BY <2>1, <2>2, Numbers, SMT DEF Ready, Rounded
  <2>4. (v + 500000) \div 1000000 >= 50
    BY <2>2, SMT
  <2> QED  BY <2>3, <2>4
<1>11. Readiness(d) = Ready(x)
  BY <1>1, <1>2, <1>9, ReadinessIs
<1> QED  BY <1>10, <1>11

LEMMA RiskReasoned ==
  ASSUME Sound
  PROVE  RiskIsExplained
<1>1. PICK d : d = record
  OBVIOUS
<1>2. Valid(d)
  BY <1>1 DEF Sound
<1>3. SUFFICES ASSUME Risk(d) = "high", Plan(d) = {}, ~ (Trend(d) < -150),
                      ~ (AttendanceRate(d) * 10 < 6 * Unit),
                      ~ (d.mocks # <<>> /\ MockAverage(d) * 100 < 52 * Unit)
               PROVE  FALSE
  BY <1>1 DEF RiskIsExplained
<1>4. Readiness(d) >= 50 /\ Readiness(d) \in Int
  BY <1>2, <1>3, ReadyWithoutReason, ValidRates, ReadinessIs
<1>5. PICK r : r = Readiness(d)
  OBVIOUS
<1>6. Band(r, 70, 50) # "high"
  BY <1>4, <1>5 DEF Band
<1>7. Risk(d) = Band(r, 70, 50)
  BY <1>3, <1>5, Zenon DEF Risk, Escalated
<1> QED  BY <1>3, <1>6, <1>7

(* The contributions shown to the student add up to the score, but for the   *)
(* rounding and the nudge, and a high risk comes with a reason that is shown *)
(* (analyzeStudent: the signals, the plan and the risk level).               *)
THEOREM ScoreIsExplained == Spec => []Explained
<1>1. Init => Sound
  BY SoundInit
<1>2. Sound /\ [Next]_vars => Sound'
  BY SoundNext
<1>3. Sound => Explained
  BY ScoreExplained, RiskReasoned DEF Explained
<1> QED  BY <1>1, <1>2, <1>3, PTL DEF Spec
=============================================================================
