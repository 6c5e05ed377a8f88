------------------------------- MODULE Lemmas -------------------------------
(***************************************************************************)
(* What the proofs of several modules need: induction and primitive        *)
(* recursion on the natural numbers, stated about sets and functions       *)
(* instead of predicates so that the backends can use them on the recursive*)
(* definitions of the models; powers; sums; and regions of a ring of slots.*)
(***************************************************************************)
EXTENDS Integers, Sums, Powers, WellFoundedInduction, TLAPS

\* Every nonempty set of naturals has a least element.
LEMMA LeastElement ==
  ASSUME NEW T \in SUBSET Nat, T # {}
  PROVE  \E m \in T : \A k \in T : m <= k
<1> DEFINE R == OpToRel(<, Nat)
<1>1. IsWellFoundedOn(R, Nat)
  BY NatLessThanWellFounded
<1>2. PICK m \in T : \A k \in T : ~(<<k, m>> \in R)
  <2> HIDE DEF R
  <2> QED BY <1>1, WFMin
<1>3. \A k \in T : ~(k < m)
  BY <1>2 DEF OpToRel
<1> QED BY <1>3

\* A set that has 0 and is closed under successor has every natural.
LEMMA SetInduction ==
  ASSUME NEW T, 0 \in T, \A n \in Nat : n \in T => n + 1 \in T
  PROVE  Nat \subseteq T
<1> SUFFICES ASSUME Nat \ T # {} PROVE FALSE
  OBVIOUS
<1>1. PICK m \in Nat \ T : \A k \in Nat \ T : m <= k
  BY LeastElement
<1>2. m # 0
  OBVIOUS
<1>3. m - 1 \in Nat /\ m - 1 \in T
  BY <1>1, <1>2
<1> QED BY <1>1, <1>3

-----------------------------------------------------------------------------
\* g is the function defined by primitive recursion from a, with step F.
Recursive(g, S, a, F) ==
  g \in [Nat -> S] /\ g[0] = a /\ \A n \in Nat : g[n+1] = F[n][g[n]]

\* Primitive recursion defines a function: the initial segments exist and agree
\* with one another, and the function is their diagonal.
THEOREM PrimitiveRecursion ==
  ASSUME NEW S, NEW a \in S, NEW F \in [Nat -> [S -> S]]
  PROVE  \E g : Recursive(g, S, a, F)
<1> DEFINE Upto(m, g) == /\ g \in [0..m -> S]
                         /\ g[0] = a
                         /\ \A i \in 0..(m-1) : g[i+1] = F[i][g[i]]
           T == {m \in Nat : \E g : Upto(m, g)}
<1>1. Nat \subseteq T
  <2>1. 0 \in T
    <3>1. Upto(0, [i \in 0..0 |-> a])
      OBVIOUS
    <3> QED BY <3>1
  <2>2. ASSUME NEW m \in Nat, m \in T PROVE m + 1 \in T
    <3>1. PICK g : Upto(m, g)
      BY <2>2
    <3> DEFINE h == [i \in 0..(m+1) |-> IF i = m + 1 THEN F[m][g[m]] ELSE g[i]]
    <3>2. m \in 0..m /\ g[m] \in S
      BY <3>1
    <3>3. F[m][g[m]] \in S
      BY <3>2
    <3>4. h \in [0..(m+1) -> S]
      BY <3>1, <3>3
    <3>5. h[0] = a
      BY <3>1
    <3>6. \A i \in 0..m : h[i+1] = F[i][h[i]]
      <4> TAKE i \in 0..m
      <4>1. CASE i = m
        BY <4>1, <3>2
      <4>2. CASE i # m
        <5>1. i \in 0..(m-1) /\ i + 1 \in 0..m
          BY <4>2
        <5> QED BY <5>1, <3>1
      <4> QED BY <4>1, <4>2
    <3>7. Upto(m+1, h)
      <4>1. (m + 1) - 1 = m
        OBVIOUS
      <4> QED BY <3>4, <3>5, <3>6, <4>1
    <3>8. \E k : Upto(m+1, k)
      <4> HIDE DEF Upto, h
      <4> QED BY <3>7
    <3> QED BY <3>8
  <2> HIDE DEF T
  <2> QED BY <2>1, <2>2, SetInduction
<1>2. ASSUME NEW m \in Nat, NEW g, Upto(m, g),
             NEW p \in Nat, NEW h, Upto(p, h), m <= p
      PROVE  \A i \in 0..m : g[i] = h[i]
  <2> DEFINE A == {i \in Nat : i <= m => g[i] = h[i]}
  <2>1. 0 \in A
    BY <1>2
  <2>2. ASSUME NEW i \in Nat, i \in A PROVE i + 1 \in A
    <3> SUFFICES ASSUME i + 1 <= m PROVE g[i+1] = h[i+1]
      OBVIOUS
    <3>1. i \in 0..(m-1) /\ i \in 0..(p-1)
      BY <1>2
    <3>2. g[i] = h[i]
      BY <2>2, <3>1
    <3> QED BY <3>1, <3>2, <1>2
  <2> HIDE DEF A
  <2>3. Nat \subseteq A
    BY <2>1, <2>2, SetInduction
  <2> QED BY <2>3 DEF A
<1> DEFINE G(m) == CHOOSE g : Upto(m, g)
           r == [m \in Nat |-> G(m)[m]]
<1>3. \A m \in Nat : Upto(m, G(m))
  BY <1>1
<1> HIDE DEF Upto
<1>4. \A m \in Nat : r[m] = G(m)[m]
  OBVIOUS
<1> HIDE DEF G
<1>5. r \in [Nat -> S]
  BY <1>3 DEF Upto
<1>6. r[0] = a
  BY <1>3, <1>4 DEF Upto
<1>7. ASSUME NEW n \in Nat PROVE r[n+1] = F[n][r[n]]
  <2>1. Upto(n, G(n)) /\ Upto(n+1, G(n+1))
    BY <1>3
  <2>2. G(n)[n] = G(n+1)[n]
    BY <2>1, <1>2
  <2>3. G(n+1)[n+1] = F[n][G(n+1)[n]]
    BY <2>1 DEF Upto
  <2> QED BY <2>2, <2>3, <1>4
<1> HIDE DEF r
<1> QED BY <1>5, <1>6, <1>7 DEF Recursive

\* The same for functions that return naturals.
COROLLARY NatRecursion ==
  ASSUME NEW a \in Nat, NEW F \in [Nat -> [Nat -> Nat]]
  PROVE  \E g \in [Nat -> Nat] : g[0] = a /\ \A n \in Nat : g[n+1] = F[n][g[n]]
<1>1. ASSUME NEW S, S = Nat PROVE \E g : Recursive(g, S, a, F)
  <2>1. a \in S /\ F \in [Nat -> [S -> S]]
    BY <1>1
  <2> QED BY <2>1, PrimitiveRecursion
<1> QED BY <1>1 DEF Recursive

-----------------------------------------------------------------------------
\* The powers of two double.
LEMMA PowersDouble ==
  /\ Pow2[0] = 1
  /\ \A i \in Nat : Pow2[i] \in Nat /\ Pow2[i] > 0 /\ Pow2[i+1] = 2 * Pow2[i]
<1> DEFINE F == [i \in Nat |-> [x \in Nat |-> 2 * x]]
<1>1. F \in [Nat -> [Nat -> Nat]] /\ 1 \in Nat
  OBVIOUS
<1>2. PICK g : Recursive(g, Nat, 1, F)
  <2> HIDE DEF F
  <2> QED BY <1>1, PrimitiveRecursion
<1>3. g \in [Nat -> Nat] /\ g[0] = 1
  <2> HIDE DEF F
  <2> QED BY <1>2 DEF Recursive
<1>4. \A i \in Nat : g[i+1] = 2 * g[i]
  <2> TAKE i \in Nat
  <2>1. g[i+1] = F[i][g[i]]
    <3> HIDE DEF F
    <3> QED BY <1>2 DEF Recursive
  <2> QED BY <2>1, <1>3
<1> HIDE DEF F
<1>5. g = [i \in Nat |-> IF i = 0 THEN 1 ELSE 2 * g[i-1]]
  <2>1. ASSUME NEW i \in Nat, i # 0 PROVE g[i] = 2 * g[i-1]
    <3>1. i - 1 \in Nat /\ (i - 1) + 1 = i
      BY <2>1
    <3>2. g[(i-1)+1] = 2 * g[i-1]
      BY <3>1, <1>4
    <3> QED BY <3>1, <3>2
  <2> QED BY <2>1, <1>3
<1>6. Pow2 = [i \in Nat |-> IF i = 0 THEN 1 ELSE 2 * Pow2[i-1]]
  BY <1>5, Zenon DEF Pow2
<1>7. \A i \in Nat : Pow2[i+1] = 2 * Pow2[i]
  <2> TAKE i \in Nat
  <2>1. i + 1 \in Nat /\ i + 1 # 0 /\ (i + 1) - 1 = i
    OBVIOUS
  <2> QED BY <2>1, <1>6
<1> DEFINE A == {i \in Nat : Pow2[i] \in Nat /\ Pow2[i] > 0}
<1>8. 0 \in A
  BY <1>6
<1>9. ASSUME NEW i \in Nat, i \in A PROVE i + 1 \in A
  BY <1>7, <1>9
<1> HIDE DEF A
<1>10. Nat \subseteq A
  BY <1>8, <1>9, SetInduction
<1> QED BY <1>6, <1>7, <1>10 DEF A

-----------------------------------------------------------------------------
(***************************************************************************)
(* Sums.                                                                   *)
(***************************************************************************)
\* The partial sums exist and follow their recurrence.
LEMMA SumUnfolds ==
  ASSUME NEW M \in Nat, NEW f \in [Below(M) -> Nat]
  PROVE  \E sum : /\ sum[0] = 0 /\ SumTo(M, f) = sum[M]
                  /\ \A n \in 0..M : sum[n] \in Nat
                  /\ \A n \in Below(M) : sum[n+1] = sum[n] + f[n]
<1> DEFINE F == [i \in Nat |-> [x \in Nat |-> IF i < M THEN x + f[i] ELSE x]]
           sum[n \in 0..M] == IF n = 0 THEN 0 ELSE sum[n-1] + f[n-1]
<1>1. F \in [Nat -> [Nat -> Nat]]
  <2> SUFFICES ASSUME NEW i \in Nat, NEW x \in Nat, i < M PROVE x + f[i] \in Nat
    OBVIOUS
  <2>1. i \in Below(M)
    BY DEF Below
  <2> QED BY <2>1
<1>2. PICK g \in [Nat -> Nat] : g[0] = 0 /\ \A i \in Nat : g[i+1] = F[i][g[i]]
  <2>1. ASSUME NEW G \in [Nat -> [Nat -> Nat]]
        PROVE  \E g \in [Nat -> Nat] : g[0] = 0 /\ \A i \in Nat : g[i+1] = G[i][g[i]]
    BY NatRecursion
  <2> HIDE DEF F
  <2> QED BY <1>1, <2>1
<1>3. \A i \in Below(M) : g[i+1] = g[i] + f[i]
  <2> TAKE i \in Below(M)
  <2>1. i \in Nat /\ i < M
    BY DEF Below
  <2>2. F[i][g[i]] = g[i] + f[i]
    BY <2>1, <1>2
  <2> HIDE DEF F
  <2> QED BY <2>1, <2>2, <1>2
<1> DEFINE h == [n \in 0..M |-> g[n]]
<1>4. h = [n \in 0..M |-> IF n = 0 THEN 0 ELSE h[n-1] + f[n-1]]
  <2>1. ASSUME NEW n \in 0..M, n # 0 PROVE g[n] = h[n-1] + f[n-1]
    <3>1. n - 1 \in Below(M) /\ (n - 1) + 1 = n /\ n - 1 \in 0..M
      BY <2>1 DEF Below
    <3>2. g[(n-1)+1] = g[n-1] + f[n-1]
      BY <3>1, <1>3
    <3> QED BY <3>1, <3>2
  <2> QED BY <2>1, <1>2
<1>5. sum = [n \in 0..M |-> IF n = 0 THEN 0 ELSE sum[n-1] + f[n-1]]
  BY <1>4, Zenon
<1>6. SumTo(M, f) = sum[M]
  BY DEF SumTo
<1> HIDE DEF sum, h, F
<1>7. sum[0] = 0
  BY <1>5
<1>8. \A n \in Below(M) : sum[n+1] = sum[n] + f[n]
  <2> TAKE n \in Below(M)
  <2>1. n + 1 \in 0..M /\ n + 1 # 0 /\ (n + 1) - 1 = n
    BY DEF Below
  <2> QED BY <2>1, <1>5
<1>9. \A n \in 0..M : sum[n] \in Nat
  <2> DEFINE A == {n \in Nat : n <= M => sum[n] \in Nat}
  <2>1. 0 \in A
    BY <1>7
  <2>2. ASSUME NEW n \in Nat, n \in A PROVE n + 1 \in A
    <3> SUFFICES ASSUME n + 1 <= M PROVE sum[n+1] \in Nat
      OBVIOUS
    <3>1. n \in Below(M)
      BY DEF Below
    <3> QED BY <3>1, <2>2, <1>8
  <2> HIDE DEF A
  <2>3. Nat \subseteq A
    BY <2>1, <2>2, SetInduction
  <2> QED BY <2>3 DEF A
<1> QED BY <1>6, <1>7, <1>8, <1>9

LEMMA SumType ==
  ASSUME NEW M \in Nat, NEW f \in [Below(M) -> Nat]
  PROVE  SumTo(M, f) \in Nat
BY SumUnfolds

\* A change of one summand changes the sum by as much.
LEMMA SumUpdate ==
  ASSUME NEW M \in Nat, NEW f \in [Below(M) -> Nat], NEW g \in [Below(M) -> Nat], NEW p \in Below(M),
         \A q \in Below(M) : q # p => g[q] = f[q]
  PROVE  SumTo(M, g) + f[p] = SumTo(M, f) + g[p]
<1>1. PICK s : /\ s[0] = 0 /\ SumTo(M, f) = s[M] /\ \A n \in 0..M : s[n] \in Nat
               /\ \A n \in Below(M) : s[n+1] = s[n] + f[n]
  BY SumUnfolds
<1>2. PICK t : /\ t[0] = 0 /\ SumTo(M, g) = t[M] /\ \A n \in 0..M : t[n] \in Nat
               /\ \A n \in Below(M) : t[n+1] = t[n] + g[n]
  BY SumUnfolds
<1> DEFINE A == {n \in Nat : n <= M =>
                   IF p < n THEN t[n] + f[p] = s[n] + g[p] ELSE t[n] = s[n]}
<1>3. 0 \in A
  BY <1>1, <1>2 DEF Below
<1>4. ASSUME NEW n \in Nat, n \in A PROVE n + 1 \in A
  <2> SUFFICES ASSUME n + 1 <= M
               PROVE  IF p < n + 1 THEN t[n+1] + f[p] = s[n+1] + g[p] ELSE t[n+1] = s[n+1]
    OBVIOUS
  <2>1. n \in Below(M) /\ n \in 0..M
    BY DEF Below
  <2>2. s[n+1] = s[n] + f[n] /\ t[n+1] = t[n] + g[n]
    BY <2>1, <1>1, <1>2
  <2>3. s[n] \in Nat /\ t[n] \in Nat /\ f[n] \in Nat /\ g[n] \in Nat
        /\ f[p] \in Nat /\ g[p] \in Nat /\ p \in Nat
    BY <2>1, <1>1, <1>2 DEF Below
  <2>4. IF p < n THEN t[n] + f[p] = s[n] + g[p] ELSE t[n] = s[n]
    BY <1>4
  <2>5. n # p => g[n] = f[n]
    BY <2>1
  <2> QED BY <2>2, <2>3, <2>4, <2>5
<1> HIDE DEF A
<1>5. M \in A
  BY <1>3, <1>4, SetInduction
<1> QED BY <1>1, <1>2, <1>5 DEF A, Below

LEMMA SumZero ==
  ASSUME NEW M \in Nat, NEW f \in [Below(M) -> Nat], \A p \in Below(M) : f[p] = 0
  PROVE  SumTo(M, f) = 0
<1>1. PICK s : /\ s[0] = 0 /\ SumTo(M, f) = s[M] /\ \A n \in 0..M : s[n] \in Nat
               /\ \A n \in Below(M) : s[n+1] = s[n] + f[n]
  BY SumUnfolds
<1> DEFINE A == {n \in Nat : n <= M => s[n] = 0}
<1>2. 0 \in A
  BY <1>1
<1>3. ASSUME NEW n \in Nat, n \in A PROVE n + 1 \in A
  <2> SUFFICES ASSUME n + 1 <= M PROVE s[n+1] = 0
    OBVIOUS
  <2>1. n \in Below(M)
    BY DEF Below
  <2> QED BY <2>1, <1>1, <1>3
<1> HIDE DEF A
<1>4. M \in A
  BY <1>2, <1>3, SetInduction
<1> QED BY <1>1, <1>4 DEF A

\* Only one summand is not zero.
LEMMA SumSingle ==
  ASSUME NEW M \in Nat, NEW f \in [Below(M) -> Nat], NEW p \in Below(M),
         \A q \in Below(M) : q # p => f[q] = 0
  PROVE  SumTo(M, f) = f[p]
<1> DEFINE z == [q \in Below(M) |-> 0]
<1>1. z \in [Below(M) -> Nat] /\ z[p] = 0
  OBVIOUS
<1>2. \A q \in Below(M) : q # p => f[q] = z[q]
  OBVIOUS
<1>3. SumTo(M, z) = 0
  <2>1. \A q \in Below(M) : z[q] = 0
    OBVIOUS
  <2> HIDE DEF z
  <2> QED BY <1>1, <2>1, SumZero
<1> HIDE DEF z
<1>4. SumTo(M, f) + z[p] = SumTo(M, z) + f[p]
  BY <1>1, <1>2, SumUpdate
<1> QED BY <1>1, <1>3, <1>4, SumType

\* No summand exceeds the sum.
LEMMA SumMember ==
  ASSUME NEW M \in Nat, NEW f \in [Below(M) -> Nat], NEW p \in Below(M)
  PROVE  f[p] <= SumTo(M, f)
<1> DEFINE g == [f EXCEPT ![p] = 0]
<1>1. g \in [Below(M) -> Nat] /\ g[p] = 0 /\ \A q \in Below(M) : q # p => g[q] = f[q]
  OBVIOUS
<1> HIDE DEF g
<1>2. SumTo(M, g) + f[p] = SumTo(M, f) + g[p]
  BY <1>1, SumUpdate
<1> QED BY <1>1, <1>2, SumType

-----------------------------------------------------------------------------
(***************************************************************************)
(* Regions of a ring of M slots.  A region of n slots that starts at s is  *)
(* described by how far it lies behind a reference slot sp: the slots at   *)
(* distances b-n+1 to b from sp, where b is the distance from s to sp.     *)
(* Regions given by their distances are compared by linear arithmetic.     *)
(***************************************************************************)
\* The n slots from s on.
Region(M, s, n) == {(s + i) % M : i \in 0..(n-1)}

\* How many slots after x the slot sp comes, going round; M for sp itself.
Dist(M, sp, x) == IF x < sp THEN sp - x ELSE sp + M - x

\* The slots behind sp at distances from+1 to to.
Behind(M, sp, from, to) ==
  {x \in 0..(M-1) : from < Dist(M, sp, x) /\ Dist(M, sp, x) <= to}

\* s and t are positions of the same slot, t is not ahead of a ring and a half.
Meets(M, s, t) == s = t \/ s = t + M \/ s = t + 2 * M

LEMMA DistType ==
  ASSUME NEW M \in Nat \ {0}, NEW sp \in 0..(M-1), NEW x \in 0..(M-1)
  PROVE  Dist(M, sp, x) \in 1..M
BY DEF Dist

\* Reduction modulo M of positions up to three times round.
LEMMA ModCases ==
  ASSUME NEW M \in Nat \ {0}, NEW a \in Nat, a < 3 * M
  PROVE  /\ a % M \in 0..(M-1) /\ Meets(M, a, a % M)
         /\ \A r \in 0..(M-1) : Meets(M, a, r) => a % M = r
<1>1. CASE a < M
  <2>1. a % M = a
    BY <1>1
  <2> QED BY <2>1, <1>1 DEF Meets
<1>2. CASE a >= M /\ a < 2 * M
  <2>1. a % M = a - M
    BY <1>2
  <2> QED BY <2>1, <1>2 DEF Meets
<1>3. CASE a >= 2 * M
  <2>1. a % M = a - 2 * M
    BY <1>3
  <2> QED BY <2>1, <1>3 DEF Meets
<1> QED BY <1>1, <1>2, <1>3

\* A region in terms of distances.
LEMMA RegionBehind ==
  ASSUME NEW M \in Nat \ {0}, NEW sp \in 0..(M-1),
         NEW s \in Nat, s < 2 * M, NEW b \in 0..M, NEW n \in 0..b,
         Meets(M, s + b, sp)
  PROVE  Region(M, s, n) = Behind(M, sp, b - n, b)
<1>1. ASSUME NEW i \in 0..(n-1) PROVE (s + i) % M \in Behind(M, sp, b - n, b)
  <2>1. s + i \in Nat /\ s + i < 3 * M
    OBVIOUS
  <2> DEFINE x == (s + i) % M
  <2>2. x \in 0..(M-1) /\ Meets(M, s + i, x)
    BY <2>1, ModCases
  <2> HIDE DEF x
  <2>3. Dist(M, sp, x) = b - i
    BY <2>2 DEF Dist, Meets
  <2>4. x \in Behind(M, sp, b - n, b)
    BY <2>2, <2>3 DEF Behind
  <2> QED BY <2>4 DEF x
<1>2. ASSUME NEW x \in Behind(M, sp, b - n, b)
      PROVE  \E i \in 0..(n-1) : x = (s + i) % M
  <2> DEFINE d == Dist(M, sp, x)
             i == b - d
  <2>1. x \in 0..(M-1) /\ d \in 1..M /\ b - n < d /\ d <= b
    BY DistType DEF Behind
  <2>2. i \in 0..(n-1) /\ s + i \in Nat /\ s + i < 3 * M
    BY <2>1
  <2>3. Meets(M, s + i, x)
    BY <2>1 DEF Dist, Meets
  <2>4. (s + i) % M = x
    BY <2>1, <2>2, <2>3, ModCases
  <2> QED BY <2>2, <2>4
<1> QED BY <1>1, <1>2 DEF Region

\* Regions at different distances share no slot; one whose distances are among those
\* of another is part of it.
LEMMA BehindApart ==
  ASSUME NEW M \in Nat \ {0}, NEW sp \in 0..(M-1), NEW a1 \in Int, NEW b1 \in Int,
         NEW a2 \in Int, NEW b2 \in Int, b1 <= a2 \/ b2 <= a1
  PROVE  Behind(M, sp, a1, b1) \cap Behind(M, sp, a2, b2) = {}
<1> SUFFICES ASSUME NEW x \in 0..(M-1), a1 < Dist(M, sp, x), Dist(M, sp, x) <= b1,
                    a2 < Dist(M, sp, x), Dist(M, sp, x) <= b2
             PROVE  FALSE
  BY DEF Behind
<1>1. Dist(M, sp, x) \in 1..M
  BY DistType
<1> QED BY <1>1

LEMMA BehindWithin ==
  ASSUME NEW M \in Nat \ {0}, NEW sp \in 0..(M-1), NEW a1 \in Int, NEW b1 \in Int,
         NEW a2 \in Int, NEW b2 \in Int, a2 <= a1, b1 <= b2
  PROVE  Behind(M, sp, a1, b1) \subseteq Behind(M, sp, a2, b2)
<1> SUFFICES ASSUME NEW x \in 0..(M-1), a1 < Dist(M, sp, x), Dist(M, sp, x) <= b1
             PROVE  a2 < Dist(M, sp, x) /\ Dist(M, sp, x) <= b2
  BY DEF Behind
<1>1. Dist(M, sp, x) \in 1..M
  BY DistType
<1> QED BY <1>1

\* A region without distances is empty.
LEMMA BehindNothing ==
  ASSUME NEW M \in Nat \ {0}, NEW sp \in 0..(M-1), NEW a \in Int
  PROVE  Behind(M, sp, a, a) = {}
<1>1. Behind(M, sp, a, a) \cap Behind(M, sp, a, a) = {}
  BY BehindApart
<1> QED BY <1>1

\* The number of slots from t up to sp, none when they are the same.
Gap(M, sp, t) == IF t <= sp THEN sp - t ELSE sp + M - t

LEMMA GapMeets ==
  ASSUME NEW M \in Nat \ {0}, NEW sp \in 0..(M-1), NEW t \in 0..(M-1)
  PROVE  /\ Gap(M, sp, t) \in 0..(M-1)
         /\ Meets(M, t + Gap(M, sp, t), sp)
         /\ \A k \in 0..(M-1) : Meets(M, t + k, sp) => Gap(M, sp, t) = k
BY DEF Gap, Meets

LEMMA DistMeets ==
  ASSUME NEW M \in Nat \ {0}, NEW sp \in 0..(M-1),
         NEW s \in Nat, s < 2 * M, NEW b \in 1..M, Meets(M, s + b, sp)
  PROVE  Dist(M, sp, s % M) = b
<1> DEFINE x == s % M
<1>1. x \in 0..(M-1) /\ Meets(M, s, x)
  <2>1. s < 3 * M
    OBVIOUS
  <2> QED BY <2>1, ModCases
<1> HIDE DEF x
<1>2. Dist(M, sp, x) = b
  BY <1>1 DEF Dist, Meets
<1> QED BY <1>2 DEF x

\* From l it takes t slots to v and from there n to sp.
LEMMA MeetsVia ==
  ASSUME NEW M \in Nat \ {0}, NEW l \in 0..(M-1), NEW v \in 0..(M-1),
         NEW sp \in 0..(M-1), NEW t \in 0..(M-1), NEW n \in 0..(M-1),
         Meets(M, l + t, v), Meets(M, v + n, sp)
  PROVE  Meets(M, (l + t) + n, sp)
BY DEF Meets

\* A position and its slot are as far from sp.
LEMMA MeetsSlot ==
  ASSUME NEW M \in Nat \ {0}, NEW sp \in 0..(M-1), NEW t \in 0..(M-1),
         NEW a \in Nat, NEW l \in 0..(M-1),
         Meets(M, a, t), Meets(M, a + l, sp)
  PROVE  Meets(M, t + l, sp)
BY DEF Meets

\* Moving the reference slot back by k.
LEMMA MeetsLowered ==
  ASSUME NEW M \in Nat \ {0}, NEW sp \in 0..(M-1), NEW a \in Nat, NEW k \in 0..M,
         Meets(M, a + k, sp)
  PROVE  Meets(M, a, IF sp < k THEN (sp - k) + M ELSE sp - k)
BY DEF Meets

\* A region is what its first a slots and the rest of it are.
LEMMA RegionAppend ==
  ASSUME NEW M \in Nat \ {0}, NEW s \in Nat, NEW a \in Nat, NEW b \in Nat
  PROVE  Region(M, s, a + b) = Region(M, s, a) \cup Region(M, s + a, b)
<1>1. ASSUME NEW i \in 0..((a + b) - 1)
      PROVE  \/ \E k \in 0..(a - 1) : (s + i) % M = (s + k) % M
             \/ \E k \in 0..(b - 1) : (s + i) % M = ((s + a) + k) % M
  <2>1. CASE i < a
    <3>1. i \in 0..(a - 1)
      BY <2>1
    <3> QED BY <3>1
  <2>2. CASE i >= a
    <3>1. i - a \in 0..(b - 1) /\ s + i = (s + a) + (i - a)
      BY <2>2
    <3> QED BY <3>1
  <2> QED BY <2>1, <2>2
<1>2. \A k \in 0..(a - 1) : k \in 0..((a + b) - 1)
  OBVIOUS
<1>3. \A k \in 0..(b - 1) : a + k \in 0..((a + b) - 1) /\ (s + a) + k = s + (a + k)
  OBVIOUS
<1>4. ASSUME NEW x \in Region(M, s, a + b) PROVE x \in Region(M, s, a) \cup Region(M, s + a, b)
  <2>1. PICK i \in 0..((a + b) - 1) : x = (s + i) % M
    BY DEF Region
  <2> QED BY <1>1, <2>1 DEF Region
<1>5. ASSUME NEW x \in Region(M, s, a) PROVE x \in Region(M, s, a + b)
  BY <1>2 DEF Region
<1>6. ASSUME NEW x \in Region(M, s + a, b) PROVE x \in Region(M, s, a + b)
  <2>1. PICK k \in 0..(b-1) : x = ((s + a) + k) % M
    BY DEF Region
  <2>2. a + k \in 0..((a + b) - 1) /\ x = (s + (a + k)) % M
    BY <1>3, <2>1
  <2> QED BY <2>2 DEF Region
<1> QED BY <1>4, <1>5, <1>6

LEMMA RegionSplit ==
  ASSUME NEW M \in Nat \ {0}, NEW s \in Nat, NEW c \in Nat, NEW a \in 0..c
  PROVE  Region(M, s, c) = Region(M, s, a) \cup Region(M, s + a, c - a)
<1> DEFINE b == c - a
<1>1. a \in Nat /\ b \in Nat /\ c = a + b
  OBVIOUS
<1>2. Region(M, s, a + b) = Region(M, s, a) \cup Region(M, s + a, b)
  BY <1>1, RegionAppend
<1> QED BY <1>1, <1>2

\* No slot of a region that fits in the ring comes twice.
LEMMA RegionNextApart ==
  ASSUME NEW M \in Nat \ {0}, NEW s \in Nat, s < 2 * M,
         NEW a \in Nat, NEW b \in Nat, a + b <= M, NEW u, u = s + a
  PROVE  Region(M, s, a) \cap Region(M, u, b) = {}
<1> SUFFICES Region(M, s, a) \cap Region(M, s + a, b) = {}
  OBVIOUS
<1>1. ASSUME NEW i \in 0..(a - 1), NEW k \in 0..(b - 1)
      PROVE  (s + i) % M # ((s + a) + k) % M
  <2> DEFINE x == (s + i) % M
             y == ((s + a) + k) % M
  <2>1. /\ s + i \in Nat /\ s + i < 3 * M
        /\ (s + a) + k \in Nat /\ (s + a) + k < 3 * M
    OBVIOUS
  <2>2. /\ x \in 0..(M-1) /\ Meets(M, s + i, x)
        /\ y \in 0..(M-1) /\ Meets(M, (s + a) + k, y)
    BY <2>1, ModCases
  <2> HIDE DEF x, y
  <2>3. x # y
    BY <2>2 DEF Meets
  <2> QED BY <2>3 DEF x, y
<1> QED BY <1>1 DEF Region

\* The position a region starts at may be reduced.
LEMMA RegionMeets ==
  ASSUME NEW M \in Nat \ {0}, NEW s \in Nat, s < 2 * M,
         NEW t \in 0..(M-1), Meets(M, s, t), NEW n \in 0..M
  PROVE  Region(M, s, n) = Region(M, t, n)
<1>1. ASSUME NEW i \in 0..(n - 1) PROVE (s + i) % M = (t + i) % M
  <2> DEFINE x == (t + i) % M
  <2>1. s + i \in Nat /\ s + i < 3 * M /\ t + i \in Nat /\ t + i < 3 * M
        /\ t + i < 2 * M
    OBVIOUS
  <2>2. x \in 0..(M-1) /\ Meets(M, t + i, x)
    BY <2>1, ModCases
  <2> HIDE DEF x
  <2>3. Meets(M, s + i, x)
    BY <2>1, <2>2 DEF Meets
  <2>4. (s + i) % M = x
    BY <2>1, <2>2, <2>3, ModCases
  <2> QED BY <2>4 DEF x
<1> QED BY <1>1 DEF Region

LEMMA SmallRegions ==
  ASSUME NEW M \in Nat \ {0}, NEW s \in Nat
  PROVE  Region(M, s, 0) = {} /\ Region(M, s, 1) = {s % M}
<1>1. 0..(0-1) = {} /\ 0..(1-1) = {0} /\ s + 0 = s
  OBVIOUS
<1> QED BY <1>1 DEF Region

LEMMA NonemptyRegion ==
  ASSUME NEW M \in Nat \ {0}, NEW s \in Nat, NEW n \in Nat \ {0}
  PROVE  s % M \in Region(M, s, n)
<1>1. 0 \in 0..(n-1) /\ s + 0 = s
  OBVIOUS
<1> QED BY <1>1 DEF Region
=============================================================================
