--------------------------- MODULE SawsQueueProofs ---------------------------
(***************************************************************************)
(* Theorems about SawsQueue for every ring size, number of thieves, block  *)
(* size and damping frequency the assumptions of the module allow.         *)
(***************************************************************************)
EXTENDS SawsQueue, Lemmas, FiniteSetTheorems

-----------------------------------------------------------------------------
(***************************************************************************)
(* The arithmetic of StealHalf for blocks of every size.                   *)
(***************************************************************************)
\* A steal from a nonempty block takes a task and no more than there are.
LEMMA TakeRest ==
  ASSUME NEW m \in Nat
  PROVE  /\ Take(m) \in 0..m /\ Rest(m) \in 0..m
         /\ m > 0 => Rest(m) < m
         /\ m = 0 => Rest(m) = 0
BY DEF Rest, Take

\* Left satisfies the recurrence it is defined by.
LEMMA LeftRecurrence ==
  ASSUME NEW n \in Nat
  PROVE  /\ Left(n, 0) = n
         /\ \A k \in Nat : Left(n, k) \in Nat /\ Left(n, k+1) = Rest(Left(n, k))
<1> DEFINE l[i \in Nat] == IF i = 0 THEN n ELSE Rest(l[i-1])
           F == [i \in Nat |-> [x \in Nat |-> Rest(x)]]
<1>1. F \in [Nat -> [Nat -> Nat]]
  BY TakeRest
<1>2. PICK g \in [Nat -> Nat] : g[0] = n /\ \A i \in Nat : g[i+1] = F[i][g[i]]
  <2>1. ASSUME NEW G \in [Nat -> [Nat -> Nat]]
        PROVE  \E g \in [Nat -> Nat] : g[0] = n /\ \A i \in Nat : g[i+1] = G[i][g[i]]
    BY NatRecursion
  <2> HIDE DEF F
  <2> QED BY <1>1, <2>1
<1>3. g = [i \in Nat |-> IF i = 0 THEN n ELSE Rest(g[i-1])]
  <2>1. ASSUME NEW i \in Nat, i # 0 PROVE g[i] = Rest(g[i-1])
    <3>1. i - 1 \in Nat /\ (i - 1) + 1 = i
      BY <2>1
    <3>2. g[(i-1)+1] = F[i-1][g[i-1]]
      BY <3>1, <1>2
    <3> QED BY <3>1, <3>2, <1>2
  <2> QED BY <2>1, <1>2
<1>4. l = [i \in Nat |-> IF i = 0 THEN n ELSE Rest(l[i-1])]
  BY <1>3, Zenon
<1>5. \A k : Left(n, k) = l[k]
  BY DEF Left
<1> HIDE DEF l
<1>6. l[0] = n
  BY <1>4
<1>7. \A k \in Nat : l[k+1] = Rest(l[k])
  <2> TAKE k \in Nat
  <2>1. k+1 \in Nat /\ k+1 # 0 /\ (k+1)-1 = k
    OBVIOUS
  <2> QED BY <2>1, <1>4
<1>8. \A k \in Nat : l[k] \in Nat
  <2> DEFINE A == {k \in Nat : l[k] \in Nat}
  <2>1. 0 \in A
    BY <1>6
  <2>2. \A k \in Nat : k \in A => k+1 \in A
    <3> TAKE k \in Nat
    <3>1. l[k] \in Nat => Rest(l[k]) \in Nat
      BY TakeRest
    <3> QED BY <1>7, <3>1
  <2> HIDE DEF A
  <2>3. Nat \subseteq A
    BY <2>1, <2>2, SetInduction
  <2> QED BY <2>3 DEF A
<1> QED BY <1>5, <1>6, <1>7, <1>8

\* A block loses at least one task per steal, until it is empty; so n steals
\* empty a block of n tasks.
LEMMA LeftShrinks ==
  ASSUME NEW n \in Nat, NEW k \in Nat
  PROVE  Left(n, k) \in 0..n /\ (Left(n, k) = 0 \/ Left(n, k) + k <= n)
<1> DEFINE A == {i \in Nat : /\ Left(n, i) \in 0..n
                             /\ Left(n, i) = 0 \/ Left(n, i) + i <= n}
<1>1. 0 \in A
  BY LeftRecurrence
<1>2. ASSUME NEW i \in Nat, i \in A PROVE i + 1 \in A
  <2>1. Left(n, i+1) = Rest(Left(n, i)) /\ Left(n, i) \in Nat
    BY LeftRecurrence
  <2> QED BY <2>1, <1>2, TakeRest
<1> HIDE DEF A
<1>3. Nat \subseteq A
  BY <1>1, <1>2, SetInduction
<1> QED BY <1>3 DEF A

\* The tasks taken so far are part of the block.
LEMMA StolenType ==
  ASSUME NEW n \in Nat, NEW k \in Nat
  PROVE  Stolen(n, k) \in 0..n /\ Stolen(n, k) + Left(n, k) = n
<1>1. ASSUME NEW m \in 0..n PROVE n - m \in 0..n /\ (n - m) + m = n
  OBVIOUS
<1>2. Left(n, k) \in 0..n
  BY LeftShrinks
<1>3. Stolen(n, k) = n - Left(n, k)
  BY DEF Stolen
<1> QED BY <1>1, <1>2, <1>3

\* Once a block is empty it stays empty.
LEMMA EmptyStaysEmpty ==
  ASSUME NEW n \in Nat, NEW j \in Nat, Left(n, j) = 0,
         NEW k \in Nat, k >= j
  PROVE  Left(n, k) = 0
<1> DEFINE A == {i \in Nat : Left(n, j + i) = 0}
<1>1. 0 \in A
  OBVIOUS
<1>2. ASSUME NEW i \in Nat, i \in A PROVE i + 1 \in A
  <2>1. j + i \in Nat /\ (j + i) + 1 = j + (i + 1)
    OBVIOUS
  <2>2. Left(n, (j + i) + 1) = Rest(Left(n, j + i))
    BY <2>1, LeftRecurrence
  <2> QED BY <2>1, <2>2, <1>2, TakeRest
<1> HIDE DEF A
<1>3. Nat \subseteq A
  BY <1>1, <1>2, SetInduction
<1>4. k - j \in Nat /\ j + (k - j) = k
  OBVIOUS
<1> QED BY <1>3, <1>4 DEF A

\* What a thief computes and what the owner computes agree for every block: the
\* block is empty exactly from attempt number MaxSteals on.  So every task of a
\* block can be claimed, each claim below MaxSteals gets at least one task, and
\* no later attempt gets any.
THEOREM Exhaustion ==
  ASSUME NEW n \in Nat
  PROVE  /\ MaxSteals(n) \in 0..n
         /\ \A k \in Nat : Left(n, k) = 0 <=> k >= MaxSteals(n)
<1> DEFINE E == {k \in 0..n : Left(n, k) = 0}
           P(k) == Left(n, k) = 0 /\ \A j \in 0..(k-1) : Left(n, j) # 0
<1>1. PICK m \in E : \A k \in E : m <= k
  <2>1. n \in E
    BY LeftShrinks
  <2>2. E \in SUBSET Nat
    OBVIOUS
  <2> HIDE DEF E
  <2> QED BY <2>1, <2>2, LeastElement
<1>2. P(m)
  <2> SUFFICES ASSUME NEW j \in 0..(m-1), Left(n, j) = 0 PROVE FALSE
    BY <1>1
  <2>1. j \in E /\ j < m
    OBVIOUS
  <2> QED BY <2>1, <1>1
<1>3. \E k \in 0..n : P(k)
  BY <1>1, <1>2
<1>4. MaxSteals(n) \in 0..n /\ P(MaxSteals(n))
  <2> DEFINE c == CHOOSE k \in 0..n : P(k)
  <2>1. MaxSteals(n) = c
    BY DEF MaxSteals
  <2> HIDE DEF P
  <2>2. c \in 0..n /\ P(c)
    BY <1>3
  <2> QED BY <2>1, <2>2
<1>5. ASSUME NEW k \in Nat PROVE Left(n, k) = 0 <=> k >= MaxSteals(n)
  <2>1. CASE k >= MaxSteals(n)
    BY <2>1, <1>4, EmptyStaysEmpty
  <2>2. CASE k < MaxSteals(n)
    <3>1. k \in 0..(MaxSteals(n) - 1)
      BY <2>2, <1>4
    <3> QED BY <3>1, <2>2, <1>4
  <2> QED BY <2>1, <2>2, <1>4
<1> QED BY <1>4, <1>5

\* A steal halves what it finds, rounded up, and never leaves the last task.
LEMMA RestHalves ==
  ASSUME NEW x \in Nat, NEW y \in Nat, y > 0
  PROVE  /\ x <= 2 * y => Rest(x) <= y
         /\ x > 2 * y => Rest(x) > y
<1>1. CASE x = 1
  BY <1>1 DEF Rest, Take
<1>2. CASE x # 1
  <2>1. Rest(x) = x - (x \div 2)
    BY <1>2 DEF Rest, Take
  <2> QED BY <2>1
<1> QED BY <1>1, <1>2

\* After j of m + 1 steals a block is within a power of two, or above it, as it
\* was to begin with.
LEMMA LeftHalves ==
  ASSUME NEW n \in Nat, NEW m \in Nat, NEW j \in 0..m
  PROVE  Left(n, j) <= Pow2[m - j] <=> n <= Pow2[m]
<1> DEFINE A == {i \in Nat : i <= m => (Left(n, i) <= Pow2[m - i] <=> n <= Pow2[m])}
<1>1. 0 \in A
  <2>1. Left(n, 0) = n /\ m - 0 = m
    BY LeftRecurrence
  <2> QED BY <2>1
<1>2. ASSUME NEW i \in Nat, i \in A PROVE i + 1 \in A
  <2> SUFFICES ASSUME i + 1 <= m
               PROVE  Left(n, i+1) <= Pow2[m - (i+1)] <=> n <= Pow2[m]
    OBVIOUS
  <2>1. m - (i+1) \in Nat /\ (m - (i+1)) + 1 = m - i
    OBVIOUS
  <2> DEFINE y == Pow2[m - (i+1)]
             x == Left(n, i)
  <2>2. y \in Nat /\ y > 0 /\ Pow2[m - i] = 2 * y
    <3>1. Pow2[(m - (i+1)) + 1] = 2 * y /\ y \in Nat /\ y > 0
      BY <2>1, PowersDouble
    <3> QED BY <3>1, <2>1
  <2>3. x \in Nat /\ Left(n, i+1) = Rest(x)
    BY LeftRecurrence
  <2>4. x <= Pow2[m - i] <=> n <= Pow2[m]
    BY <1>2
  <2> HIDE DEF x, y
  <2>5. Rest(x) \in Nat
    BY <2>3, TakeRest
  <2>6. Rest(x) <= y <=> x <= 2 * y
    BY <2>2, <2>3, <2>5, RestHalves
  <2>7. Left(n, i+1) <= y <=> n <= Pow2[m]
    BY <2>2, <2>3, <2>4, <2>6
  <2> QED BY <2>7 DEF y
<1> HIDE DEF A
<1>3. Nat \subseteq A
  BY <1>1, <1>2, SetInduction
<1> QED BY <1>3 DEF A

\* The number of steals is one more than the logarithm of the block, rounded
\* up: a block of at most 2^m tasks, and no larger one, takes at most m + 1 steals.
\* So a block that fits into the 19 bits of itasks takes at most 20, and the 22
\* entries of the status array (SAWS_MAX_STEALS_PER_EPOCH) suffice.
THEOREM LogarithmicSteals ==
  ASSUME NEW n \in Nat
  PROVE  /\ \A m \in Nat : MaxSteals(n) <= m + 1 <=> n <= Pow2[m]
         /\ n < 524288 => MaxSteals(n) <= 20
<1>1. ASSUME NEW m \in Nat PROVE MaxSteals(n) <= m + 1 <=> n <= Pow2[m]
  <2>1. Left(n, m) <= 1 <=> n <= Pow2[m]
    <3>1. m \in 0..m /\ m - m = 0
      OBVIOUS
    <3> QED BY <3>1, LeftHalves, PowersDouble
  <2>2. Left(n, m) \in Nat /\ Left(n, m+1) = Rest(Left(n, m))
    BY LeftRecurrence
  <2>3. ASSUME NEW x \in Nat PROVE Rest(x) = 0 <=> x <= 1
    BY DEF Rest, Take
  <2>4. Left(n, m+1) = 0 <=> MaxSteals(n) <= m + 1
    <3>1. m + 1 \in Nat
      OBVIOUS
    <3>2. MaxSteals(n) \in Nat /\ (Left(n, m+1) = 0 <=> m + 1 >= MaxSteals(n))
      BY <3>1, Exhaustion
    <3> QED BY <3>1, <3>2
  <2> QED BY <2>1, <2>2, <2>3, <2>4
<1>2. Pow2[19] = 524288
  <2>1. Pow2[1] = 2 /\ Pow2[2] = 4 /\ Pow2[3] = 8 /\ Pow2[4] = 16 /\ Pow2[5] = 32
    <3>1. \A i \in {0, 1, 2, 3, 4} : Pow2[i+1] = 2 * Pow2[i]
      BY PowersDouble
    <3> QED BY <3>1, PowersDouble
  <2>2. Pow2[6] = 64 /\ Pow2[7] = 128 /\ Pow2[8] = 256 /\ Pow2[9] = 512 /\ Pow2[10] = 1024
    <3>1. \A i \in {5, 6, 7, 8, 9} : Pow2[i+1] = 2 * Pow2[i]
      BY PowersDouble
    <3> QED BY <3>1, <2>1
  <2>3. Pow2[11] = 2048 /\ Pow2[12] = 4096 /\ Pow2[13] = 8192 /\ Pow2[14] = 16384 /\ Pow2[15] = 32768
    <3>1. \A i \in {10, 11, 12, 13, 14} : Pow2[i+1] = 2 * Pow2[i]
      BY PowersDouble
    <3> QED BY <3>1, <2>2
  <2>4. Pow2[16] = 65536 /\ Pow2[17] = 131072 /\ Pow2[18] = 262144 /\ Pow2[19] = 524288
    <3>1. \A i \in {15, 16, 17, 18} : Pow2[i+1] = 2 * Pow2[i]
      BY PowersDouble
    <3> QED BY <3>1, <2>3
  <2> QED BY <2>4
<1>3. n < 524288 => MaxSteals(n) <= 20
  <2>1. 19 \in Nat /\ 19 + 1 = 20
    OBVIOUS
  <2>2. MaxSteals(n) <= 19 + 1 <=> n <= Pow2[19]
    BY <2>1, <1>1
  <2> QED BY <2>1, <2>2, <1>2
<1> QED BY <1>1, <1>3

\* The owner's shares: it releases and reacquires at least half, and never more
\* than there is.
LEMMA OwnerShares ==
  ASSUME NEW m \in Nat
  PROVE  /\ Released(m) \in 0..m /\ 2 * Released(m) <= m + 1
         /\ Reacquired(m) \in 0..m /\ (m > 0 => Reacquired(m) > 0)
BY DEF Released, Reacquired

-----------------------------------------------------------------------------
(***************************************************************************)
(* Arithmetic of the ring and of the blocks.                               *)
(***************************************************************************)
LEMMA ModSlot ==
  ASSUME NEW a \in Nat
  PROVE  a % MaxSize \in Slots
BY SizeAssumption DEF Slots

LEMMA BlockSlots ==
  ASSUME NEW start \in Nat, NEW n \in Nat
  PROVE  Block(start, n) \subseteq Slots
<1> SUFFICES ASSUME NEW i \in 0..(n-1) PROVE (start + i) % MaxSize \in Slots
  BY DEF Block
<1>1. start + i \in Nat
  OBVIOUS
<1> QED BY <1>1, ModSlot

\* The shared part never has a negative size, whatever the tail.
LEMMA SharedSizeType ==
  ASSUME split \in Slots, NEW t \in Slots
  PROVE  SharedSize(t) \in Nat
BY SizeAssumption DEF SharedSize, Slots

\* Half of the largest local part fits in the ring.
LEMMA BlockBounds ==
  /\ MaxLocal \in Nat /\ MaxBlock \in 0..MaxSize
  /\ \A n \in 0..MaxLocal : Released(n) \in 0..MaxBlock /\ Released(n) <= n
BY SizeAssumption DEF MaxLocal, MaxBlock, Released

\* A block can be emptied within the completion array, and asteals counts the
\* claims on it and a vain attempt of every thief without wrapping around.
LEMMA StealsFit ==
  ASSUME NEW n \in 0..MaxBlock
  PROVE  /\ MaxSteals(n) \in 0..MaxStealsPerEpoch
         /\ MaxSteals(n) + Cardinality(Thieves) < AStealsMod
<1>1. n \in Nat
  BY BlockBounds
<1> QED BY <1>1, Exhaustion, WidthAssumption

LEMMA EpochType ==
  ASSUME NEW n \in 0..MaxBlock, NEW t \in Slots
  PROVE  Epoch(n, t) \in Completions
<1>1. MaxSteals(n) \in 0..MaxStealsPerEpoch
  BY StealsFit
<1>2. [i \in Indices |-> 0] \in [Indices -> Nat]
  OBVIOUS
<1> QED BY <1>1, <1>2 DEF Epoch, Completions

\* What is unclaimed of a block, what a thief takes of it and what the owner
\* takes back of it are parts of the block.
LEMMA SharesType ==
  ASSUME NEW n \in 0..MaxBlock, NEW k \in Nat
  PROVE  /\ Left(n, k) \in 0..n
         /\ Stolen(n, k) \in 0..n /\ Stolen(n, k) + Left(n, k) = n
         /\ Take(Left(n, k)) \in 0..n
         /\ Reacquired(Left(n, k)) \in 0..Left(n, k)
         /\ Left(n, k) > 0 <=> k < MaxSteals(n)
         /\ Reacquired(Left(n, k)) > 0 <=> Left(n, k) > 0
<1>1. n \in Nat
  BY BlockBounds
<1>2. Left(n, k) \in 0..n
  BY <1>1, LeftShrinks
<1>3. Take(Left(n, k)) \in 0..Left(n, k)
  BY <1>2, <1>1, TakeRest
<1>4. /\ Reacquired(Left(n, k)) \in 0..Left(n, k)
      /\ Left(n, k) > 0 => Reacquired(Left(n, k)) > 0
  BY <1>2, <1>1, OwnerShares
<1>5. Left(n, k) = 0 <=> k >= MaxSteals(n)
  BY <1>1, Exhaustion
<1>6. MaxSteals(n) \in Nat
  BY <1>1, Exhaustion
<1>7. Stolen(n, k) \in 0..n /\ Stolen(n, k) + Left(n, k) = n
  BY <1>1, StolenType
<1> QED BY <1>1, <1>2, <1>3, <1>4, <1>5, <1>6, <1>7

-----------------------------------------------------------------------------
(***************************************************************************)
(* The completion array.                                                   *)
(***************************************************************************)
LEMMA IndexFacts ==
  /\ MaxStealsPerEpoch \in Nat \ {0}
  /\ \A k \in 0..MaxStealsPerEpoch : k # 0 => k - 1 \in Indices
BY WidthAssumption DEF Indices

\* The sums the owner forms over a completion array satisfy their recurrence.
LEMMA CopiedByRecurrence ==
  ASSUME NEW e \in Epochs, completed \in [Epochs -> Completions]
  PROVE  /\ CopiedBy(e, 0) = 0
         /\ \A n \in 0..MaxStealsPerEpoch : CopiedBy(e, n) \in Nat
         /\ \A n \in Indices :
              CopiedBy(e, n + 1) = CopiedBy(e, n) + completed[e].status[n]
<1> DEFINE N == MaxStealsPerEpoch
           st == completed[e].status
           s[k \in 0..N] == IF k = 0 THEN 0 ELSE s[k-1] + st[k-1]
           F == [i \in Nat |-> [x \in Nat |-> IF i < N THEN x + st[i] ELSE x]]
<1>1. st \in [Indices -> Nat]
  BY DEF Completions
<1>2. F \in [Nat -> [Nat -> Nat]]
  <2> SUFFICES ASSUME NEW i \in Nat, NEW x \in Nat, i < N PROVE x + st[i] \in Nat
    OBVIOUS
  <2>1. i \in Indices
    BY IndexFacts DEF Indices
  <2> HIDE DEF st
  <2> QED BY <1>1, <2>1
<1>3. PICK g \in [Nat -> Nat] : g[0] = 0 /\ \A i \in Nat : g[i+1] = F[i][g[i]]
  <2>1. ASSUME NEW G \in [Nat -> [Nat -> Nat]]
        PROVE  \E g \in [Nat -> Nat] : g[0] = 0 /\ \A i \in Nat : g[i+1] = G[i][g[i]]
    BY NatRecursion
  <2> HIDE DEF F
  <2> QED BY <1>2, <2>1
<1> HIDE DEF st
<1>4. \A i \in Indices : g[i+1] = g[i] + st[i]
  <2> TAKE i \in Indices
  <2>1. i \in Nat /\ i < N
    BY IndexFacts DEF Indices
  <2>2. g[i] \in Nat
    BY <2>1, <1>3
  <2>3. F[i][g[i]] = g[i] + st[i]
    BY <2>1, <2>2
  <2> HIDE DEF F
  <2> QED BY <2>1, <2>3, <1>3
<1> DEFINE h == [k \in 0..N |-> g[k]]
<1>5. h = [k \in 0..N |-> IF k = 0 THEN 0 ELSE h[k-1] + st[k-1]]
  <2>1. ASSUME NEW k \in 0..N, k # 0 PROVE g[k] = h[k-1] + st[k-1]
    <3>1. k - 1 \in Indices /\ (k - 1) + 1 = k /\ k - 1 \in 0..N
      BY <2>1, IndexFacts
    <3>2. g[(k-1)+1] = g[k-1] + st[k-1]
      BY <3>1, <1>4
    <3> QED BY <3>1, <3>2
  <2> QED BY <2>1, <1>3
<1>6. s = [k \in 0..N |-> IF k = 0 THEN 0 ELSE s[k-1] + st[k-1]]
  BY <1>5, Zenon
<1>7. \A n : CopiedBy(e, n) = s[n]
  BY DEF CopiedBy, st
<1> HIDE DEF s, h, F
<1>8. s[0] = 0
  BY <1>6, IndexFacts
<1>9. \A n \in Indices : s[n+1] = s[n] + st[n]
  <2> TAKE n \in Indices
  <2>1. n + 1 \in 0..N /\ n + 1 # 0 /\ (n + 1) - 1 = n
    BY IndexFacts DEF Indices
  <2> QED BY <2>1, <1>6
<1>10. \A n \in 0..N : s[n] \in Nat
  <2> DEFINE A == {n \in Nat : n <= N => s[n] \in Nat}
  <2>1. 0 \in A
    BY <1>8
  <2>2. ASSUME NEW n \in Nat, n \in A PROVE n + 1 \in A
    <3> SUFFICES ASSUME n + 1 <= N PROVE s[n+1] \in Nat
      OBVIOUS
    <3>1. n \in Indices /\ n <= N
      BY IndexFacts DEF Indices
    <3>2. st[n] \in Nat
      BY <3>1, <1>1
    <3> QED BY <3>1, <3>2, <2>2, <1>9
  <2> HIDE DEF A
  <2>3. Nat \subseteq A
    BY <2>1, <2>2, SetInduction
  <2> QED BY <2>3, IndexFacts DEF A
<1> QED BY <1>7, <1>8, <1>9, <1>10 DEF st

\* The owner's scan stops at the first steal under way.
LEMMA CompletedType ==
  ASSUME NEW e \in Epochs, completed \in [Epochs -> Completions]
  PROVE  /\ Completed(e) \in 0..completed[e].maxsteals
         /\ \A k \in 0..(Completed(e) - 1) : completed[e].status[k] # 0
         /\ \/ Completed(e) = completed[e].maxsteals
            \/ completed[e].status[Completed(e)] = 0
<1> DEFINE m == completed[e].maxsteals
           st == completed[e].status
           P(n) == /\ \A k \in 0..(n-1) : st[k] # 0
                   /\ n = m \/ st[n] = 0
           T == {n \in 0..m : n = m \/ st[n] = 0}
<1>1. m \in Nat
  BY IndexFacts DEF Completions
<1>2. PICK n \in T : \A k \in T : n <= k
  <2>1. m \in T /\ T \in SUBSET Nat
    BY <1>1
  <2> HIDE DEF T
  <2> QED BY <2>1, LeastElement
<1>3. n \in 0..m /\ P(n)
  <2>1. ASSUME NEW k \in 0..(n-1), st[k] = 0 PROVE FALSE
    <3>1. k \in T /\ k < n
      BY <2>1, <1>1
    <3> QED BY <3>1, <1>2
  <2> QED BY <2>1
<1>4. Completed(e) = CHOOSE i \in 0..m : P(i)
  BY DEF Completed
<1>5. \E i \in 0..m : P(i)
  BY <1>3
<1> HIDE DEF P
<1>6. Completed(e) \in 0..m /\ P(Completed(e))
  BY <1>4, <1>5
<1> QED BY <1>6 DEF P

LEMMA StatusType ==
  ASSUME NEW e \in Epochs, completed \in [Epochs -> Completions]
  PROVE  StatusSum(e) \in Nat /\ StatusPrefix(e) \in Nat
<1>1. completed[e].maxsteals \in 0..MaxStealsPerEpoch
  BY DEF Completions
<1>2. Completed(e) \in 0..MaxStealsPerEpoch
  BY <1>1, CompletedType, IndexFacts
<1> QED BY <1>1, <1>2, CopiedByRecurrence DEF StatusSum, StatusPrefix

-----------------------------------------------------------------------------
(***************************************************************************)
(* Type correctness.  That nlocal stays below MaxLocal needs an invariant: *)
(* between two pushes that look for space, ReclaimFreq-1 others do not.    *)
(***************************************************************************)
LocalBound ==
  opc = "aborted" \/
    nlocal <= MaxSize + (IF ccPush = 0 THEN ReclaimFreq - 1 ELSE ccPush - 1)

TypeInv == TypeOK /\ LocalBound

LEMMA ReclaimSpaceType ==
  ASSUME TypeOK
  PROVE  /\ ReclaimSpace.tail \in Slots
         /\ ReclaimSpace.completed \in [Epochs -> Completions]
<1>1. cur \in Epochs /\ Last \in Epochs /\ cur # Last
  BY DEF TypeOK, Epochs, Last
<1>2. completed \in [Epochs -> Completions] /\ tail \in Slots
  BY DEF TypeOK
<1>3. StatusPrefix(cur) \in Nat /\ StatusSum(Last) \in Nat
  BY <1>1, <1>2, StatusType
<1>4. completed[cur].vtail \in Slots
  BY <1>1, <1>2 DEF Completions
<1>5. (completed[cur].vtail + StatusPrefix(cur)) % MaxSize \in Slots
  <2>1. completed[cur].vtail + StatusPrefix(cur) \in Nat
    BY <1>3, <1>4 DEF Slots
  <2> QED BY <2>1, ModSlot
<1>6. ReclaimSpace.tail \in Slots
  BY <1>2, <1>4, <1>5 DEF ReclaimSpace
<1>7. ASSUME NEW d \in BOOLEAN, NEW c \in BOOLEAN
      PROVE  [completed EXCEPT ![Last].done = d, ![cur].done = @ \/ c]
               \in [Epochs -> Completions]
  <2>1. [completed[Last] EXCEPT !.done = d] \in Completions
    BY <1>1, <1>2 DEF Completions
  <2>2. [completed[cur] EXCEPT !.done = completed[cur].done \/ c] \in Completions
    <3>1. ASSUME NEW b \in BOOLEAN
          PROVE  [completed[cur] EXCEPT !.done = b] \in Completions
      <4>1. completed[cur] \in Completions
        BY <1>1, <1>2
      <4> QED BY <4>1 DEF Completions
    <3>2. (completed[cur].done \/ c) \in BOOLEAN
      OBVIOUS
    <3> QED BY <3>1, <3>2
  <2> QED BY <2>1, <2>2, <1>1, <1>2
<1>8. ReclaimSpace.completed \in [Epochs -> Completions]
  <2> DEFINE old     == completed[Last]
             pending == ~old.done /\ \E i \in 0..(old.maxsteals-1) : old.status[i] = 0
             d       == old.done \/ (~pending /\ StatusSum(Last) = old.itasks)
             c       == StatusPrefix(cur) = completed[cur].itasks
  <2>1. old.done \in BOOLEAN
    BY <1>1, <1>2 DEF Completions
  <2>2. d \in BOOLEAN /\ c \in BOOLEAN
    BY <2>1
  <2>3. \/ ReclaimSpace.completed = completed
        \/ ReclaimSpace.completed
             = [completed EXCEPT ![Last].done = d, ![cur].done = @ \/ c]
    BY DEF ReclaimSpace
  <2> HIDE DEF d, c
  <2>4. [completed EXCEPT ![Last].done = d, ![cur].done = @ \/ c] \in [Epochs -> Completions]
    BY <2>2, <1>7
  <2>5. completed \in [Epochs -> Completions]
    BY <1>2
  <2> QED BY <2>3, <2>4, <2>5
<1> QED BY <1>6, <1>8

LEMMA EnsureSpaceType ==
  ASSUME TypeOK, NEW n \in Nat
  PROVE  /\ EnsureSpace(n).tail \in Slots
         /\ EnsureSpace(n).completed \in [Epochs -> Completions]
BY ReclaimSpaceType DEF EnsureSpace, TypeOK

LEMMA StoreType ==
  ASSUME TypeOK, NEW n \in Nat, Store(n)
  PROVE  q' \subseteq Slots /\ nlocal' = nlocal + n
<1>1. split + nlocal \in Nat
  BY BlockBounds DEF TypeOK, Slots
<1> QED BY <1>1, BlockSlots DEF Store, TypeOK

\* A push that makes sure of its space leaves the local part inside the ring.
LEMMA PushEnsuredType ==
  ASSUME TypeOK, NEW n \in Nat, PushEnsured(n), split' = split
  PROVE  /\ tail' \in Slots /\ completed' \in [Epochs -> Completions]
         /\ q' \subseteq Slots
         /\ \/ opc' = "idle" /\ nlocal' \in 0..MaxSize
            \/ opc' = "aborted" /\ nlocal' = nlocal
<1> DEFINE t == EnsureSpace(n).tail
<1>1. t \in Slots /\ EnsureSpace(n).completed \in [Epochs -> Completions]
  BY EnsureSpaceType
<1>2. tail' = t /\ completed' = EnsureSpace(n).completed
  BY DEF PushEnsured
<1>3. SharedSize(t) \in Nat
  BY <1>1, SharedSizeType DEF TypeOK
<1>4. CASE HasSpace(t, n)
  <2>1. Store(n) /\ opc' = "idle"
    BY <1>4 DEF PushEnsured
  <2>2. nlocal' = nlocal + n /\ q' \subseteq Slots
    BY <2>1, StoreType
  <2>3. nlocal \in Nat
    BY BlockBounds DEF TypeOK
  <2>4. nlocal + n <= MaxSize
    BY <1>3, <1>4, <2>3, SizeAssumption DEF HasSpace
  <2> QED BY <1>1, <1>2, <2>1, <2>2, <2>3, <2>4, SizeAssumption
<1>5. CASE ~HasSpace(t, n)
  <2>1. opc' = "aborted" /\ UNCHANGED <<q, nlocal>>
    BY <1>5 DEF PushEnsured
  <2> QED BY <1>1, <1>2, <2>1 DEF TypeOK
<1> QED BY <1>4, <1>5

LEMMA InitType == Init => TypeInv
<1> SUFFICES ASSUME Init PROVE TypeInv
  OBVIOUS
<1>1. MaxSize \in Nat \ {0} /\ ReclaimFreq \in Nat \ {0} /\ 0 \in Slots
  BY SizeAssumption DEF Slots
<1>2. completed \in [Epochs -> Completions]
  BY <1>1, BlockBounds, IndexFacts DEF Init, NoEpochs, Completions, Epochs
<1>3. stealval \in StealValues /\ snap \in StealValues
  BY <1>1, BlockBounds, WidthAssumption DEF Init, NoSteals, StealValues
<1>4. claim \in [Thieves -> Claims]
  BY BlockBounds, IndexFacts DEF Init, NoClaim, Claims, Epochs, Indices
<1>5. TypeOK
  BY <1>1, <1>2, <1>3, <1>4, BlockBounds DEF Init, TypeOK, Epochs
<1>6. LocalBound
  BY <1>1 DEF Init, LocalBound
<1> QED BY <1>5, <1>6 DEF TypeInv

LEMMA PushType ==
  ASSUME TypeInv, Push
  PROVE  TypeInv'
<1>1. CASE PushHead
  <2>0. ccPush \in 0..(ReclaimFreq-1) /\ ReclaimFreq \in 1..MaxSize /\ MaxSize \in Nat
    BY SizeAssumption DEF TypeInv, TypeOK
  <2>1. /\ ccPush' \in 0..(ReclaimFreq-1)
        /\ ccPush' = IF ccPush = ReclaimFreq - 1 THEN 0 ELSE ccPush + 1
    BY <1>1, <2>0 DEF PushHead
  <2>2. CASE ccPush = 0
    <3>1. PushEnsured(1) /\ split' = split
      BY <1>1, <2>2 DEF PushHead
    <3>2. /\ tail' \in Slots /\ completed' \in [Epochs -> Completions]
          /\ q' \subseteq Slots
          /\ \/ opc' = "idle" /\ nlocal' \in 0..MaxSize
             \/ opc' = "aborted" /\ nlocal' = nlocal
      BY <3>1, PushEnsuredType DEF TypeInv
    <3>3. nlocal' \in 0..MaxLocal
      BY <3>2, <2>0 DEF TypeInv, TypeOK, MaxLocal
    <3>4. TypeOK'
      BY <1>1, <2>1, <3>2, <3>3 DEF PushHead, TypeInv, TypeOK, thiefVars
    <3>5. LocalBound'
      BY <2>0, <2>1, <3>2 DEF LocalBound
    <3> QED BY <3>4, <3>5 DEF TypeInv
  <2>3. CASE ccPush # 0
    <3>1. opc = "idle" /\ Store(1) /\ UNCHANGED <<tail, completed, opc>>
      BY <1>1, <2>3 DEF PushHead
    <3>2. q' \subseteq Slots /\ nlocal' = nlocal + 1
      BY <3>1, StoreType DEF TypeInv
    <3>3. nlocal \in 0..MaxLocal /\ nlocal <= MaxSize + (ccPush - 1)
      BY <3>1, <2>3 DEF TypeInv, TypeOK, LocalBound
    <3>4. nlocal' \in 0..MaxLocal /\ LocalBound'
      BY <2>0, <2>1, <2>3, <3>2, <3>3, BlockBounds DEF LocalBound, MaxLocal
    <3>5. TypeOK'
      BY <1>1, <2>1, <3>1, <3>2, <3>4 DEF PushHead, TypeInv, TypeOK, thiefVars
    <3> QED BY <3>4, <3>5 DEF TypeInv
  <2> QED BY <2>2, <2>3
<1>2. ASSUME NEW n \in 1..MaxPush, PushNHead(n) PROVE TypeInv'
  <2>0. ccPush \in 0..(ReclaimFreq-1) /\ ReclaimFreq \in 1..MaxSize /\ MaxSize \in Nat
    BY SizeAssumption DEF TypeInv, TypeOK
  <2>1. PushEnsured(n) /\ split' = split /\ n \in Nat
    BY <1>2, SizeAssumption DEF PushNHead
  <2>2. /\ tail' \in Slots /\ completed' \in [Epochs -> Completions]
        /\ q' \subseteq Slots
        /\ \/ opc' = "idle" /\ nlocal' \in 0..MaxSize
           \/ opc' = "aborted" /\ nlocal' = nlocal
    BY <2>1, PushEnsuredType DEF TypeInv
  <2>3. nlocal' \in 0..MaxLocal
    BY <2>2, <2>0 DEF TypeInv, TypeOK, MaxLocal
  <2>4. TypeOK'
    BY <1>2, <2>2, <2>3 DEF PushNHead, TypeInv, TypeOK, thiefVars
  <2>5. LocalBound'
    BY <1>2, <2>0, <2>2 DEF LocalBound, PushNHead
  <2> QED BY <2>4, <2>5 DEF TypeInv
<1> QED BY <1>1, <1>2 DEF Push

\* Taking local tasks away keeps the bound on them.
LEMMA FewerLocal ==
  ASSUME TypeInv, opc = "idle", nlocal' \in 0..nlocal, ccPush' = ccPush
  PROVE  nlocal' \in 0..MaxLocal /\ LocalBound'
<1>1. /\ nlocal \in 0..MaxLocal /\ MaxLocal \in Nat /\ MaxSize \in Nat
      /\ ReclaimFreq \in Nat /\ ccPush \in Nat
      /\ nlocal <= MaxSize + (IF ccPush = 0 THEN ReclaimFreq - 1 ELSE ccPush - 1)
  BY BlockBounds, SizeAssumption DEF TypeInv, TypeOK, LocalBound
<1> QED BY <1>1 DEF LocalBound

LEMMA HandType ==
  ASSUME TypeOK, NEW w \in Workers, NEW S \in SUBSET Slots
  PROVE  [hand EXCEPT ![w] = S] \in [Workers -> SUBSET Slots]
BY DEF TypeOK

LEMMA PopExecuteType ==
  ASSUME TypeInv, PopHead \/ Execute
  PROVE  TypeInv'
<1>1. Owner \in Workers
  BY DEF Workers
<1>2. CASE PopHead
  <2>1. nlocal' \in 0..nlocal /\ opc = "idle" /\ opc' = opc /\ ccPush' = ccPush
    BY <1>2, BlockBounds DEF PopHead, TypeInv, TypeOK
  <2>2. Head \in Slots
    <3>1. split + nlocal - 1 \in Nat
      BY <1>2, BlockBounds DEF PopHead, TypeInv, TypeOK, Slots
    <3> QED BY <3>1, ModSlot DEF Head
  <2>3. hand' \in [Workers -> SUBSET Slots]
    BY <1>1, <1>2, <2>2, HandType DEF PopHead, TypeInv
  <2>4. nlocal' \in 0..MaxLocal /\ LocalBound'
    BY <2>1, FewerLocal
  <2>5. TypeOK'
    BY <1>2, <2>3, <2>4 DEF PopHead, TypeInv, TypeOK, thiefVars
  <2> QED BY <2>4, <2>5 DEF TypeInv
<1>3. CASE Execute
  <2>1. hand' \in [Workers -> SUBSET Slots]
    BY <1>1, <1>3, HandType DEF Execute, TypeInv
  <2>2. TypeOK'
    BY <1>3, <2>1 DEF Execute, TypeInv, TypeOK, ownerVars, thiefVars
  <2>3. LocalBound'
    BY <1>3 DEF Execute, TypeInv, LocalBound, ownerVars
  <2> QED BY <2>2, <2>3 DEF TypeInv
<1> QED BY <1>2, <1>3

\* An epoch the owner installs is advertised by a well-formed steal value.
LEMMA AdvertiseType ==
  ASSUME NEW e \in Epochs, NEW n \in 0..MaxBlock, NEW t \in Slots
  PROVE  [asteals |-> 0, valid |-> e, itasks |-> n, tail |-> t] \in StealValues
<1>1. 0 \in 0..(AStealsMod-1) /\ e \in 0..3
  BY WidthAssumption DEF Epochs
<1> QED BY <1>1 DEF StealValues

LEMMA ProgressType ==
  ASSUME TypeInv, Progress \/ ProgressReclaim
  PROVE  TypeInv'
<1>1. CASE Progress
  <2>1. opc = "idle" /\ ccPush' = ccPush /\ opc' \in {"idle", "reclaim"}
    BY <1>1 DEF Progress
  <2>2. ccProg' \in 0..(ReclaimFreq-1)
    <3>1. ccProg' = (ccProg + 1) % ReclaimFreq
      BY <1>1 DEF Progress
    <3> QED BY <3>1, SizeAssumption DEF TypeInv, TypeOK
  <2>3. /\ nlocal' \in 0..nlocal /\ split' \in Slots
        /\ completed' \in [Epochs -> Completions] /\ stealval' \in StealValues
    <3>1. CASE UNCHANGED <<nlocal, split, completed, stealval>>
      BY <3>1, BlockBounds DEF TypeInv, TypeOK
    <3>2. CASE ~UNCHANGED <<nlocal, split, completed, stealval>>
      <4> DEFINE n == Released(nlocal)
      <4>1. /\ nlocal' = nlocal - n /\ split' = (split + n) % MaxSize
            /\ completed' = [completed EXCEPT ![cur] = Epoch(n, tail)]
            /\ stealval' = [asteals |-> 0, valid |-> cur, itasks |-> n, tail |-> tail]
        BY <1>1, <3>2 DEF Progress, Release
      <4>2. /\ nlocal \in 0..MaxLocal /\ cur \in Epochs /\ tail \in Slots
            /\ split \in Slots /\ completed \in [Epochs -> Completions]
        BY DEF TypeInv, TypeOK
      <4>3. n \in 0..MaxBlock /\ n <= nlocal
        BY <4>2, BlockBounds
      <4> HIDE DEF n
      <4>4. split' \in Slots /\ nlocal' \in 0..nlocal
        <5>1. split + n \in Nat
          BY <4>2, <4>3, BlockBounds DEF Slots
        <5> QED BY <4>1, <4>2, <4>3, <5>1, ModSlot, BlockBounds
      <4>5. completed' \in [Epochs -> Completions]
        BY <4>1, <4>2, <4>3, EpochType
      <4>6. stealval' \in StealValues
        BY <4>1, <4>2, <4>3, AdvertiseType
      <4> QED BY <4>4, <4>5, <4>6
    <3> QED BY <3>1, <3>2
  <2>4. nlocal' \in 0..MaxLocal /\ LocalBound'
    BY <2>1, <2>3, FewerLocal
  <2>5. TypeOK'
    BY <1>1, <2>1, <2>2, <2>3, <2>4 DEF Progress, TypeInv, TypeOK, thiefVars
  <2> QED BY <2>4, <2>5 DEF TypeInv
<1>2. CASE ProgressReclaim
  <2>1. /\ ReclaimSpace.tail \in Slots
        /\ ReclaimSpace.completed \in [Epochs -> Completions]
    BY ReclaimSpaceType DEF TypeInv
  <2>2. TypeOK'
    BY <1>2, <2>1 DEF ProgressReclaim, TypeInv, TypeOK, thiefVars
  <2>3. LocalBound'
    BY <1>2 DEF ProgressReclaim, TypeInv, LocalBound
  <2> QED BY <2>2, <2>3 DEF TypeInv
<1> QED BY <1>1, <1>2

LEMMA ReacquireBeginType ==
  ASSUME TypeInv, ReacquireBegin
  PROVE  TypeInv'
<1>1. stealval' \in StealValues
  <2>1. stealval \in StealValues /\ stealval.valid \in 0..3
    BY DEF TypeInv, TypeOK, StealValues
  <2>2. (IF stealval.valid < Disable THEN stealval.valid + Disable
                                     ELSE stealval.valid) \in 0..3
    BY <2>1 DEF Disable
  <2>3. stealval' = [stealval EXCEPT !.valid =
                       IF stealval.valid < Disable THEN stealval.valid + Disable
                                                   ELSE stealval.valid]
    BY DEF ReacquireBegin
  <2> QED BY <2>1, <2>2, <2>3 DEF StealValues
<1>2. TypeOK'
  BY <1>1 DEF ReacquireBegin, TypeInv, TypeOK, thiefVars
<1>3. LocalBound'
  BY DEF ReacquireBegin, TypeInv, LocalBound
<1> QED BY <1>2, <1>3 DEF TypeInv

\* The block the owner keeps advertised and the tasks it takes back are well
\* formed, and it made no more claims possible than the completion array holds.
LEMMA ReacquireSomeType ==
  ASSUME TypeInv, snap.itasks \in 0..MaxBlock,
         NEW left, left = Left(snap.itasks, snap.asteals),
         Reacquired(left) > 0, ReacquireSome(left)
  PROVE  /\ split' \in Slots /\ nlocal' \in 0..MaxSize /\ cur' \in Epochs
         /\ tail' \in Slots /\ completed' \in [Epochs -> Completions]
         /\ stealval' \in StealValues /\ q' \subseteq Slots
         /\ hand' \in [Workers -> SUBSET Slots]
<1> DEFINE amount == Reacquired(left)
           stolen == snap.itasks - left
           old    == completed[cur]
           vtail  == (old.vtail + stolen) % MaxSize
           copied == old.vtail + StatusPrefix(cur)
           head   == (split' + amount - 1) % MaxSize
<1>1. snap.asteals \in Nat /\ snap.itasks \in 0..MaxBlock /\ MaxBlock \in 0..MaxSize
  BY BlockBounds, WidthAssumption DEF TypeInv, TypeOK, StealValues
<1>2. /\ left \in 0..snap.itasks /\ amount \in 0..left /\ amount > 0
      /\ snap.asteals < MaxSteals(snap.itasks)
  BY <1>1, SharesType
<1> HIDE DEF amount
<1>3. left - amount \in 0..MaxBlock /\ stolen \in 0..MaxBlock /\ stolen \in Nat
      /\ amount \in 0..MaxSize
  BY <1>1, <1>2, SizeAssumption
<1>4. snap.asteals \in 0..MaxStealsPerEpoch
  <2>1. MaxSteals(snap.itasks) \in 0..MaxStealsPerEpoch
    BY <1>1, StealsFit
  <2> QED BY <1>1, <1>2, <2>1, IndexFacts
<1>5. /\ cur \in Epochs /\ Last \in Epochs /\ cur # Last
      /\ completed \in [Epochs -> Completions] /\ old \in Completions
      /\ old.vtail \in Slots /\ tail \in Slots /\ split \in Slots
  BY DEF TypeInv, TypeOK, Epochs, Last, Completions
<1>6. vtail \in Slots
  <2>1. old.vtail + stolen \in Nat
    BY <1>3, <1>5 DEF Slots
  <2> QED BY <2>1, ModSlot
<1>7. Epoch(left - amount, vtail) \in Completions
  BY <1>3, <1>6, EpochType
<1>8. /\ split' = Lowered(amount) /\ cur' = Last /\ nlocal' = amount - 1
      /\ tail' = IF copied > tail THEN copied % MaxSize ELSE tail
      /\ completed' = [completed EXCEPT ![cur].itasks = stolen,
                                        ![cur].maxsteals = snap.asteals,
                                        ![Last] = Epoch(left - amount, vtail)]
      /\ stealval' = [asteals |-> 0, valid |-> Last, itasks |-> left - amount,
                      tail |-> vtail]
      /\ q' = q \ {head} /\ hand' = [hand EXCEPT ![Owner] = {head}]
  BY DEF ReacquireSome, Epoch, amount
<1>9. split' \in Slots
  BY <1>3, <1>5, <1>8, SizeAssumption DEF Lowered, Slots
<1>10. tail' \in Slots
  <2>1. copied \in Nat
    BY <1>5, StatusType DEF Slots
  <2> QED BY <1>5, <1>8, <2>1, ModSlot
<1>11. completed' \in [Epochs -> Completions]
  <2>1. [old EXCEPT !.itasks = stolen, !.maxsteals = snap.asteals] \in Completions
    BY <1>3, <1>4, <1>5 DEF Completions
  <2>2. completed' = [completed EXCEPT
                        ![cur] = [old EXCEPT !.itasks = stolen,
                                             !.maxsteals = snap.asteals],
                        ![Last] = Epoch(left - amount, vtail)]
    BY <1>5, <1>8
  <2> QED BY <1>5, <1>7, <2>1, <2>2
<1>12. stealval' \in StealValues
  BY <1>3, <1>5, <1>6, <1>8, AdvertiseType
<1>13. q' \subseteq Slots /\ hand' \in [Workers -> SUBSET Slots]
  <2>1. split' + amount - 1 \in Nat
    <3>1. amount \in Nat /\ amount > 0
      BY <1>2, <1>3
    <3>2. split' \in Nat
      BY <1>9 DEF Slots
    <3>3. amount - 1 \in Nat
      BY <3>1
    <3> QED BY <3>2, <3>3
  <2>2. head \in Slots
    BY <2>1, ModSlot
  <2>3. Owner \in Workers
    BY DEF Workers
  <2> QED BY <1>8, <2>2, <2>3, HandType DEF TypeInv, TypeOK
<1>14. nlocal' \in 0..MaxSize
  BY <1>2, <1>3, <1>8, SizeAssumption
<1> QED BY <1>5, <1>8, <1>9, <1>10, <1>11, <1>12, <1>13, <1>14

LEMMA ReacquireFinishType ==
  ASSUME TypeInv, ReacquireFinish
  PROVE  TypeInv'
<1> DEFINE left == Left(snap.itasks, snap.asteals)
<1>1. /\ snap \in StealValues /\ snap.itasks \in 0..MaxBlock /\ snap.asteals \in Nat
      /\ cur \in Epochs /\ tail \in Slots /\ ccPush \in 0..(ReclaimFreq-1)
  BY WidthAssumption DEF TypeInv, TypeOK, StealValues
<1>2. snap' \in StealValues
  BY BlockBounds, SizeAssumption, WidthAssumption
     DEF ReacquireFinish, NoSteals, StealValues, Slots
<1>3. opc' = "idle" /\ UNCHANGED <<ccPush, ccProg, pc, target, claim>>
  BY DEF ReacquireFinish, thiefVars
<1>4. CASE Reacquired(left) > 0
  <2>1. ReacquireSome(left)
    BY <1>4 DEF ReacquireFinish
  <2>2. /\ split' \in Slots /\ nlocal' \in 0..MaxSize /\ cur' \in Epochs
        /\ tail' \in Slots /\ completed' \in [Epochs -> Completions]
        /\ stealval' \in StealValues /\ q' \subseteq Slots
        /\ hand' \in [Workers -> SUBSET Slots]
    BY <1>1, <1>4, <2>1, ReacquireSomeType
  <2>3. nlocal' \in 0..MaxLocal /\ LocalBound'
    BY <1>1, <1>3, <2>2, SizeAssumption DEF MaxLocal, LocalBound
  <2>4. TypeOK'
    BY <1>2, <1>3, <2>2, <2>3 DEF TypeInv, TypeOK
  <2> QED BY <2>3, <2>4 DEF TypeInv
<1>5. CASE ~(Reacquired(left) > 0)
  <2>1. ReacquireNothing
    BY <1>5 DEF ReacquireFinish
  <2>2. stealval' \in StealValues
    BY <1>1, <2>1, BlockBounds, AdvertiseType DEF ReacquireNothing
  <2>3. TypeOK'
    BY <1>2, <1>3, <2>1, <2>2 DEF ReacquireNothing, TypeInv, TypeOK
  <2>4. LocalBound'
    BY <1>3, <2>1 DEF ReacquireFinish, ReacquireNothing, TypeInv, LocalBound
  <2> QED BY <2>3, <2>4 DEF TypeInv
<1> QED BY <1>4, <1>5

\* What a thief claims is well formed: in particular its index lies inside the
\* completion array.
LEMMA FetchAddType ==
  ASSUME TypeInv, NEW th \in Thieves, FetchAdd(th)
  PROVE  TypeInv'
<1>1. /\ stealval \in StealValues /\ stealval.asteals \in 0..(AStealsMod-1)
      /\ stealval.asteals \in Nat
      /\ stealval.valid \in 0..3 /\ stealval.itasks \in 0..MaxBlock
      /\ stealval.tail \in Slots
  BY WidthAssumption DEF TypeInv, TypeOK, StealValues
<1>2. stealval' \in StealValues
  <2>1. (stealval.asteals + 1) % AStealsMod \in 0..(AStealsMod-1)
    BY <1>1, WidthAssumption
  <2>2. stealval' = [stealval EXCEPT !.asteals = (stealval.asteals + 1) % AStealsMod]
    BY DEF FetchAdd
  <2> QED BY <1>1, <2>1, <2>2 DEF StealValues
<1>3. CASE Enabled(stealval) /\ ~Exhausted(stealval)
  <2> DEFINE c == Share(stealval)
  <2>1. stealval.valid \in Epochs
    BY <1>1, <1>3 DEF Enabled, Disable, Epochs
  <2>2. stealval.asteals \in Indices
    <3>1. MaxSteals(stealval.itasks) \in 0..MaxStealsPerEpoch
      BY <1>1, StealsFit
    <3>2. stealval.asteals < MaxSteals(stealval.itasks)
      BY <1>1, <1>3, <3>1, IndexFacts DEF Exhausted
    <3> QED BY <1>1, <3>1, <3>2, IndexFacts DEF Indices
  <2>3. /\ Take(Left(stealval.itasks, stealval.asteals)) \in 0..MaxBlock
        /\ stealval.tail + Stolen(stealval.itasks, stealval.asteals) \in Nat
    <3>1. /\ Take(Left(stealval.itasks, stealval.asteals)) \in 0..stealval.itasks
          /\ Stolen(stealval.itasks, stealval.asteals) \in 0..stealval.itasks
      BY <1>1, SharesType
    <3> QED BY <1>1, <3>1, BlockBounds, SizeAssumption DEF Slots
  <2>4. c \in Claims
    BY <2>1, <2>2, <2>3 DEF Share, Claims
  <2>5. claim' = [claim EXCEPT ![th] = c] /\ pc' = [pc EXCEPT ![th] = "copy"]
        /\ UNCHANGED target
    BY <1>3 DEF FetchAdd
  <2> HIDE DEF c
  <2>6. TypeOK'
    BY <1>2, <2>4, <2>5 DEF FetchAdd, TypeInv, TypeOK, ownerVars
  <2> QED BY <2>6 DEF FetchAdd, TypeInv, LocalBound, ownerVars
<1>4. CASE ~(Enabled(stealval) /\ ~Exhausted(stealval))
  <2>1. target' = Demoted(th) /\ pc' = [pc EXCEPT ![th] = "idle"] /\ UNCHANGED claim
    BY <1>4 DEF FetchAdd
  <2>2. target' \in [Thieves -> {"full", "empty"}]
    BY <2>1 DEF TypeInv, TypeOK, Demoted
  <2>3. TypeOK'
    BY <1>2, <2>1, <2>2 DEF FetchAdd, TypeInv, TypeOK, ownerVars
  <2> QED BY <2>3 DEF FetchAdd, TypeInv, LocalBound, ownerVars
<1> QED BY <1>3, <1>4

LEMMA StealType ==
  ASSUME TypeInv, NEW th \in Thieves, Steal(th)
  PROVE  TypeInv'
<1>1. th \in Workers
  BY DEF Workers
<1>2. CASE FetchAdd(th)
  BY <1>2, FetchAddType
<1>3. CASE Fetch(th)
  BY <1>3 DEF Fetch, TypeInv, TypeOK, LocalBound, ownerVars
<1>4. CASE Copy(th)
  <2>1. Block(claim[th].start, claim[th].n) \subseteq Slots
    <3>1. claim[th].start \in Nat /\ claim[th].n \in Nat
      BY BlockBounds DEF TypeInv, TypeOK, Claims
    <3> QED BY <3>1, BlockSlots
  <2>2. hand' \in [Workers -> SUBSET Slots]
    BY <1>1, <1>4, <2>1, HandType DEF Copy, TypeInv
  <2>3. TypeOK'
    BY <1>4, <2>2 DEF Copy, TypeInv, TypeOK, ownerVars
  <2> QED BY <1>4, <2>3 DEF Copy, TypeInv, LocalBound, ownerVars
<1>5. CASE Complete(th)
  <2> DEFINE e == claim[th].epoch
             i == claim[th].index
             v == completed[e].status[i] + claim[th].n
  <2>1. /\ e \in Epochs /\ i \in Indices /\ claim[th].n \in Nat
        /\ completed \in [Epochs -> Completions]
    BY BlockBounds DEF TypeInv, TypeOK, Claims
  <2>2. completed' \in [Epochs -> Completions]
    <3>1. completed[e] \in Completions /\ completed[e].status \in [Indices -> Nat]
      BY <2>1 DEF Completions
    <3>2. v \in Nat
      BY <2>1, <3>1
    <3>3. completed' = [completed EXCEPT ![e].status[i] = v]
      BY <1>5 DEF Complete
    <3> HIDE DEF v
    <3>4. [completed[e].status EXCEPT ![i] = v] \in [Indices -> Nat]
      BY <3>1, <3>2
    <3>5. [completed[e] EXCEPT !.status = [completed[e].status EXCEPT ![i] = v]]
            \in Completions
      BY <3>1, <3>4 DEF Completions
    <3> QED BY <2>1, <3>3, <3>5
  <2>3. hand' \in [Workers -> SUBSET Slots]
    BY <1>1, <1>5, HandType DEF Complete, TypeInv
  <2>4. claim' \in [Thieves -> Claims]
    <3>1. NoClaim \in Claims
      BY BlockBounds, IndexFacts DEF NoClaim, Claims, Epochs, Indices
    <3> QED BY <1>5, <3>1 DEF Complete, TypeInv, TypeOK
  <2>5. TypeOK'
    BY <1>5, <2>2, <2>3, <2>4 DEF Complete, TypeInv, TypeOK, ownerVars
  <2> QED BY <1>5, <2>5 DEF Complete, TypeInv, LocalBound, ownerVars
<1> QED BY <1>2, <1>3, <1>4, <1>5 DEF Steal

LEMMA ResetType ==
  ASSUME TypeInv, Reset
  PROVE  TypeInv'
<1>1. 0 \in Slots /\ 0 \in Epochs
  BY SizeAssumption DEF Slots, Epochs
<1>2. completed' \in [Epochs -> Completions]
  BY <1>1, BlockBounds, IndexFacts DEF Reset, NoEpochs, Completions, Epochs
<1>3. stealval' \in StealValues
  BY <1>1, BlockBounds, WidthAssumption DEF Reset, NoSteals, StealValues
<1>4. nlocal' \in 0..MaxLocal /\ LocalBound'
  <2>1. nlocal' \in 0..nlocal
    BY BlockBounds DEF Reset, TypeInv, TypeOK
  <2> QED BY <2>1, FewerLocal DEF Reset
<1>5. TypeOK'
  BY <1>1, <1>2, <1>3, <1>4 DEF Reset, TypeInv, TypeOK
<1> QED BY <1>4, <1>5 DEF TypeInv

LEMMA NextType == TypeInv /\ [Next]_vars => TypeInv'
<1> SUFFICES ASSUME TypeInv, [Next]_vars PROVE TypeInv'
  OBVIOUS
<1>1. CASE OwnerNext
  BY <1>1, PushType, PopExecuteType, ProgressType, ReacquireBeginType,
     ReacquireFinishType DEF OwnerNext
<1>2. CASE Reset
  BY <1>2, ResetType
<1>3. ASSUME NEW th \in Thieves, Steal(th) PROVE TypeInv'
  BY <1>3, StealType
<1>4. CASE UNCHANGED vars
  BY <1>4 DEF vars, ownerVars, thiefVars, TypeInv, TypeOK, LocalBound
<1> QED BY <1>1, <1>2, <1>3, <1>4 DEF Next

\* The queue never leaves its types: every position stays in the ring, every
\* volume stays below half of what the owner can have, no claim indexes past the
\* completion array, and the local part exceeds the ring by no more than the
\* pushes that damping lets in.
THEOREM TypeCorrect == Spec => []TypeOK
<1>1. TypeInv => TypeOK
  BY DEF TypeInv
<1> QED BY <1>1, InitType, NextType, PTL DEF Spec

-----------------------------------------------------------------------------
(***************************************************************************)
(* Damping.  The bound on asteals is inductive together with the types: an *)
(* attempt on an exhausted block leaves its thief among those that believe *)
(* the queue empty, and a thief leaves them only while the block is not    *)
(* exhausted, that is while asteals is below MaxSteals.                    *)
(***************************************************************************)
Discouraged == {th \in Thieves : target[th] = "empty"}

LEMMA DiscouragedType ==
  /\ IsFiniteSet(Discouraged) /\ Cardinality(Discouraged) \in Nat
  /\ Cardinality(Discouraged) <= Cardinality(Thieves)
<1>1. Discouraged \subseteq Thieves
  BY DEF Discouraged
<1> QED BY <1>1, WorkersAssumption, FS_Subset, FS_CardinalityType

\* A steal value just installed or turned off satisfies the bound.
LEMMA FreshValue ==
  ASSUME TypeInv', stealval'.asteals = 0 \/ ~Enabled(stealval')
  PROVE  AStealsBounded'
<1>1. stealval'.itasks \in 0..MaxBlock
  BY DEF TypeInv, TypeOK, StealValues
<1>2. MaxSteals(stealval'.itasks) \in Nat
  BY <1>1, StealsFit, IndexFacts
<1>3. Cardinality(Discouraged)' \in Nat
  <2>1. Discouraged' \subseteq Thieves
    BY DEF Discouraged
  <2> QED BY <2>1, WorkersAssumption, FS_Subset, FS_CardinalityType
<1>4. ASSUME Enabled(stealval')
      PROVE  stealval'.asteals <= MaxSteals(stealval'.itasks) + Cardinality(Discouraged)'
  BY <1>1, <1>2, <1>3, <1>4
<1> QED BY <1>4 DEF AStealsBounded, Discouraged, Enabled

LEMMA NextDamped ==
  ASSUME TypeInv, TypeInv', AStealsBounded, [Next]_vars
  PROVE  AStealsBounded'
<1> DEFINE D == Cardinality(Discouraged)
           M == MaxSteals(stealval.itasks)
<1>1. /\ stealval.asteals \in Nat /\ stealval.asteals < AStealsMod
      /\ AStealsMod \in Nat /\ M \in Nat /\ M + Cardinality(Thieves) < AStealsMod
  <2>1. /\ stealval.asteals \in 0..(AStealsMod-1) /\ stealval.itasks \in 0..MaxBlock
        /\ stealval = [stealval EXCEPT !.asteals = stealval.asteals]
    BY DEF TypeInv, TypeOK, StealValues
  <2>2. M \in 0..MaxStealsPerEpoch /\ M + Cardinality(Thieves) < AStealsMod
    BY <2>1, StealsFit
  <2> QED BY <2>1, <2>2, WidthAssumption
<1>2. D \in Nat
  BY DiscouragedType
<1>3. Enabled(stealval) => stealval.asteals <= M + D
  BY DEF AStealsBounded, Discouraged
<1>4. CASE UNCHANGED <<stealval, target>>
  BY <1>4 DEF AStealsBounded, Enabled
<1>5. CASE OwnerNext
  <2>1. CASE Push \/ PopHead \/ Execute \/ ProgressReclaim
    BY <1>4, <2>1 DEF Push, PushHead, PushNHead, PopHead, Execute, ProgressReclaim,
                      thiefVars
  <2>2. CASE Progress
    <3>1. CASE UNCHANGED stealval
      BY <1>4, <2>2, <3>1 DEF Progress, thiefVars
    <3>2. CASE ~UNCHANGED stealval
      <4>1. stealval' = [asteals |-> 0, valid |-> cur, itasks |-> Released(nlocal),
                         tail |-> tail]
        BY <2>2, <3>2 DEF Progress, Release
      <4> QED BY <4>1, FreshValue
    <3> QED BY <3>1, <3>2
  <2>3. CASE ReacquireBegin
    <3>1. stealval \in StealValues /\ stealval.valid \in 0..3
      BY DEF TypeInv, TypeOK, StealValues
    <3>2. ~Enabled(stealval')
      BY <2>3, <3>1 DEF ReacquireBegin, Enabled, Disable, StealValues
    <3> QED BY <3>2, FreshValue
  <2>4. CASE ReacquireFinish
    <3>1. stealval'.asteals = 0
      BY <2>4 DEF ReacquireFinish, ReacquireSome, ReacquireNothing
    <3> QED BY <3>1, FreshValue
  <2> QED BY <1>5, <2>1, <2>2, <2>3, <2>4 DEF OwnerNext
<1>6. CASE Reset
  <2>1. ~Enabled(stealval')
    BY <1>6 DEF Reset, NoSteals, Enabled, Disable
  <2> QED BY <2>1, FreshValue
<1>7. ASSUME NEW th \in Thieves, FetchAdd(th) PROVE AStealsBounded'
  <2>1. /\ stealval \in StealValues
        /\ stealval' = [stealval EXCEPT !.asteals = (stealval.asteals + 1) % AStealsMod]
    BY <1>7 DEF FetchAdd, TypeInv, TypeOK
  <2>2. /\ stealval'.asteals = (stealval.asteals + 1) % AStealsMod
        /\ stealval'.valid = stealval.valid /\ stealval'.itasks = stealval.itasks
    BY <2>1 DEF StealValues
  <2>3. (stealval.asteals + 1) % AStealsMod <= stealval.asteals + 1
    BY <1>1
  <2>4. CASE ~Enabled(stealval)
    BY <2>2, <2>4, FreshValue DEF Enabled
  <2>5. CASE Enabled(stealval) /\ ~Exhausted(stealval)
    <3>1. target' = target /\ stealval.asteals + 1 <= M
      BY <1>1, <1>7, <2>5 DEF FetchAdd, Exhausted
    <3>2. stealval'.asteals <= M + D
      <4>1. (stealval.asteals + 1) % AStealsMod \in Nat
        BY <1>1
      <4> QED BY <1>1, <1>2, <2>2, <2>3, <3>1, <4>1
    <3> QED BY <2>2, <3>1, <3>2 DEF AStealsBounded, Discouraged
  <2>6. CASE Enabled(stealval) /\ Exhausted(stealval)
    <3>1. target[th] = "full" /\ target' = [target EXCEPT ![th] = "empty"]
      BY <1>7, <2>6 DEF FetchAdd, Demoted
    <3>2. Discouraged' = Discouraged \cup {th} /\ th \notin Discouraged
      BY <3>1 DEF Discouraged, TypeInv, TypeOK
    <3>3. Cardinality(Discouraged') = D + 1
      BY <3>2, DiscouragedType, FS_AddElement
    <3>4. stealval'.asteals <= M + (D + 1)
      <4>1. (stealval.asteals + 1) % AStealsMod \in Nat
        BY <1>1
      <4> QED BY <1>1, <1>2, <1>3, <2>2, <2>3, <2>6, <4>1
    <3> QED BY <2>2, <3>3, <3>4 DEF AStealsBounded, Discouraged
  <2> QED BY <2>4, <2>5, <2>6
<1>8. ASSUME NEW th \in Thieves, Fetch(th) PROVE AStealsBounded'
  <2>1. stealval' = stealval /\ stealval.asteals < M
    BY <1>1, <1>8 DEF Fetch, Exhausted
  <2>2. Cardinality(Discouraged)' \in Nat
    <3>1. Discouraged' \subseteq Thieves
      BY DEF Discouraged
    <3> QED BY <3>1, WorkersAssumption, FS_Subset, FS_CardinalityType
  <2>3. stealval.asteals <= M + Cardinality(Discouraged)'
    BY <1>1, <2>1, <2>2
  <2> QED BY <2>1, <2>3 DEF AStealsBounded, Discouraged
<1>9. ASSUME NEW th \in Thieves, Copy(th) \/ Complete(th) PROVE AStealsBounded'
  BY <1>4, <1>9 DEF Copy, Complete
<1>10. CASE UNCHANGED vars
  BY <1>4, <1>10 DEF vars, thiefVars
<1> QED BY <1>5, <1>6, <1>7, <1>8, <1>9, <1>10 DEF Next, Steal

\* However many thieves keep trying, an advertised block sees at most its
\* MaxSteals claims and one vain attempt of each thief.
THEOREM Damping == Spec => []AStealsBounded
<1>1. Init => AStealsBounded
  BY DEF Init, NoSteals, AStealsBounded, Enabled, Disable
<1>2. TypeInv /\ TypeInv' /\ AStealsBounded /\ [Next]_vars => AStealsBounded'
  BY NextDamped
<1> QED BY <1>1, <1>2, InitType, NextType, PTL DEF Spec
=============================================================================
