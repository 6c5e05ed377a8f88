--------------------------- MODULE SdcQueueProofs ---------------------------
(***************************************************************************)
(* The safety of the SDC queue, and that it implements a pool of tasks,    *)
(* for every ring size and number of thieves, provided the network orders  *)
(* a put and the store that follows it (OrderedComms) and the program      *)
(* never makes the ring exactly full (~MayFill).  The runs sdc_unordered   *)
(* and sdc_full show that neither can be left out.                         *)
(*                                                                         *)
(* Regions of the ring are described by their distance behind the split,   *)
(* as for the SAWS queue.  What makes the tails meet is a count: itail     *)
(* trails the tail by the number of slots whose claims are not completed,  *)
(* corrected by a whole turn when the last slot of the ring is among them. *)
(* They are fewer than a turn, so they are none when itail = tail.  The    *)
(* value of itail the owner read some time ago trails the tail of now by   *)
(* a set of slots that holds all these, and possibly others.               *)
(***************************************************************************)
EXTENDS SdcQueue, Lemmas, FiniteSetTheorems

\* The thieves under way whose reservation has been performed: the tail is behind
\* their claims.
Settled == {th \in InFlight : \A m \in wire : m.part = "both" => m.from # th}

\* The slots of their claims.
Taken == UNION {Reserved(th) : th \in Settled}

\* How far a claim starts behind the split.
Back(th) == Distance(claim[th].start, split)

\* The slots from the virtual tail to the tail.
Past == Behind(MaxSize, split, SharedSize, PublicSize)

\* The counter i is as far behind the tail t as there are slots in C.
Trails(i, t, C) ==
  i = (t - Cardinality(C)) + (IF MaxSize - 1 \in C THEN MaxSize ELSE 0)

\* The processes in the critical section.
Holders == {th \in Thieves : pc[th] = "locked"}
           \cup (IF opc \in {"inPush", "inPop"} THEN {Owner} ELSE {})

\* One process is inside, or has left and its store is on the way, or nobody is.
MutexInv ==
  /\ \A a \in Holders : \A b \in Holders : a = b
  /\ Holders # {} => lock = "locked" /\ wire = {}
  /\ wire # {} => lock = "locked"
  /\ \A m1 \in wire : \A m2 \in wire : m1 = m2

\* A new tail on its way ends the claim of the thief that sent it, which starts at
\* the tail and has not been copied.
WireInv ==
  \A m \in wire :
    /\ m.part \in {"unlock", "both"}
    /\ m.part = "both" => /\ m.from \in Thieves /\ pc[m.from] = "copy"
                          /\ claim[m.from].start = tail
                          /\ claim[m.from].n \in 1..SharedSize
                          /\ m.tail = (tail + claim[m.from].n) % MaxSize

\* The ring is never full, and the space a push waits for will be there.
OwnerInv ==
  /\ SharedSize <= PublicSize
  /\ nlocal + PublicSize < MaxSize
  /\ opc \in {"lockPop", "inPop"} => nlocal = 0 /\ hand[Owner] = {}
  /\ opc \in {"lockPush", "inPush"} =>
       \/ (nlocal + SharedSize) + want < MaxSize
       \/ nlocal + want > MaxSize

\* Claims lie between the virtual tail and the split, those that are performed
\* behind the tail, and one claim ends before the other starts.
ClaimInv ==
  /\ \A th \in InFlight : claim[th].n \in 1..Back(th) /\ Back(th) <= PublicSize
  /\ \A th \in Settled : SharedSize <= Back(th) - claim[th].n
  /\ \A th \in InFlight : \A other \in InFlight \ {th} :
       \/ Back(other) <= Back(th) - claim[th].n
       \/ Back(th) <= Back(other) - claim[other].n

\* The counter, and the value the owner has read from it.
TailInv ==
  /\ Trails(itail, tail, Taken)
  /\ opc = "compare" => \E C \in SUBSET Past : Taken \subseteq C /\ Trails(seen, tail, C)

\* A thief has tasks in hand from the copy to the completion.
HandInv ==
  \A th \in Thieves : hand[th] = IF pc[th] = "complete" THEN Reserved(th) ELSE {}

IInv == /\ TypeOK /\ MutexInv /\ WireInv /\ OwnerInv
        /\ ClaimInv /\ TailInv /\ HandInv

-----------------------------------------------------------------------------
(***************************************************************************)
(* Numbers.                                                                *)
(***************************************************************************)
LEMMA SizeFacts == /\ MaxSize \in Nat /\ MaxSize >= 2 /\ MaxPush \in 1..MaxSize
                   /\ Slots = 0..(MaxSize-1) /\ MaxSize \in Nat \ {0}
BY SizeAssumption DEF Slots

\* Half of a number, rounded up.
LEMMA HalfUpFacts ==
  ASSUME NEW n \in Nat
  PROVE  HalfUp(n) \in 0..n /\ (n > 0 => HalfUp(n) > 0)
BY DEF HalfUp

\* The number of slots between two positions, and how it changes when one of them
\* moves by k.
LEMMA DistanceFacts ==
  ASSUME NEW a \in Slots, NEW b \in Slots
  PROVE  /\ Distance(a, b) \in 0..(MaxSize-1)
         /\ Meets(MaxSize, a + Distance(a, b), b)
         /\ \A k \in 0..(MaxSize-1) : Meets(MaxSize, a + k, b) => Distance(a, b) = k
         /\ a # b => Distance(a, b) > 0 /\ Dist(MaxSize, b, a) = Distance(a, b)
BY SizeFacts DEF Distance, Meets, Dist

LEMMA DistanceType ==
  ASSUME NEW a \in Slots, NEW b \in Slots
  PROVE  /\ a \in Nat /\ b \in Nat /\ a < MaxSize /\ b < MaxSize
         /\ Distance(a, b) \in Nat /\ Distance(a, b) < MaxSize
BY SizeFacts DEF Distance

LEMMA DistanceAhead ==
  ASSUME NEW a \in Slots, NEW b \in Slots, NEW k \in Nat, Distance(a, b) + k < MaxSize
  PROVE  (b + k) % MaxSize \in Slots /\ Distance(a, (b + k) % MaxSize) = Distance(a, b) + k
<1> DEFINE c == (b + k) % MaxSize
<1>1. b + k \in Nat /\ b + k < 3 * MaxSize /\ Distance(a, b) \in Nat
  <2>1. b \in Nat /\ b < MaxSize /\ Distance(a, b) \in Nat
    BY DistanceType
  <2> HIDE DEF c
  <2> QED BY <2>1, SizeFacts
<1>2. c \in 0..(MaxSize-1) /\ Meets(MaxSize, b + k, c)
  BY <1>1, SizeFacts, ModCases
<1> HIDE DEF c
<1>3. Distance(a, c) = Distance(a, b) + k
  BY <1>2, SizeFacts DEF Distance, Meets
<1> QED BY <1>2, <1>3, SizeFacts DEF c

LEMMA DistanceLowered ==
  ASSUME NEW a \in Slots, split \in Slots, NEW k \in 0..Distance(a, split)
  PROVE  /\ Lowered(k) \in Slots /\ Distance(a, Lowered(k)) = Distance(a, split) - k
BY SizeFacts DEF Distance, Lowered

LEMMA DistanceShorter ==
  ASSUME NEW a \in Slots, NEW b \in Slots, NEW k \in 0..Distance(a, b)
  PROVE  (a + k) % MaxSize \in Slots /\ Distance((a + k) % MaxSize, b) = Distance(a, b) - k
<1> DEFINE c == (a + k) % MaxSize
<1>1. a + k \in Nat /\ a + k < 3 * MaxSize
  <2>1. a \in Nat /\ a < MaxSize /\ Distance(a, b) \in Nat /\ Distance(a, b) < MaxSize
    BY DistanceType
  <2> HIDE DEF c
  <2> QED BY <2>1, SizeFacts
<1>2. c \in 0..(MaxSize-1) /\ Meets(MaxSize, a + k, c)
  BY <1>1, SizeFacts, ModCases
<1> HIDE DEF c
<1>3. Distance(c, b) = Distance(a, b) - k
  BY <1>2, SizeFacts DEF Distance, Meets
<1> QED BY <1>2, <1>3, SizeFacts DEF c

-----------------------------------------------------------------------------
(***************************************************************************)
(* Regions and their sizes.                                                *)
(***************************************************************************)
\* A block in terms of distances behind a slot sp.
LEMMA BlockBehind ==
  ASSUME NEW sp \in Slots, NEW s \in Nat, s < 2 * MaxSize,
         NEW b \in 0..MaxSize, NEW n \in 0..b, Meets(MaxSize, s + b, sp)
  PROVE  Block(s, n) = Behind(MaxSize, sp, b - n, b)
<1>1. Region(MaxSize, s, n) = Behind(MaxSize, sp, b - n, b)
  BY SizeFacts, RegionBehind
<1> QED BY <1>1 DEF Block, Region

\* A block that starts at a slot and ends at or before sp.
LEMMA SlotBlock ==
  ASSUME NEW sp \in Slots, NEW s \in Slots, NEW n \in 0..Distance(s, sp)
  PROVE  /\ Block(s, n) = Behind(MaxSize, sp, Distance(s, sp) - n, Distance(s, sp))
         /\ Block(s, n) \subseteq Slots
<1>1. /\ s \in Nat /\ s < 2 * MaxSize /\ Distance(s, sp) \in 0..MaxSize
      /\ Meets(MaxSize, s + Distance(s, sp), sp)
  <2>1. Meets(MaxSize, s + Distance(s, sp), sp)
    BY DistanceFacts
  <2>2. s \in Nat /\ s < MaxSize /\ Distance(s, sp) \in Nat /\ Distance(s, sp) < MaxSize
    BY DistanceType
  <2> QED BY <2>1, <2>2, SizeFacts
<1>2. Block(s, n) = Behind(MaxSize, sp, Distance(s, sp) - n, Distance(s, sp))
  BY <1>1, BlockBehind
<1> QED BY <1>2, SizeFacts DEF Behind

\* The size of a block shorter than the ring, and whether it holds the last slot.
LEMMA BlockSize ==
  ASSUME NEW s \in Slots, NEW n \in 1..(MaxSize-1)
  PROVE  /\ Block(s, n) \subseteq Slots
         /\ IsFiniteSet(Block(s, n)) /\ Cardinality(Block(s, n)) = n
         /\ MaxSize - 1 \in Block(s, n) <=> s + n >= MaxSize
<1> DEFINE at(i) == (s + i) % MaxSize
           f == [i \in 0..(n-1) |-> at(i)]
<1>1. ASSUME NEW i \in 0..(n-1)
      PROVE  at(i) \in Slots /\ at(i) = IF s + i < MaxSize THEN s + i ELSE s + i - MaxSize
  <2>1. s + i \in Nat /\ s + i < 3 * MaxSize
    BY SizeFacts
  <2>2. at(i) \in 0..(MaxSize-1) /\ Meets(MaxSize, s + i, at(i))
    BY <2>1, SizeFacts, ModCases
  <2> HIDE DEF at
  <2> QED BY <2>2, SizeFacts DEF Meets
<1>2. Block(s, n) = {at(i) : i \in 0..(n-1)}
  BY DEF Block
<1> HIDE DEF at
<1>3. Block(s, n) \subseteq Slots
  BY <1>1, <1>2
<1>4. f \in Bijection(0..(n-1), Block(s, n))
  <2>1. f \in Injection(0..(n-1), Block(s, n))
    <3>1. f \in [0..(n-1) -> Block(s, n)]
      BY <1>2
    <3>2. ASSUME NEW i \in 0..(n-1), NEW j \in 0..(n-1), f[i] = f[j] PROVE i = j
      <4>1. at(i) = at(j)
        BY <3>2
      <4> QED BY <1>1, <4>1, SizeFacts
    <3> HIDE DEF f
    <3> QED BY <3>1, <3>2 DEF Injection, IsInjective
  <2>2. f \in Surjection(0..(n-1), Block(s, n))
    BY <1>2 DEF Surjection
  <2> QED BY <2>1, <2>2 DEF Bijection
<1>5. IsFiniteSet(0..(n-1)) /\ Cardinality(0..(n-1)) = n
  <2>1. 0 \in Int /\ n - 1 \in Int /\ ~(0 > n - 1) /\ (n - 1) - 0 + 1 = n
    BY SizeFacts
  <2> QED BY <2>1, FS_Interval
<1>6. IsFiniteSet(Block(s, n)) /\ Cardinality(Block(s, n)) = n
  BY <1>4, <1>5, FS_Bijection DEF ExistsBijection
<1>7. MaxSize - 1 \in Block(s, n) <=> s + n >= MaxSize
  <2>1. ASSUME s + n >= MaxSize PROVE MaxSize - 1 \in Block(s, n)
    <3>1. (MaxSize - 1) - s \in 0..(n-1)
      BY <2>1, SizeFacts
    <3>2. at((MaxSize - 1) - s) = MaxSize - 1
      BY <1>1, <3>1, SizeFacts
    <3> QED BY <1>2, <3>1, <3>2
  <2>2. ASSUME MaxSize - 1 \in Block(s, n) PROVE s + n >= MaxSize
    <3>1. PICK i \in 0..(n-1) : at(i) = MaxSize - 1
      BY <1>2, <2>2
    <3> QED BY <1>1, <3>1, SizeFacts
  <2> QED BY <2>1, <2>2
<1> QED BY <1>3, <1>6, <1>7

\* The slots are finitely many.
LEMMA SlotsFinite ==
  ASSUME NEW C \in SUBSET Slots
  PROVE  /\ IsFiniteSet(C) /\ Cardinality(C) \in 0..MaxSize
         /\ \A x \in Slots : x \notin C => Cardinality(C) < MaxSize
         /\ Cardinality(C) = 0 => C = {}
<1>1. IsFiniteSet(Slots) /\ Cardinality(Slots) = MaxSize
  <2>1. 0 \in Int /\ MaxSize - 1 \in Int /\ ~(0 > MaxSize - 1)
        /\ (MaxSize - 1) - 0 + 1 = MaxSize
    BY SizeFacts
  <2> QED BY <2>1, SizeFacts, FS_Interval
<1>2. /\ IsFiniteSet(C) /\ Cardinality(C) <= Cardinality(Slots)
      /\ Cardinality(Slots) = Cardinality(C) => Slots = C
  BY <1>1, FS_Subset
<1>3. Cardinality(C) \in Nat
  BY <1>2, FS_CardinalityType
<1>4. Cardinality(C) = 0 => C = {}
  BY <1>2, FS_EmptySet
<1> QED BY <1>1, <1>2, <1>3, <1>4, SizeFacts

\* The tail passes a claim: the slots between the counter and it become more.
LEMMA TrailsGrow ==
  ASSUME NEW i \in Int, NEW t \in Slots, NEW C \in SUBSET Slots, Trails(i, t, C),
         NEW n \in 1..(MaxSize-1), Block(t, n) \cap C = {}
  PROVE  Trails(i, (t + n) % MaxSize, C \cup Block(t, n))
<1> DEFINE R == Block(t, n)
<1>1. /\ R \subseteq Slots /\ IsFiniteSet(R) /\ Cardinality(R) = n
      /\ MaxSize - 1 \in R <=> t + n >= MaxSize
  BY BlockSize
<1>2. IsFiniteSet(C) /\ Cardinality(C) \in Nat
  BY SlotsFinite
<1>3. R \cap C = {}
  OBVIOUS
<1> HIDE DEF R
<1>4. Cardinality(C \cup R) = Cardinality(C) + n
  <2>1. Cardinality(C \cup R) = Cardinality(C) + Cardinality(R) - Cardinality(C \cap R)
    BY <1>1, <1>2, FS_Union
  <2>2. Cardinality(C \cap R) = 0
    BY <1>3, FS_EmptySet
  <2> QED BY <1>1, <1>2, <2>1, <2>2
<1>5. (t + n) % MaxSize = IF t + n >= MaxSize THEN t + n - MaxSize ELSE t + n
  <2> DEFINE u == (t + n) % MaxSize
  <2>1. t + n \in Nat /\ t + n < 2 * MaxSize /\ t + n < 3 * MaxSize
    BY SizeFacts
  <2>2. u \in 0..(MaxSize-1) /\ Meets(MaxSize, t + n, u)
    BY <2>1, SizeFacts, ModCases
  <2> HIDE DEF u
  <2>3. u = IF t + n >= MaxSize THEN t + n - MaxSize ELSE t + n
    BY <2>1, <2>2, SizeFacts DEF Meets
  <2> QED BY <2>3 DEF u
<1>6. i = (t - Cardinality(C)) + (IF MaxSize - 1 \in C THEN MaxSize ELSE 0)
  BY DEF Trails
<1>7. MaxSize - 1 \in C \cup R <=> MaxSize - 1 \in C \/ t + n >= MaxSize
  BY <1>1
<1>8. ~(MaxSize - 1 \in C /\ t + n >= MaxSize)
  BY <1>1, <1>3
<1>9. i = (((t + n) % MaxSize) - Cardinality(C \cup R))
            + (IF MaxSize - 1 \in C \cup R THEN MaxSize ELSE 0)
  <2> DEFINE card == Cardinality(C)
             cardR == Cardinality(C \cup R)
             u == (t + n) % MaxSize
             in == MaxSize - 1 \in C
             inR == MaxSize - 1 \in C \cup R
  <2> HIDE DEF card, cardR, u, in, inR
  <2>1. card \in Nat /\ cardR = card + n
    BY <1>2, <1>4 DEF card, cardR
  <2>2. u = IF t + n >= MaxSize THEN t + n - MaxSize ELSE t + n
    BY <1>5 DEF u
  <2>3. i = (t - card) + (IF in THEN MaxSize ELSE 0)
    BY <1>6 DEF card, in
  <2>4. /\ inR <=> in \/ t + n >= MaxSize
        /\ ~(in /\ t + n >= MaxSize)
    BY <1>7, <1>8 DEF in, inR
  <2>5. i = (u - cardR) + (IF inR THEN MaxSize ELSE 0)
    BY <2>1, <2>2, <2>3, <2>4, SizeFacts
  <2> QED BY <2>5 DEF cardR, u, inR
<1> QED BY <1>9 DEF Trails, R

\* A claim is completed: they become fewer.
LEMMA TrailsShrink ==
  ASSUME NEW i \in Int, NEW t \in Slots, NEW C \in SUBSET Slots, Trails(i, t, C),
         NEW s \in Slots, NEW n \in 1..(MaxSize-1), Block(s, n) \subseteq C
  PROVE  Trails(i + (IF s + n < MaxSize THEN n ELSE n - MaxSize), t, C \ Block(s, n))
<1> DEFINE R == Block(s, n)
           D == C \ R
<1>1. /\ R \subseteq Slots /\ IsFiniteSet(R) /\ Cardinality(R) = n
      /\ MaxSize - 1 \in R <=> s + n >= MaxSize
  BY BlockSize
<1>2. R \subseteq C
  OBVIOUS
<1> HIDE DEF R
<1>3. D \subseteq Slots /\ C = D \cup R /\ D \cap R = {}
  BY <1>2
<1> HIDE DEF D
<1>4. IsFiniteSet(D) /\ Cardinality(D) \in Nat
  BY <1>3, SlotsFinite
<1>5. Cardinality(C) = Cardinality(D) + n
  <2>1. Cardinality(D \cup R) = Cardinality(D) + Cardinality(R) - Cardinality(D \cap R)
    BY <1>1, <1>4, FS_Union
  <2>2. Cardinality(D \cap R) = 0
    BY <1>3, FS_EmptySet
  <2> QED BY <1>1, <1>3, <1>4, <2>1, <2>2
<1>6. i = (t - Cardinality(C)) + (IF MaxSize - 1 \in C THEN MaxSize ELSE 0)
  BY DEF Trails
<1>7. /\ MaxSize - 1 \in C <=> MaxSize - 1 \in D \/ s + n >= MaxSize
      /\ ~(MaxSize - 1 \in D /\ s + n >= MaxSize)
  BY <1>1, <1>3
<1>8. i + (IF s + n < MaxSize THEN n ELSE n - MaxSize)
        = (t - Cardinality(D)) + (IF MaxSize - 1 \in D THEN MaxSize ELSE 0)
  <2> DEFINE card == Cardinality(C)
             cardD == Cardinality(D)
             in == MaxSize - 1 \in C
             inD == MaxSize - 1 \in D
  <2> HIDE DEF card, cardD, in, inD
  <2>1. cardD \in Nat /\ card = cardD + n
    BY <1>4, <1>5 DEF card, cardD
  <2>2. i = (t - card) + (IF in THEN MaxSize ELSE 0)
    BY <1>6 DEF card, in
  <2>3. /\ in <=> inD \/ s + n >= MaxSize
        /\ ~(inD /\ s + n >= MaxSize)
    BY <1>7 DEF in, inD
  <2>4. i + (IF s + n < MaxSize THEN n ELSE n - MaxSize)
          = (t - cardD) + (IF inD THEN MaxSize ELSE 0)
    BY <2>1, <2>2, <2>3, SizeFacts
  <2> QED BY <2>4 DEF cardD, inD
<1> QED BY <1>8 DEF Trails, D, R

\* A counter that is as far as the tail has nothing behind it: one slot of the ring
\* is always free.
LEMMA TrailsMeet ==
  ASSUME NEW t \in Slots, NEW C \in SUBSET Slots, NEW x \in Slots, x \notin C,
         Trails(t, t, C)
  PROVE  C = {}
<1>1. Cardinality(C) \in 0..MaxSize /\ Cardinality(C) < MaxSize
  BY SlotsFinite
<1>2. t = (t - Cardinality(C)) + (IF MaxSize - 1 \in C THEN MaxSize ELSE 0)
  BY DEF Trails
<1>3. Cardinality(C) = 0
  <2> DEFINE in == MaxSize - 1 \in C
  <2>1. t = (t - Cardinality(C)) + (IF in THEN MaxSize ELSE 0)
    BY <1>2
  <2> HIDE DEF in
  <2> QED BY <1>1, <2>1, SizeFacts
<1> QED BY <1>3, SlotsFinite

\* A counter never leaves the two turns around the ring.
LEMMA TrailsBound ==
  ASSUME NEW i, NEW t \in Slots, NEW C \in SUBSET Slots, Trails(i, t, C)
  PROVE  i \in (-MaxSize)..(2*MaxSize)
<1>1. Cardinality(C) \in 0..MaxSize
  BY SlotsFinite
<1>2. i = (t - Cardinality(C)) + (IF MaxSize - 1 \in C THEN MaxSize ELSE 0)
  BY DEF Trails
<1> DEFINE in == MaxSize - 1 \in C
<1>3. i = (t - Cardinality(C)) + (IF in THEN MaxSize ELSE 0)
  BY <1>2
<1> HIDE DEF in
<1> QED BY <1>1, <1>3, SizeFacts

-----------------------------------------------------------------------------
(***************************************************************************)
(* What the invariant says of the regions.                                 *)
(***************************************************************************)
\* The types of what the regions are made of.
LEMMA StateTypes ==
  ASSUME TypeOK
  PROVE  /\ vtail \in Slots /\ tail \in Slots /\ split \in Slots
         /\ itail \in Int /\ seen \in Int
         /\ nlocal \in 0..MaxSize /\ want \in 0..MaxPush
         /\ SharedSize \in 0..(MaxSize-1) /\ PublicSize \in 0..(MaxSize-1)
         /\ \A th \in Thieves :
              /\ claim[th].start \in Slots /\ claim[th].n \in 0..MaxSize
              /\ Back(th) \in 0..(MaxSize-1)
<1>1. /\ vtail \in Slots /\ tail \in Slots /\ split \in Slots
      /\ itail \in Int /\ seen \in Int
      /\ nlocal \in 0..MaxSize /\ want \in 0..MaxPush
  BY SizeFacts DEF TypeOK
<1>2. \A th \in Thieves : claim[th].start \in Slots /\ claim[th].n \in 0..MaxSize
  BY DEF TypeOK
<1>3. SharedSize \in 0..(MaxSize-1) /\ PublicSize \in 0..(MaxSize-1)
  BY <1>1, DistanceFacts DEF SharedSize, PublicSize
<1>4. \A th \in Thieves : Back(th) \in 0..(MaxSize-1)
  BY <1>1, <1>2, DistanceFacts DEF Back
<1> QED BY <1>1, <1>2, <1>3, <1>4

\* A claim as a region.
LEMMA ReservedRegion ==
  ASSUME IInv, NEW th \in InFlight
  PROVE  /\ th \in Thieves /\ claim[th].n \in 1..(MaxSize-1) /\ claim[th].n <= Back(th)
         /\ claim[th].start \in Slots /\ Back(th) \in 0..(MaxSize-1)
         /\ Reserved(th) = Behind(MaxSize, split, Back(th) - claim[th].n, Back(th))
         /\ Reserved(th) \subseteq Slots
<1>1. th \in Thieves /\ claim[th].n \in 1..Back(th)
  BY DEF IInv, ClaimInv, InFlight
<1>2. claim[th].start \in Slots /\ split \in Slots /\ Back(th) \in 0..(MaxSize-1)
  BY <1>1, StateTypes DEF IInv
<1>3. claim[th].n \in 0..Distance(claim[th].start, split)
  BY <1>1, <1>2 DEF Back
<1>4. /\ Reserved(th) = Behind(MaxSize, split, Back(th) - claim[th].n, Back(th))
      /\ Reserved(th) \subseteq Slots
  BY <1>2, <1>3, SlotBlock DEF Reserved, Back
<1> QED BY <1>1, <1>2, <1>4, SizeFacts

\* Two claims, as regions, share no slot.
LEMMA ReservedApart ==
  ASSUME IInv, NEW th \in InFlight, NEW other \in InFlight \ {th}
  PROVE  Reserved(th) \cap Reserved(other) = {}
<1>1. \/ Back(other) <= Back(th) - claim[th].n
      \/ Back(th) <= Back(other) - claim[other].n
  BY DEF IInv, ClaimInv
<1>2. /\ Reserved(th) = Behind(MaxSize, split, Back(th) - claim[th].n, Back(th))
      /\ claim[th].n \in Nat /\ Back(th) \in Nat
      /\ Reserved(other) = Behind(MaxSize, split, Back(other) - claim[other].n, Back(other))
      /\ claim[other].n \in Nat /\ Back(other) \in Nat
  <2>1. other \in InFlight
    OBVIOUS
  <2> QED BY <2>1, ReservedRegion, SizeFacts
<1>3. split \in 0..(MaxSize-1)
  BY StateTypes, SizeFacts DEF IInv
<1> DEFINE a1 == Back(th) - claim[th].n
           a2 == Back(other) - claim[other].n
<1>4. a1 \in Int /\ a2 \in Int /\ Back(th) \in Int /\ Back(other) \in Int
  BY <1>2
<1>5. /\ Reserved(th) = Behind(MaxSize, split, a1, Back(th))
      /\ Reserved(other) = Behind(MaxSize, split, a2, Back(other))
      /\ Back(th) <= a2 \/ Back(other) <= a1
  BY <1>1, <1>2
<1> HIDE DEF a1, a2
<1>6. Behind(MaxSize, split, a1, Back(th)) \cap Behind(MaxSize, split, a2, Back(other)) = {}
  BY <1>3, <1>4, <1>5, SizeFacts, BehindApart
<1> QED BY <1>5, <1>6

\* Performed claims lie behind the tail, and the split is never among their slots.
LEMMA TakenPast ==
  ASSUME IInv
  PROVE  /\ Taken \subseteq Past /\ Past \subseteq Slots /\ Taken \subseteq Slots
         /\ split \in Slots /\ split \notin Past
<1>1. /\ split \in Slots /\ SharedSize \in 0..(MaxSize-1) /\ PublicSize \in 0..(MaxSize-1)
  BY StateTypes DEF IInv
<1>2. Past \subseteq Slots /\ split \notin Past
  <2>1. Dist(MaxSize, split, split) = MaxSize
    BY <1>1, SizeFacts DEF Dist
  <2> QED BY <1>1, <2>1, SizeFacts DEF Past, Behind
<1>3. ASSUME NEW th \in Settled PROVE Reserved(th) \subseteq Past
  <2>1. th \in InFlight
    BY DEF Settled
  <2>2. /\ claim[th].n \in 1..(MaxSize-1) /\ Back(th) \in 0..(MaxSize-1)
        /\ Reserved(th) = Behind(MaxSize, split, Back(th) - claim[th].n, Back(th))
    BY <2>1, ReservedRegion
  <2>3. SharedSize <= Back(th) - claim[th].n /\ Back(th) <= PublicSize
    BY <2>1 DEF IInv, ClaimInv
  <2>4. split \in 0..(MaxSize-1)
    BY <1>1, SizeFacts
  <2> DEFINE a == Back(th) - claim[th].n
  <2>5. a \in Int /\ Back(th) \in Int /\ SharedSize \in Int /\ PublicSize \in Int
    BY <1>1, <2>2, SizeFacts
  <2>6. SharedSize <= a /\ Back(th) <= PublicSize
    BY <2>3
  <2> HIDE DEF a
  <2>7. Behind(MaxSize, split, a, Back(th))
          \subseteq Behind(MaxSize, split, SharedSize, PublicSize)
    BY <2>4, <2>5, <2>6, SizeFacts, BehindWithin
  <2> QED BY <2>2, <2>7 DEF Past, a
<1>4. Taken \subseteq Past
  BY <1>3 DEF Taken
<1> QED BY <1>1, <1>2, <1>4

\* A store that moves the tail comes from the thief that claimed last.
LEMMA UnsettledClaim ==
  ASSUME IInv, NEW th \in InFlight, th \notin Settled
  PROVE  /\ pc[th] = "copy" /\ claim[th].start = tail /\ claim[th].n \in 1..SharedSize
         /\ Back(th) = SharedSize /\ Settled = InFlight \ {th}
         /\ MovedTail = (tail + claim[th].n) % MaxSize
<1>1. PICK m \in wire : m.part = "both" /\ m.from = th
  BY DEF Settled
<1>2. /\ pc[th] = "copy" /\ claim[th].start = tail /\ claim[th].n \in 1..SharedSize
      /\ m.tail = (tail + claim[th].n) % MaxSize
  BY <1>1 DEF IInv, WireInv
<1>3. wire = {m}
  BY DEF IInv, MutexInv
<1>4. Back(th) = SharedSize
  BY <1>2 DEF Back, SharedSize
<1>5. Settled = InFlight \ {th}
  BY <1>1, <1>3 DEF Settled
<1>6. MovedTail = m.tail
  <2>1. {x \in wire : x.part # "unlock"} = {m}
    BY <1>1, <1>3
  <2>2. (CHOOSE x \in {m} : TRUE) = m
    OBVIOUS
  <2> QED BY <2>1, <2>2 DEF MovedTail
<1> QED BY <1>2, <1>4, <1>5, <1>6

LEMMA NoUnsettledClaim ==
  ASSUME IInv, InFlight \subseteq Settled
  PROVE  Settled = InFlight /\ MovedTail = tail
<1>1. Settled = InFlight
  BY DEF Settled
<1>2. \A m \in wire : m.part = "unlock"
  <2> SUFFICES ASSUME NEW m \in wire, m.part # "unlock" PROVE FALSE
    OBVIOUS
  <2>1. m.part = "both" /\ m.from \in Thieves /\ pc[m.from] = "copy"
    BY DEF IInv, WireInv
  <2>2. m.from \in InFlight
    BY <2>1 DEF InFlight
  <2> QED BY <1>1, <2>1, <2>2 DEF Settled
<1>3. {m \in wire : m.part # "unlock"} = {}
  BY <1>2
<1> QED BY <1>1, <1>3 DEF MovedTail

\* What is left for the next claim starts behind every claim.
LEMMA SharedRegion ==
  ASSUME IInv
  PROVE  /\ MovedTail \in Slots /\ NShared \in 0..SharedSize
         /\ Shared = Behind(MaxSize, split, 0, NShared)
         /\ \A th \in InFlight : NShared <= Back(th) - claim[th].n
<1>1. tail \in Slots /\ split \in Slots /\ SharedSize \in 0..(MaxSize-1)
  BY StateTypes DEF IInv
<1>2. /\ MovedTail \in Slots /\ NShared \in 0..SharedSize
      /\ \A th \in InFlight : NShared <= Back(th) - claim[th].n
  <2>1. CASE InFlight \subseteq Settled
    <3>1. Settled = InFlight /\ MovedTail = tail
      BY <2>1, NoUnsettledClaim
    <3>2. NShared = SharedSize
      BY <3>1 DEF NShared, SharedSize
    <3> QED BY <1>1, <3>1, <3>2 DEF IInv, ClaimInv
  <2>2. CASE ~(InFlight \subseteq Settled)
    <3>1. PICK th \in InFlight : th \notin Settled
      BY <2>2
    <3>2. /\ claim[th].start = tail /\ claim[th].n \in 1..SharedSize
          /\ Back(th) = SharedSize /\ Settled = InFlight \ {th}
          /\ MovedTail = (tail + claim[th].n) % MaxSize
      BY <3>1, UnsettledClaim
    <3>3. MovedTail \in Slots /\ NShared = SharedSize - claim[th].n
      <4>1. claim[th].n \in 0..Distance(tail, split)
        BY <1>1, <3>2 DEF SharedSize
      <4> QED BY <1>1, <3>2, <4>1, DistanceShorter DEF NShared, SharedSize
    <3>4. ASSUME NEW other \in InFlight PROVE NShared <= Back(other) - claim[other].n
      <4>1. CASE other = th
        BY <1>1, <3>2, <3>3, <4>1
      <4>2. CASE other # th
        <5>1. SharedSize <= Back(other) - claim[other].n
          BY <3>2, <4>2 DEF IInv, ClaimInv
        <5>2. claim[other].n \in Nat /\ Back(other) \in Nat
          BY ReservedRegion, SizeFacts
        <5> QED BY <1>1, <3>2, <3>3, <5>1, <5>2
      <4> QED BY <4>1, <4>2
    <3>5. NShared \in 0..SharedSize
      BY <1>1, <3>2, <3>3
    <3> QED BY <3>3, <3>4, <3>5
  <2> QED BY <2>1, <2>2
<1>3. Shared = Behind(MaxSize, split, 0, NShared)
  <2>1. NShared \in 0..Distance(MovedTail, split) /\ Distance(MovedTail, split) = NShared
    BY <1>1, <1>2 DEF NShared
  <2>2. Block(MovedTail, NShared) = Behind(MaxSize, split, NShared - NShared, NShared)
    BY <1>1, <1>2, <2>1, SlotBlock
  <2>3. NShared - NShared = 0
    BY <1>1, <1>2
  <2> QED BY <2>2, <2>3 DEF Shared
<1> QED BY <1>2, <1>3

\* The local tasks are the slots farthest behind the split.
LEMMA LocalRegion ==
  ASSUME IInv
  PROVE  Local = Behind(MaxSize, split, MaxSize - nlocal, MaxSize)
<1>1. split \in Slots /\ nlocal \in 0..MaxSize
  BY StateTypes DEF IInv
<1>2. /\ split \in Nat /\ split < 2 * MaxSize /\ MaxSize \in 0..MaxSize
      /\ Meets(MaxSize, split + MaxSize, split)
  BY <1>1, SizeFacts DEF Meets
<1> QED BY <1>1, <1>2, BlockBehind DEF Local

LEMMA PublicRegion ==
  ASSUME IInv
  PROVE  /\ Block(vtail, PublicSize) = Behind(MaxSize, split, 0, PublicSize)
         /\ Block(vtail, Distance(vtail, tail)) = Past
<1>1. vtail \in Slots /\ tail \in Slots /\ split \in Slots /\ SharedSize \in 0..(MaxSize-1)
      /\ PublicSize \in 0..(MaxSize-1) /\ SharedSize <= PublicSize
  BY StateTypes DEF IInv, OwnerInv
<1>2. Block(vtail, PublicSize) = Behind(MaxSize, split, 0, PublicSize)
  <2>1. PublicSize \in 0..Distance(vtail, split) /\ Distance(vtail, split) - PublicSize = 0
    BY <1>1 DEF PublicSize
  <2> QED BY <1>1, <2>1, SlotBlock DEF PublicSize
<1>3. Distance(vtail, tail) = PublicSize - SharedSize
  BY <1>1, SizeFacts DEF Distance, PublicSize, SharedSize
<1>4. Block(vtail, Distance(vtail, tail)) = Past
  <2> DEFINE k == PublicSize - SharedSize
  <2>1. k \in 0..PublicSize /\ PublicSize - k = SharedSize
    BY <1>1
  <2> HIDE DEF k
  <2>2. k \in 0..Distance(vtail, split) /\ Distance(vtail, split) = PublicSize
    BY <2>1 DEF PublicSize
  <2>3. Block(vtail, k) = Behind(MaxSize, split, PublicSize - k, PublicSize)
    BY <1>1, <2>2, SlotBlock
  <2>4. Distance(vtail, tail) = k
    BY <1>3 DEF k
  <2> QED BY <2>1, <2>3, <2>4 DEF Past
<1> QED BY <1>2, <1>4

-----------------------------------------------------------------------------
(***************************************************************************)
(* The safety invariants follow from the inductive one.                    *)
(***************************************************************************)
LEMMA InvDisjoint == IInv => RegionsDisjoint
<1> SUFFICES ASSUME IInv PROVE RegionsDisjoint
  OBVIOUS
<1>1. /\ split \in 0..(MaxSize-1) /\ nlocal \in 0..MaxSize
      /\ SharedSize \in Nat /\ PublicSize \in Nat /\ SharedSize <= PublicSize
      /\ nlocal + PublicSize < MaxSize
  BY StateTypes, SizeFacts DEF IInv, OwnerInv
<1>2. /\ NShared \in 0..SharedSize
      /\ Shared = Behind(MaxSize, split, 0, NShared)
      /\ \A th \in InFlight : NShared <= Back(th) - claim[th].n
  BY SharedRegion
<1>3. Local = Behind(MaxSize, split, MaxSize - nlocal, MaxSize)
  BY LocalRegion
<1>4. Local \cap Shared = {}
  <2>1. /\ NShared <= MaxSize - nlocal /\ NShared \in Int /\ 0 \in Int
        /\ MaxSize - nlocal \in Int /\ MaxSize \in Int
    BY <1>1, <1>2, SizeFacts
  <2>2. Behind(MaxSize, split, MaxSize - nlocal, MaxSize)
          \cap Behind(MaxSize, split, 0, NShared) = {}
    BY <1>1, <2>1, SizeFacts, BehindApart
  <2> QED BY <1>2, <1>3, <2>2
<1>5. ASSUME NEW th \in InFlight
      PROVE  claim[th].n <= MaxSize /\ Reserved(th) \cap (Local \cup Shared) = {}
  <2>1. /\ claim[th].n \in 1..(MaxSize-1) /\ Back(th) \in Nat
        /\ Reserved(th) = Behind(MaxSize, split, Back(th) - claim[th].n, Back(th))
    BY ReservedRegion, SizeFacts
  <2>2. NShared <= Back(th) - claim[th].n /\ Back(th) <= PublicSize
    BY <1>2 DEF IInv, ClaimInv
  <2>3. Back(th) <= MaxSize - nlocal
    BY <1>1, <2>1, <2>2, SizeFacts
  <2>4. Reserved(th) \cap Local = {} /\ Reserved(th) \cap Shared = {}
    BY <1>1, <1>2, <1>3, <2>1, <2>2, <2>3, SizeFacts, BehindApart
  <2> QED BY <2>1, <2>4, SizeFacts
<1>6. nlocal <= MaxSize
  BY <1>1
<1> QED BY <1>4, <1>5, <1>6, ReservedApart DEF RegionsDisjoint

LEMMA InvBehindTail == IInv => ReservedBehindTail
<1> SUFFICES ASSUME IInv, NEW th \in InFlight
             PROVE  Reserved(th) \subseteq Block(vtail, PublicSize)
  BY DEF ReservedBehindTail
<1>1. /\ claim[th].n \in 1..(MaxSize-1) /\ Back(th) \in Nat /\ claim[th].n <= Back(th)
      /\ Reserved(th) = Behind(MaxSize, split, Back(th) - claim[th].n, Back(th))
  BY ReservedRegion, SizeFacts
<1>2. Back(th) <= PublicSize /\ PublicSize \in Nat /\ split \in 0..(MaxSize-1)
  BY StateTypes, SizeFacts DEF IInv, ClaimInv
<1>3. Behind(MaxSize, split, Back(th) - claim[th].n, Back(th))
        \subseteq Behind(MaxSize, split, 0, PublicSize)
  <2>1. Back(th) - claim[th].n \in Int /\ 0 <= Back(th) - claim[th].n
    BY <1>1, SizeFacts
  <2> QED BY <1>1, <1>2, <2>1, SizeFacts, BehindWithin
<1> QED BY <1>1, <1>3, PublicRegion

\* No performed claim is left when the counter is where the tail is.
LEMMA NothingTaken ==
  ASSUME IInv, itail = tail
  PROVE  Settled = {}
<1>1. Taken = {}
  BY TrailsMeet, TakenPast, StateTypes DEF IInv, TailInv
<1>2. ASSUME NEW th \in Settled PROVE FALSE
  <2>1. th \in InFlight /\ Reserved(th) = {}
    BY <1>1 DEF Taken, Settled
  <2>2. /\ claim[th].n \in 1..(MaxSize-1) /\ claim[th].start \in Slots
    BY <2>1, ReservedRegion
  <2>3. Cardinality(Reserved(th)) = claim[th].n
    BY <2>2, BlockSize DEF Reserved
  <2> QED BY <2>1, <2>2, <2>3, FS_EmptySet
<1> QED BY <1>2

LEMMA InvTailsMeet == IInv => TailsMeetWhenCopied
<1> SUFFICES ASSUME IInv, itail = tail, NEW th \in InFlight
             PROVE  Reserved(th) \cap Past = {}
  BY PublicRegion DEF TailsMeetWhenCopied, Reclaimable
<1>1. th \notin Settled
  BY NothingTaken
<1>2. Back(th) = SharedSize
  BY <1>1, UnsettledClaim
<1>3. /\ Back(th) \in Nat
      /\ Reserved(th) = Behind(MaxSize, split, Back(th) - claim[th].n, Back(th))
  BY ReservedRegion
<1>4. /\ split \in 0..(MaxSize-1) /\ SharedSize \in Int /\ PublicSize \in Int
      /\ claim[th].n \in Int
  BY ReservedRegion, StateTypes, SizeFacts DEF IInv
<1> QED BY <1>2, <1>3, <1>4, SizeFacts, BehindApart DEF Past

\* A public part that looks empty is empty.
LEMMA InvAsserted == IInv => EmptyAsserted
<1> SUFFICES ASSUME IInv, vtail = split PROVE tail = itail /\ tail = split
  BY DEF EmptyAsserted
<1>1. /\ tail \in Slots /\ split \in Slots
      /\ SharedSize \in Nat /\ PublicSize \in Nat /\ SharedSize <= PublicSize
  BY StateTypes DEF IInv, OwnerInv
<1>2. PublicSize = 0
  BY <1>1, SizeFacts DEF PublicSize, Distance
<1>3. SharedSize = 0 /\ tail = split
  BY <1>1, <1>2, DistanceFacts DEF SharedSize
<1>4. Past = {}
  <2>1. split \in 0..(MaxSize-1) /\ 0 \in Int
    BY <1>1, SizeFacts
  <2> QED BY <1>2, <1>3, <2>1, SizeFacts, BehindNothing DEF Past
<1>5. Taken = {}
  BY <1>4, TakenPast
<1>6. Cardinality({}) = 0
  BY FS_EmptySet
<1>7. itail = tail
  BY <1>1, <1>5, <1>6, SizeFacts DEF IInv, TailInv, Trails
<1> QED BY <1>3, <1>7

-----------------------------------------------------------------------------
(***************************************************************************)
(* Steps that leave the claims alone.                                      *)
(***************************************************************************)
\* At most the stores that unlock come and go.
TailStoresKept ==
  \A m \in wire \cup wire' : m.part # "unlock" => m \in wire /\ m \in wire'

\* The claims under way stay what they are.
ClaimsKept ==
  /\ InFlight' = InFlight
  /\ \A th \in InFlight : claim'[th] = claim[th]
  /\ \A m \in wire : m.part = "both" => pc'[m.from] = pc[m.from]

\* Every message is one of the two kinds a network that keeps the order carries.
LEMMA SettledFrame ==
  ASSUME IInv, TailStoresKept, ClaimsKept
  PROVE  /\ Settled' = Settled
         /\ \A th \in InFlight : Reserved(th)' = Reserved(th)
         /\ Taken' = Taken
         /\ \A m \in wire' : m.part \in {"unlock", "both"}
         /\ \A m \in wire' : m.part = "both" =>
              /\ m \in wire /\ m.from \in InFlight /\ claim'[m.from] = claim[m.from]
              /\ pc'[m.from] = "copy"
<1>1. \A m \in wire' : m.part # "unlock" => m \in wire
  BY DEF TailStoresKept
<1>2. \A m \in wire' : m.part \in {"unlock", "both"}
  BY <1>1 DEF IInv, WireInv
<1>3. ASSUME NEW m \in wire', m.part = "both"
      PROVE  /\ m \in wire /\ m.from \in InFlight /\ claim'[m.from] = claim[m.from]
             /\ pc'[m.from] = "copy"
  <2>1. m \in wire
    BY <1>1, <1>3
  <2>2. m.from \in Thieves /\ pc[m.from] = "copy"
    BY <1>3, <2>1 DEF IInv, WireInv
  <2>3. m.from \in InFlight
    BY <2>2 DEF InFlight
  <2> QED BY <1>3, <2>1, <2>2, <2>3 DEF ClaimsKept
<1>4. \A m : m.part = "both" => (m \in wire' <=> m \in wire)
  BY DEF TailStoresKept
<1>5. InFlight' = InFlight
  BY DEF ClaimsKept
<1>6. Settled' = Settled
  BY <1>4, <1>5 DEF Settled
<1>7. \A th \in InFlight : Reserved(th)' = Reserved(th)
  BY DEF ClaimsKept, Reserved
<1>8. Taken' = Taken
  <2>1. \A th \in Settled : Reserved(th)' = Reserved(th)
    BY <1>7 DEF Settled
  <2> QED BY <1>6, <2>1 DEF Taken
<1> QED BY <1>2, <1>3, <1>6, <1>7, <1>8

LEMMA RingFrame ==
  ASSUME IInv, TailStoresKept, ClaimsKept, UNCHANGED <<vtail, itail, tail, split>>,
         opc' = "compare" => opc = "compare" /\ seen' = seen
  PROVE  /\ WireInv' /\ ClaimInv' /\ TailInv'
         /\ SharedSize' = SharedSize /\ PublicSize' = PublicSize
<1>1. /\ Settled' = Settled /\ Taken' = Taken
      /\ \A m \in wire' : m.part \in {"unlock", "both"}
      /\ \A m \in wire' : m.part = "both" =>
           /\ m \in wire /\ m.from \in InFlight /\ claim'[m.from] = claim[m.from]
           /\ pc'[m.from] = "copy"
  BY SettledFrame
<1>2. SharedSize' = SharedSize /\ PublicSize' = PublicSize /\ Past' = Past
  BY DEF SharedSize, PublicSize, Past
<1>3. /\ InFlight' = InFlight
      /\ \A th \in InFlight : claim'[th] = claim[th] /\ Back(th)' = Back(th)
  BY DEF ClaimsKept, Back
<1>4. WireInv'
  <2>1. \A m \in wire : m.part = "both" =>
          /\ m.from \in Thieves /\ claim[m.from].start = tail
          /\ claim[m.from].n \in 1..SharedSize
          /\ m.tail = (tail + claim[m.from].n) % MaxSize
    BY DEF IInv, WireInv
  <2>2. tail' = tail
    OBVIOUS
  <2> QED BY <1>1, <1>2, <2>1, <2>2 DEF WireInv
<1>5. ClaimInv'
  <2>1. Settled \subseteq InFlight
    BY DEF Settled
  <2> QED BY <1>1, <1>2, <1>3, <2>1 DEF IInv, ClaimInv
<1>6. TailInv'
  BY <1>1, <1>2 DEF IInv, TailInv, Trails
<1> QED BY <1>2, <1>4, <1>5, <1>6

\* No performed claim is under way and the virtual tail moves up to the tail.
LEMMA VtailFrame ==
  ASSUME IInv, TailStoresKept, ClaimsKept, UNCHANGED <<itail, tail, split>>,
         vtail' = tail, Settled = {}, opc' # "compare"
  PROVE  /\ WireInv' /\ ClaimInv' /\ TailInv'
         /\ SharedSize' = SharedSize /\ PublicSize' = SharedSize
<1>1. /\ Settled' = Settled /\ Taken' = Taken
      /\ \A m \in wire' : m.part \in {"unlock", "both"}
      /\ \A m \in wire' : m.part = "both" =>
           /\ m \in wire /\ m.from \in InFlight /\ claim'[m.from] = claim[m.from]
           /\ pc'[m.from] = "copy"
  BY SettledFrame
<1>2. SharedSize' = SharedSize /\ PublicSize' = SharedSize
  BY DEF SharedSize, PublicSize
<1>3. /\ InFlight' = InFlight
      /\ \A th \in InFlight : claim'[th] = claim[th] /\ Back(th)' = Back(th)
  BY DEF ClaimsKept, Back
<1>4. WireInv'
  <2>1. \A m \in wire : m.part = "both" =>
          /\ m.from \in Thieves /\ claim[m.from].start = tail
          /\ claim[m.from].n \in 1..SharedSize
          /\ m.tail = (tail + claim[m.from].n) % MaxSize
    BY DEF IInv, WireInv
  <2> QED BY <1>1, <1>2, <2>1 DEF WireInv
<1>5. ClaimInv'
  <2>1. \A th \in InFlight : Back(th) = SharedSize
    BY UnsettledClaim
  <2>2. SharedSize \in Nat
    BY StateTypes DEF IInv
  <2> QED BY <1>1, <1>2, <1>3, <2>1, <2>2 DEF IInv, ClaimInv
<1>6. TailInv'
  BY <1>1 DEF IInv, TailInv, Trails
<1> QED BY <1>2, <1>4, <1>5, <1>6

\* The split moves and no reservation is on its way: all distances change by d.
LEMMA SplitFrame ==
  ASSUME IInv, TailStoresKept, ClaimsKept, UNCHANGED <<vtail, itail, tail>>,
         InFlight \subseteq Settled, opc' # "compare", NEW d \in Int,
         SharedSize' = SharedSize + d, PublicSize' = PublicSize + d,
         \A th \in InFlight : Distance(claim[th].start, split') = Back(th) + d,
         0 <= SharedSize + d
  PROVE  WireInv' /\ ClaimInv' /\ TailInv'
<1>1. /\ Settled' = Settled /\ Taken' = Taken
      /\ \A m \in wire' : m.part \in {"unlock", "both"}
      /\ \A m \in wire' : m.part = "both" =>
           /\ m \in wire /\ m.from \in InFlight /\ claim'[m.from] = claim[m.from]
           /\ pc'[m.from] = "copy"
  BY SettledFrame
<1>2. /\ InFlight' = InFlight /\ Settled = InFlight
      /\ \A th \in InFlight : claim'[th] = claim[th] /\ Back(th)' = Back(th) + d
  BY DEF ClaimsKept, Back, Settled
<1>3. WireInv'
  BY <1>1, <1>2 DEF WireInv, Settled
<1>4. ClaimInv'
  <2>1. /\ SharedSize \in Nat /\ PublicSize \in Nat
        /\ \A th \in InFlight : Back(th) \in Nat /\ claim[th].n \in Nat
    BY StateTypes DEF IInv, InFlight
  <2>2. ASSUME NEW th \in InFlight
        PROVE  /\ claim[th].n \in 1..(Back(th) + d) /\ Back(th) + d <= PublicSize + d
               /\ SharedSize + d <= Back(th) + d - claim[th].n
    <3>1. /\ claim[th].n \in 1..Back(th) /\ Back(th) <= PublicSize
          /\ SharedSize <= Back(th) - claim[th].n
      BY <1>2 DEF IInv, ClaimInv
    <3> QED BY <2>1, <3>1
  <2>3. ASSUME NEW th \in InFlight, NEW other \in InFlight \ {th}
        PROVE  \/ Back(other) + d <= Back(th) + d - claim[th].n
               \/ Back(th) + d <= Back(other) + d - claim[other].n
    <3>1. \/ Back(other) <= Back(th) - claim[th].n
          \/ Back(th) <= Back(other) - claim[other].n
      BY DEF IInv, ClaimInv
    <3> QED BY <2>1, <3>1
  <2>4. \A th \in InFlight : claim'[th].n \in 1..Back(th)' /\ Back(th)' <= PublicSize'
    BY <1>2, <2>2
  <2>5. \A th \in InFlight : SharedSize' <= Back(th)' - claim'[th].n
    BY <1>2, <2>1, <2>2
  <2>6. \A th \in InFlight : \A other \in InFlight \ {th} :
          \/ Back(other)' <= Back(th)' - claim'[th].n
          \/ Back(th)' <= Back(other)' - claim'[other].n
    BY <1>2, <2>1, <2>3
  <2> QED BY <1>1, <1>2, <2>4, <2>5, <2>6 DEF ClaimInv
<1>5. TailInv'
  BY <1>1 DEF IInv, TailInv, Trails
<1> QED BY <1>3, <1>4, <1>5

-----------------------------------------------------------------------------
(***************************************************************************)
(* The steps of the owner.                                                 *)
(***************************************************************************)
\* The stores that unlock are messages.
LEMMA UnlockStore ==
  ASSUME NEW p \in Workers
  PROVE  /\ Unlock(p) \subseteq Stores /\ \A m \in Unlock(p) : m.part = "unlock"
         /\ \A a \in Unlock(p) : \A b \in Unlock(p) : a = b
<1>1. 0 \in Slots
  BY SizeFacts
<1> QED BY <1>1 DEF Unlock, Store, Stores

LEMMA OwnerWorker == Owner \in Workers /\ Owner \notin Thieves /\ Thieves \subseteq Workers
BY WorkersAssumption DEF Workers

\* Blocks are made of slots.
LEMMA BlockSlots ==
  ASSUME NEW s \in Nat, NEW n \in Nat
  PROVE  Block(s, n) \subseteq Slots
BY SizeFacts DEF Block

LEMMA FillType ==
  ASSUME IInv, NEW n \in Nat, Fill(n), nlocal + n <= MaxSize
  PROVE  q' \in SUBSET Slots /\ nlocal' \in 0..MaxSize
<1>1. split \in Nat /\ nlocal \in Nat /\ q \subseteq Slots
  BY SizeFacts DEF IInv, TypeOK
<1>2. Block(split + nlocal, n) \subseteq Slots
  <2>1. split + nlocal \in Nat
    BY <1>1
  <2> QED BY <2>1, BlockSlots
<1>3. nlocal' \in 0..MaxSize
  BY <1>1, SizeFacts DEF Fill
<1> QED BY <1>1, <1>2, <1>3 DEF Fill

\* A push either fits behind what is not reclaimed, or waits for what is shared to
\* leave room.
LEMMA PushInv ==
  ASSUME IInv, ~MayFill, NEW n \in 1..MaxPush, Push(n)
  PROVE  IInv' /\ opc' # "failed"
<1>1. /\ opc = "idle" /\ Admissible(n) /\ EmptyAsserted
      /\ UNCHANGED <<vtail, itail, tail, split, lock, wire, seen, pc, claim, hand>>
  BY InvAsserted DEF Push, thiefVars
<1>2. /\ nlocal \in Nat /\ PublicSize \in Nat /\ SharedSize \in Nat
      /\ nlocal + PublicSize < MaxSize /\ SharedSize <= PublicSize
      /\ n \in Nat /\ MaxSize \in Nat /\ n \in 0..MaxPush
  BY StateTypes, SizeFacts DEF IInv, OwnerInv
<1>3. TailStoresKept /\ ClaimsKept
  BY <1>1 DEF TailStoresKept, ClaimsKept, InFlight
<1>4. opc' # "compare" /\ opc' # "failed" /\ opc' \notin {"inPush", "inPop", "lockPop"}
  BY <1>1 DEF Push
<1>5. /\ WireInv' /\ ClaimInv' /\ TailInv'
      /\ SharedSize' = SharedSize /\ PublicSize' = PublicSize
  BY <1>1, <1>3, <1>4, RingFrame
<1>6. MutexInv' /\ HandInv'
  <2>1. Holders' = Holders
    BY <1>1, <1>4 DEF Holders
  <2> QED BY <1>1, <2>1 DEF IInv, MutexInv, HandInv, Reserved
<1>7. CASE Fits(n)
  <2>1. Fill(n) /\ UNCHANGED <<opc, want>>
    BY <1>1, <1>7 DEF Push
  <2>2. nlocal' = nlocal + n
    BY <2>1 DEF Fill
  <2>3. (nlocal + n) + PublicSize < MaxSize
    BY <1>1, <1>2, <1>7 DEF Admissible, Fits
  <2>4. OwnerInv'
    BY <1>1, <1>2, <1>5, <2>1, <2>2, <2>3 DEF OwnerInv
  <2>5. TypeOK'
    <3>1. q' \in SUBSET Slots /\ nlocal' \in 0..MaxSize
      BY <1>2, <2>1, <2>3, FillType
    <3> QED BY <1>1, <2>1, <3>1 DEF IInv, TypeOK, Stores
  <2> QED BY <1>4, <1>5, <1>6, <2>4, <2>5 DEF IInv
<1>8. CASE ~Fits(n)
  <2>1. opc' = "lockPush" /\ want' = n /\ UNCHANGED <<q, nlocal>>
    BY <1>1, <1>8 DEF Push
  <2>2. (nlocal + SharedSize) + n < MaxSize \/ nlocal + n > MaxSize
    BY <1>1, <1>2, <1>8 DEF Admissible
  <2>3. OwnerInv'
    BY <1>1, <1>2, <1>5, <2>1, <2>2 DEF OwnerInv
  <2>4. TypeOK'
    BY <1>1, <1>2, <2>1 DEF IInv, TypeOK, Stores
  <2> QED BY <1>4, <1>5, <1>6, <2>3, <2>4 DEF IInv
<1> QED BY <1>7, <1>8

LEMMA EnsureAbortInv ==
  ASSUME IInv, EnsureAbort
  PROVE  IInv'
<1>1. /\ opc = "inPush" /\ opc' = "aborted"
      /\ UNCHANGED <<vtail, itail, tail, split, nlocal, lock, wire, q, want, seen,
                     pc, claim, hand>>
  BY DEF EnsureAbort, ringVars, thiefVars
<1>2. TailStoresKept /\ ClaimsKept
  BY <1>1 DEF TailStoresKept, ClaimsKept, InFlight
<1>3. /\ WireInv' /\ ClaimInv' /\ TailInv'
      /\ SharedSize' = SharedSize /\ PublicSize' = PublicSize
  BY <1>1, <1>2, RingFrame
<1>4. MutexInv' /\ HandInv'
  <2>1. Holders' \subseteq Holders
    BY <1>1 DEF Holders
  <2> QED BY <1>1, <2>1 DEF IInv, MutexInv, HandInv, Reserved
<1>5. OwnerInv' /\ TypeOK'
  BY <1>1, <1>3 DEF IInv, OwnerInv, TypeOK, Stores
<1> QED BY <1>3, <1>4, <1>5 DEF IInv

\* The owner leaves the critical section.
LEMMA OwnerUnlocks ==
  ASSUME IInv, opc \in {"inPush", "inPop"}, opc' = "idle",
         wire' = wire \cup Unlock(Owner), UNCHANGED <<lock, pc, claim>>
  PROVE  /\ MutexInv' /\ TailStoresKept /\ ClaimsKept /\ wire = {}
         /\ wire' \subseteq Stores /\ InFlight \subseteq Settled
<1>1. Owner \in Holders
  BY DEF Holders
<1>2. wire = {} /\ lock = "locked" /\ \A a \in Holders : a = Owner
  BY <1>1 DEF IInv, MutexInv
<1>3. /\ wire' \subseteq Stores /\ \A m \in wire' : m.part = "unlock"
      /\ \A a \in wire' : \A b \in wire' : a = b
  BY <1>2, OwnerWorker, UnlockStore
<1>4. Holders' = {}
  BY <1>2, OwnerWorker DEF Holders
<1>5. MutexInv'
  BY <1>2, <1>3, <1>4 DEF MutexInv
<1>6. TailStoresKept /\ ClaimsKept
  BY <1>2, <1>3 DEF TailStoresKept, ClaimsKept, InFlight
<1>7. InFlight \subseteq Settled
  BY <1>2 DEF Settled
<1> QED BY <1>2, <1>3, <1>5, <1>6, <1>7

\* The wait ends when the counter has met the tail: no claim is left at all, since
\* nobody else is inside.
LEMMA EnsureReclaimInv ==
  ASSUME IInv, EnsureReclaim
  PROVE  IInv'
<1>1. /\ opc = "inPush" /\ opc' = "idle" /\ want' = 0 /\ vtail' = tail /\ itail = tail
      /\ Fill(want) /\ MaxSize - (nlocal + SharedSize) >= want
      /\ wire' = wire \cup Unlock(Owner)
      /\ UNCHANGED <<itail, tail, split, lock, seen, pc, claim, hand>>
  BY DEF EnsureReclaim, thiefVars, Reclaimable
<1>2. /\ MutexInv' /\ TailStoresKept /\ ClaimsKept /\ wire' \subseteq Stores
  BY <1>1, OwnerUnlocks
<1>3. Settled = {}
  BY <1>1, NothingTaken
<1>4. /\ WireInv' /\ ClaimInv' /\ TailInv'
      /\ SharedSize' = SharedSize /\ PublicSize' = SharedSize
  BY <1>1, <1>2, <1>3, VtailFrame
<1>5. /\ nlocal \in Nat /\ SharedSize \in Nat /\ want \in Nat /\ MaxSize \in Nat
      /\ tail \in Slots /\ (nlocal + SharedSize) + want < MaxSize
  <2>1. /\ nlocal \in Nat /\ SharedSize \in Nat /\ want \in Nat /\ MaxSize \in Nat
        /\ tail \in Slots
    BY StateTypes, SizeFacts DEF IInv
  <2>2. (nlocal + SharedSize) + want < MaxSize \/ nlocal + want > MaxSize
    BY <1>1 DEF IInv, OwnerInv
  <2> QED BY <1>1, <2>1, <2>2
<1>6. OwnerInv'
  BY <1>1, <1>4, <1>5 DEF OwnerInv, Fill
<1>7. TypeOK'
  <2>1. q' \in SUBSET Slots /\ nlocal' \in 0..MaxSize
    BY <1>1, <1>5, FillType
  <2>2. want' \in 0..MaxPush
    BY <1>1, SizeFacts
  <2> QED BY <1>1, <1>2, <1>5, <2>1, <2>2 DEF IInv, TypeOK, Stores
<1>8. HandInv'
  BY <1>1 DEF IInv, HandInv, Reserved
<1> QED BY <1>2, <1>4, <1>6, <1>7, <1>8 DEF IInv

\* The steps of the owner that move no tail and no split: popping a local task,
\* running it, taking the lock.
LEMMA PopExecuteInv ==
  ASSUME IInv, PopHead \/ Execute
  PROVE  IInv'
<1>1. /\ opc = "idle" /\ opc' \in {"idle", "lockPop"}
      /\ \A th \in Thieves : hand'[th] = hand[th]
      /\ UNCHANGED <<vtail, itail, tail, split, lock, wire, want, seen, pc, claim>>
  BY OwnerWorker DEF PopHead, Execute, ringVars, ownerVars, thiefVars, IInv, TypeOK
<1>2. TailStoresKept /\ ClaimsKept
  BY <1>1 DEF TailStoresKept, ClaimsKept, InFlight
<1>3. /\ WireInv' /\ ClaimInv' /\ TailInv'
      /\ SharedSize' = SharedSize /\ PublicSize' = PublicSize
  BY <1>1, <1>2, RingFrame
<1>4. MutexInv' /\ HandInv'
  <2>1. Holders' = Holders
    BY <1>1 DEF Holders
  <2> QED BY <1>1, <2>1 DEF IInv, MutexInv, HandInv, Reserved
<1>5. /\ nlocal \in Nat /\ nlocal' \in 0..nlocal /\ nlocal <= MaxSize
      /\ opc' = "lockPop" => nlocal' = 0 /\ hand'[Owner] = {}
  <2>1. nlocal \in 0..MaxSize
    BY StateTypes DEF IInv
  <2> QED BY <1>1, <2>1, SizeFacts DEF PopHead, Execute, ringVars, ownerVars
<1>6. q' \subseteq Slots /\ hand' \in [Workers -> SUBSET Slots]
  <2>1. nlocal > 0 => Head \in Slots
    <3>1. split \in Nat /\ nlocal \in Nat
      BY StateTypes, SizeFacts DEF IInv
    <3> QED BY <3>1, SizeFacts DEF Head
  <2> QED BY <2>1, OwnerWorker DEF PopHead, Execute, ringVars, IInv, TypeOK
<1>7. OwnerInv'
  <2>1. PublicSize \in Nat /\ MaxSize \in Nat
    BY StateTypes, SizeFacts DEF IInv
  <2> QED BY <1>1, <1>3, <1>5, <2>1 DEF IInv, OwnerInv
<1>8. TypeOK'
  BY <1>1, <1>5, <1>6, SizeFacts DEF IInv, TypeOK, Stores
<1> QED BY <1>3, <1>4, <1>7, <1>8 DEF IInv

LEMMA OwnerLockInv ==
  ASSUME IInv, OwnerLock
  PROVE  IInv'
<1>1. /\ opc \in {"lockPush", "lockPop"} /\ lock = "unlocked" /\ lock' = "locked"
      /\ opc' = IF opc = "lockPush" THEN "inPush" ELSE "inPop"
      /\ UNCHANGED <<vtail, itail, tail, split, nlocal, wire, q, want, seen,
                     pc, claim, hand>>
  BY DEF OwnerLock, Acquire, ringVars, thiefVars
<1>2. TailStoresKept /\ ClaimsKept
  BY <1>1 DEF TailStoresKept, ClaimsKept, InFlight
<1>3. /\ WireInv' /\ ClaimInv' /\ TailInv'
      /\ SharedSize' = SharedSize /\ PublicSize' = PublicSize
  BY <1>1, <1>2, RingFrame
<1>4. MutexInv'
  <2>1. Holders = {} /\ wire = {}
    BY <1>1 DEF IInv, MutexInv
  <2>2. Holders' = {Owner}
    BY <1>1, <2>1 DEF Holders
  <2> QED BY <1>1, <2>1, <2>2 DEF MutexInv
<1>5. OwnerInv' /\ TypeOK' /\ HandInv'
  BY <1>1, <1>3 DEF IInv, OwnerInv, TypeOK, Stores, HandInv, Reserved
<1> QED BY <1>3, <1>4, <1>5 DEF IInv

\* The owner takes back the half of the shared tasks next to the split.  It holds the
\* lock and no claim is that close.
LEMMA ReacquirePopInv ==
  ASSUME IInv, ReacquirePop
  PROVE  IInv'
<1> DEFINE amount == HalfUp(SharedSize)
           head   == (Lowered(amount) + amount - 1) % MaxSize
<1>1. /\ opc = "inPop" /\ opc' = "idle" /\ wire' = wire \cup Unlock(Owner)
      /\ UNCHANGED <<vtail, itail, tail, lock, want, seen, pc, claim>>
      /\ IF amount > 0
         THEN /\ split' = Lowered(amount) /\ nlocal' = amount - 1
              /\ hand' = [hand EXCEPT ![Owner] = {head}] /\ q' = q \ {head}
         ELSE UNCHANGED <<split, nlocal, hand, q>>
  BY DEF ReacquirePop, thiefVars
<1>2. /\ MutexInv' /\ TailStoresKept /\ ClaimsKept /\ wire' \subseteq Stores
      /\ InFlight \subseteq Settled
  BY <1>1, OwnerUnlocks
<1>3. /\ nlocal = 0 /\ SharedSize \in Nat /\ PublicSize \in Nat /\ SharedSize <= PublicSize
      /\ PublicSize < MaxSize /\ MaxSize \in Nat
      /\ vtail \in Slots /\ tail \in Slots /\ split \in Slots
  BY <1>1, StateTypes, SizeFacts DEF IInv, OwnerInv
<1>4. amount \in 0..SharedSize /\ (SharedSize > 0 => amount > 0)
  BY <1>3, HalfUpFacts
<1> HIDE DEF amount
<1>5. CASE ~(amount > 0)
  <2>1. UNCHANGED <<split, nlocal, hand, q>>
    BY <1>1, <1>5
  <2>2. /\ WireInv' /\ ClaimInv' /\ TailInv'
        /\ SharedSize' = SharedSize /\ PublicSize' = PublicSize
    BY <1>1, <1>2, <2>1, RingFrame
  <2>3. OwnerInv' /\ TypeOK' /\ HandInv'
    BY <1>1, <1>2, <2>1, <2>2 DEF IInv, OwnerInv, TypeOK, Stores, HandInv, Reserved
  <2> QED BY <1>2, <2>2, <2>3 DEF IInv
<1>6. CASE amount > 0
  <2>1. /\ split' = Lowered(amount) /\ nlocal' = amount - 1
        /\ hand' = [hand EXCEPT ![Owner] = {head}] /\ q' = q \ {head}
    BY <1>1, <1>6
  <2>2. /\ split' \in Slots /\ SharedSize' = SharedSize - amount
        /\ PublicSize' = PublicSize - amount
    <3>1. amount \in 0..Distance(tail, split) /\ amount \in 0..Distance(vtail, split)
      BY <1>3, <1>4 DEF SharedSize, PublicSize
    <3> QED BY <1>1, <1>3, <2>1, <3>1, DistanceLowered DEF SharedSize, PublicSize
  <2>3. ASSUME NEW th \in InFlight
        PROVE  Distance(claim[th].start, split') = Back(th) + (-amount)
    <3>1. SharedSize <= Back(th) - claim[th].n
      BY <1>2 DEF IInv, ClaimInv
    <3>2. claim[th].n \in Nat /\ Back(th) \in Nat /\ claim[th].start \in Slots
      BY ReservedRegion, SizeFacts
    <3>3. amount \in 0..Distance(claim[th].start, split)
      BY <1>3, <1>4, <3>1, <3>2 DEF Back
    <3> QED BY <1>3, <1>4, <2>1, <3>2, <3>3, DistanceLowered DEF Back
  <2>4. WireInv' /\ ClaimInv' /\ TailInv'
    <3>1. /\ -amount \in Int /\ SharedSize' = SharedSize + (-amount)
          /\ PublicSize' = PublicSize + (-amount) /\ 0 <= SharedSize + (-amount)
      BY <1>3, <1>4, <2>2
    <3>2. opc' # "compare" /\ UNCHANGED <<vtail, itail, tail>>
      BY <1>1
    <3> QED BY <1>2, <2>3, <3>1, <3>2, SplitFrame
  <2>5. OwnerInv'
    BY <1>1, <1>3, <1>4, <1>6, <2>1, <2>2 DEF OwnerInv
  <2>6. head \in Slots
    <3>1. Lowered(amount) \in Nat
      BY <2>1, <2>2, SizeFacts
    <3> QED BY <1>4, <1>6, <3>1, SizeFacts
  <2>7. TypeOK'
    <3>1. nlocal' \in 0..MaxSize
      BY <1>3, <1>4, <1>6, <2>1
    <3>2. q' \subseteq Slots /\ hand' \in [Workers -> SUBSET Slots]
      BY <2>1, <2>6, OwnerWorker DEF IInv, TypeOK
    <3> QED BY <1>1, <1>2, <2>2, <3>1, <3>2 DEF IInv, TypeOK, Stores
  <2>8. HandInv'
    BY <1>1, <2>1, OwnerWorker DEF IInv, HandInv, Reserved, TypeOK
  <2> QED BY <1>2, <2>4, <2>5, <2>7, <2>8 DEF IInv
<1> QED BY <1>5, <1>6

\* Nothing is shared, so no reservation is on its way; every claim is farther behind
\* the new split.
LEMMA ReleaseInv ==
  ASSUME IInv, Release
  PROVE  IInv'
<1> DEFINE amount == IF SharedSize = 0 THEN HalfUp(nlocal) ELSE 0
<1>1. /\ opc = "idle" /\ opc' = "reclaim"
      /\ nlocal' = nlocal - amount /\ split' = (split + amount) % MaxSize
      /\ UNCHANGED <<vtail, itail, tail, lock, wire, q, want, seen, pc, claim, hand>>
  BY DEF Release, thiefVars
<1>2. TailStoresKept /\ ClaimsKept
  BY <1>1 DEF TailStoresKept, ClaimsKept, InFlight
<1>3. /\ nlocal \in Nat /\ SharedSize \in Nat /\ PublicSize \in Nat /\ SharedSize <= PublicSize
      /\ nlocal + PublicSize < MaxSize /\ MaxSize \in Nat
      /\ vtail \in Slots /\ tail \in Slots /\ split \in Slots
  BY StateTypes, SizeFacts DEF IInv, OwnerInv
<1>4. amount \in 0..nlocal /\ amount \in Nat /\ (amount > 0 => SharedSize = 0)
  BY <1>3, HalfUpFacts
<1> HIDE DEF amount
<1>5. ASSUME NEW a \in Slots, Distance(a, split) <= PublicSize
      PROVE  split' \in Slots /\ Distance(a, split') = Distance(a, split) + amount
  <2>1. Distance(a, split) \in Nat
    BY <1>3, DistanceType
  <2>2. Distance(a, split) + amount < MaxSize
    BY <1>3, <1>4, <1>5, <2>1
  <2> QED BY <1>1, <1>3, <1>4, <2>2, DistanceAhead
<1>6. /\ split' \in Slots /\ SharedSize' = SharedSize + amount
      /\ PublicSize' = PublicSize + amount
  BY <1>1, <1>3, <1>5 DEF SharedSize, PublicSize
<1>7. WireInv' /\ ClaimInv' /\ TailInv'
  <2>1. CASE amount = 0
    <3>1. split' = split
      <4>1. split + 0 = split /\ split % MaxSize = split
        BY <1>3, SizeFacts
      <4> QED BY <1>1, <2>1, <4>1
    <3>2. opc' # "compare"
      BY <1>1
    <3> QED BY <1>1, <1>2, <3>1, <3>2, RingFrame
  <2>2. CASE amount > 0
    <3>1. InFlight \subseteq Settled
      <4> SUFFICES ASSUME NEW th \in InFlight, th \notin Settled PROVE FALSE
        OBVIOUS
      <4>1. claim[th].n \in 1..SharedSize
        BY UnsettledClaim
      <4> QED BY <1>4, <2>2, <4>1
    <3>2. ASSUME NEW th \in InFlight
          PROVE  Distance(claim[th].start, split') = Back(th) + amount
      <4>1. Back(th) <= PublicSize /\ claim[th].start \in Slots
        BY ReservedRegion DEF IInv, ClaimInv
      <4> QED BY <1>5, <4>1 DEF Back
    <3>3. amount \in Int /\ 0 <= SharedSize + amount /\ opc' # "compare"
          /\ UNCHANGED <<vtail, itail, tail>>
      BY <1>1, <1>3, <1>4
    <3> QED BY <1>2, <1>6, <3>1, <3>2, <3>3, SplitFrame
  <2> QED BY <1>4, <2>1, <2>2
<1>8. MutexInv' /\ HandInv'
  <2>1. Holders' = Holders
    BY <1>1 DEF Holders
  <2> QED BY <1>1, <2>1 DEF IInv, MutexInv, HandInv, Reserved
<1>9. OwnerInv'
  BY <1>1, <1>3, <1>4, <1>6 DEF OwnerInv
<1>10. TypeOK'
  <2>1. nlocal' \in 0..MaxSize
    BY <1>1, <1>3, <1>4
  <2> QED BY <1>1, <1>6, <2>1 DEF IInv, TypeOK, Stores
<1> QED BY <1>7, <1>8, <1>9, <1>10 DEF IInv

\* The value read trails the tail by the claims of this moment.
LEMMA ReadItailInv ==
  ASSUME IInv, ReadItail
  PROVE  IInv'
<1>1. /\ opc = "reclaim" /\ opc' = "compare" /\ seen' = itail
      /\ UNCHANGED <<vtail, itail, tail, split, nlocal, lock, wire, q, want,
                     pc, claim, hand>>
  BY DEF ReadItail, ringVars, thiefVars
<1>2. TailStoresKept /\ ClaimsKept
  BY <1>1 DEF TailStoresKept, ClaimsKept, InFlight
<1>3. Taken' = Taken /\ Settled' = Settled
  BY <1>2, SettledFrame
<1>4. SharedSize' = SharedSize /\ PublicSize' = PublicSize /\ Past' = Past
  BY <1>1 DEF SharedSize, PublicSize, Past
<1>5. WireInv' /\ ClaimInv'
  BY <1>1, <1>3, <1>4 DEF IInv, WireInv, ClaimInv, InFlight, Back
<1>6. TailInv'
  <2>1. Trails(itail, tail, Taken) /\ Taken \in SUBSET Past
    BY TakenPast DEF IInv, TailInv
  <2>2. Trails(itail', tail', Taken') /\ Trails(seen', tail', Taken)
    BY <1>1, <1>3, <2>1
  <2> QED BY <1>3, <1>4, <2>1, <2>2 DEF TailInv
<1>7. MutexInv' /\ HandInv'
  <2>1. Holders' = Holders
    BY <1>1 DEF Holders
  <2> QED BY <1>1, <2>1 DEF IInv, MutexInv, HandInv, Reserved
<1>8. OwnerInv' /\ TypeOK'
  BY <1>1, <1>4 DEF IInv, OwnerInv, TypeOK, Stores
<1> QED BY <1>5, <1>6, <1>7, <1>8 DEF IInv

\* If the value read some time ago is where the tail is now, no performed claim is
\* under way now.
LEMMA NothingTakenSince ==
  ASSUME IInv, opc = "compare", seen = tail
  PROVE  Settled = {}
<1>1. PICK C \in SUBSET Past : Taken \subseteq C /\ Trails(seen, tail, C)
  BY DEF IInv, TailInv
<1>2. C = {}
  BY <1>1, TrailsMeet, TakenPast, StateTypes DEF IInv
<1>3. Cardinality({}) = 0 /\ MaxSize - 1 \notin {}
  BY FS_EmptySet
<1>4. itail = tail
  <2>1. Taken = {}
    BY <1>1, <1>2
  <2> QED BY <1>3, <2>1, StateTypes, SizeFacts DEF IInv, TailInv, Trails
<1> QED BY <1>4, NothingTaken

LEMMA ReclaimSpaceInv ==
  ASSUME IInv, ReclaimSpace
  PROVE  IInv'
<1>1. /\ opc = "compare" /\ opc' = "idle" /\ seen' = 0
      /\ vtail' = IF Reclaimable(seen) THEN tail ELSE vtail
      /\ UNCHANGED <<itail, tail, split, nlocal, lock, wire, q, want, pc, claim, hand>>
  BY DEF ReclaimSpace, thiefVars
<1>2. TailStoresKept /\ ClaimsKept
  BY <1>1 DEF TailStoresKept, ClaimsKept, InFlight
<1>3. /\ WireInv' /\ ClaimInv' /\ TailInv'
      /\ SharedSize' = SharedSize /\ PublicSize' \in {SharedSize, PublicSize}
  <2>1. CASE Reclaimable(seen)
    <3>1. Settled = {}
      BY <1>1, <2>1, NothingTakenSince DEF Reclaimable
    <3>2. vtail' = tail /\ opc' # "compare"
      BY <1>1, <2>1
    <3> QED BY <1>1, <1>2, <3>1, <3>2, VtailFrame
  <2>2. CASE ~Reclaimable(seen)
    <3>1. vtail' = vtail
      BY <1>1, <2>2
    <3> QED BY <1>1, <1>2, <3>1, RingFrame
  <2> QED BY <2>1, <2>2
<1>4. MutexInv' /\ HandInv'
  <2>1. Holders' = Holders
    BY <1>1 DEF Holders
  <2> QED BY <1>1, <2>1 DEF IInv, MutexInv, HandInv, Reserved
<1>5. OwnerInv'
  <2>1. /\ nlocal \in Nat /\ SharedSize \in Nat /\ PublicSize \in Nat /\ MaxSize \in Nat
        /\ SharedSize <= PublicSize /\ nlocal + PublicSize < MaxSize
    BY StateTypes, SizeFacts DEF IInv, OwnerInv
  <2>2. SharedSize' <= PublicSize' /\ nlocal' + PublicSize' < MaxSize
    <3>1. CASE PublicSize' = SharedSize
      BY <1>1, <1>3, <2>1, <3>1
    <3>2. CASE PublicSize' = PublicSize
      BY <1>1, <1>3, <2>1, <3>2
    <3> QED BY <1>3, <3>1, <3>2
  <2> QED BY <1>1, <2>2 DEF OwnerInv
<1>6. TypeOK'
  <2>1. vtail' \in Slots /\ 0 \in (-MaxSize)..(2*MaxSize)
    BY <1>1, StateTypes, SizeFacts DEF IInv
  <2> QED BY <1>1, <2>1 DEF IInv, TypeOK, Stores
<1> QED BY <1>3, <1>4, <1>5, <1>6 DEF IInv

-----------------------------------------------------------------------------
(***************************************************************************)
(* The steps of a thief, and the network.                                  *)
(***************************************************************************)
LEMMA LockInv ==
  ASSUME IInv, NEW th \in Thieves, Lock(th)
  PROVE  IInv'
<1>1. /\ pc[th] = "idle" /\ lock = "unlocked" /\ lock' = "locked"
      /\ pc' = [pc EXCEPT ![th] = "locked"]
      /\ UNCHANGED <<vtail, itail, tail, split, nlocal, wire, q, opc, want, seen,
                     claim, hand>>
  BY DEF Lock, Acquire, ringVars, ownerVars
<1>2. Holders = {} /\ wire = {}
  BY <1>1 DEF IInv, MutexInv
<1>3. TailStoresKept /\ ClaimsKept
  BY <1>1, <1>2 DEF TailStoresKept, ClaimsKept, InFlight, IInv, TypeOK
<1>4. /\ WireInv' /\ ClaimInv' /\ TailInv'
      /\ SharedSize' = SharedSize /\ PublicSize' = PublicSize
  BY <1>1, <1>3, RingFrame
<1>5. MutexInv'
  <2>1. Holders' = {th}
    <3>1. opc' \notin {"inPush", "inPop"}
      BY <1>1, <1>2 DEF Holders
    <3>2. \A other \in Thieves : pc'[other] = "locked" <=> other = th
      BY <1>1, <1>2 DEF Holders, IInv, TypeOK
    <3> QED BY <3>1, <3>2 DEF Holders
  <2> QED BY <1>1, <1>2, <2>1 DEF MutexInv
<1>6. OwnerInv'
  BY <1>1, <1>4 DEF IInv, OwnerInv
<1>7. TypeOK' /\ HandInv'
  BY <1>1 DEF IInv, TypeOK, Stores, HandInv, Reserved
<1> QED BY <1>4, <1>5, <1>6, <1>7 DEF IInv

\* A steal never asks for more than is shared.
LEMMA VolumeType ==
  ASSUME NEW method \in Methods, NEW s \in Nat
  PROVE  Volume(method, s) \in 0..s
<1>1. HalfUp(s) \in 0..s /\ MaxSteal \in Nat
  BY HalfUpFacts, StealAssumption
<1> QED BY <1>1 DEF Volume, Least

\* The thief inside is the only process inside, and leaves.
LEMMA ThiefInside ==
  ASSUME IInv, NEW th \in Thieves, pc[th] = "locked"
  PROVE  /\ wire = {} /\ lock = "locked" /\ Settled = InFlight
         /\ opc \notin {"inPush", "inPop"}
         /\ \A other \in Thieves \ {th} : pc[other] # "locked"
<1>1. th \in Holders
  BY DEF Holders
<1>2. wire = {} /\ lock = "locked" /\ \A a \in Holders : a = th
  BY <1>1 DEF IInv, MutexInv
<1>3. opc \notin {"inPush", "inPop"}
  <2> SUFFICES ASSUME opc \in {"inPush", "inPop"} PROVE FALSE
    OBVIOUS
  <2>1. Owner \in Holders
    BY DEF Holders
  <2> QED BY <1>2, <2>1, OwnerWorker
<1>4. \A other \in Thieves \ {th} : pc[other] # "locked"
  BY <1>2 DEF Holders
<1>5. Settled = InFlight
  BY <1>2 DEF Settled
<1> QED BY <1>2, <1>3, <1>4, <1>5

LEMMA ReserveInv ==
  ASSUME IInv, OrderedComms, NEW th \in Thieves, NEW method \in Methods,
         Reserve(th, method)
  PROVE  IInv'
<1> DEFINE n == Volume(method, SharedSize)
<1>1. /\ pc[th] = "locked"
      /\ UNCHANGED <<vtail, itail, tail, split, nlocal, lock, q, opc, want, seen, hand>>
      /\ IF n > 0
         THEN /\ pc' = [pc EXCEPT ![th] = "copy"]
              /\ claim' = [claim EXCEPT ![th] = Claimed(n)]
              /\ wire' = wire \cup ReserveAndUnlock(th, (tail + n) % MaxSize)
         ELSE /\ pc' = [pc EXCEPT ![th] = "idle"]
              /\ wire' = wire \cup Unlock(th)
              /\ UNCHANGED claim
  BY DEF Reserve, ringVars, ownerVars
<1>2. /\ wire = {} /\ lock = "locked" /\ Settled = InFlight
      /\ opc \notin {"inPush", "inPop"}
      /\ \A other \in Thieves \ {th} : pc[other] # "locked"
  BY <1>1, ThiefInside
<1>3. /\ n \in 0..SharedSize /\ SharedSize \in 0..(MaxSize-1) /\ SharedSize \in Nat
      /\ tail \in Slots /\ split \in Slots /\ SharedSize <= PublicSize
  <2>1. SharedSize \in Nat
    BY StateTypes DEF IInv
  <2> QED BY <2>1, VolumeType, StateTypes DEF IInv, OwnerInv
<1>4. th \in Workers /\ th \notin InFlight /\ pc \in [Thieves -> {"idle", "locked", "copy", "complete"}]
      /\ claim \in [Thieves -> [start : Slots, n : 0..MaxSize]]
  BY <1>1, OwnerWorker DEF InFlight, IInv, TypeOK
<1> HIDE DEF n
<1>5. SharedSize' = SharedSize /\ PublicSize' = PublicSize /\ Past' = Past
  BY <1>1 DEF SharedSize, PublicSize, Past
<1>6. OwnerInv'
  BY <1>1, <1>5 DEF IInv, OwnerInv
<1>7. Holders' = {}
  <2>1. \A other \in Thieves : pc'[other] # "locked"
    BY <1>1, <1>2, <1>4
  <2> QED BY <1>1, <1>2, <2>1 DEF Holders
<1>8. HandInv'
  <2>1. pc'[th] # "complete" /\ hand[th] = {}
    BY <1>1, <1>4 DEF IInv, HandInv
  <2> QED BY <1>1, <1>4, <2>1 DEF IInv, HandInv, Reserved
<1>9. CASE ~(n > 0)
  <2>1. /\ pc' = [pc EXCEPT ![th] = "idle"] /\ wire' = Unlock(th) /\ UNCHANGED claim
    BY <1>1, <1>2, <1>9
  <2>2. /\ wire' \subseteq Stores /\ \A m \in wire' : m.part = "unlock"
        /\ \A a \in wire' : \A b \in wire' : a = b
    BY <1>4, <2>1, UnlockStore
  <2>3. TailStoresKept /\ ClaimsKept
    BY <1>2, <1>4, <1>1, <2>1, <2>2 DEF TailStoresKept, ClaimsKept, InFlight
  <2>4. WireInv' /\ ClaimInv' /\ TailInv'
    BY <1>1, <2>3, RingFrame
  <2>5. MutexInv'
    BY <1>1, <1>2, <1>7, <2>2 DEF MutexInv
  <2>6. TypeOK'
    BY <1>1, <2>1, <2>2 DEF IInv, TypeOK, Stores
  <2> QED BY <1>6, <1>8, <2>4, <2>5, <2>6 DEF IInv
<1>10. CASE n > 0
  <2> DEFINE t2 == (tail + n) % MaxSize
  <2>1. t2 \in Slots
    <3>1. n \in 0..Distance(tail, split)
      BY <1>3 DEF SharedSize
    <3> QED BY <1>3, <3>1, DistanceShorter
  <2>2. /\ pc' = [pc EXCEPT ![th] = "copy"]
        /\ claim' = [claim EXCEPT ![th] = [start |-> tail, n |-> n]]
        /\ wire' = {[from |-> th, part |-> "both", tail |-> t2]}
    BY <1>1, <1>2, <1>10 DEF ReserveAndUnlock, Store, Claimed
  <2> HIDE DEF t2
  <2>3. n \in 0..MaxSize /\ n \in 1..SharedSize
    BY <1>3, <1>10, SizeFacts
  <2>4. /\ InFlight' = InFlight \cup {th} /\ Settled' = Settled
        /\ \A other \in InFlight : claim'[other] = claim[other]
        /\ claim'[th].start = tail /\ claim'[th].n = n /\ pc'[th] = "copy"
    <3>1. InFlight' = InFlight \cup {th}
      BY <1>4, <2>2 DEF InFlight
    <3>2. /\ \A other \in InFlight : other # th /\ other \in Thieves
      BY <1>4 DEF InFlight
    <3>3. /\ \A other \in InFlight : claim'[other] = claim[other]
          /\ claim'[th].start = tail /\ claim'[th].n = n /\ pc'[th] = "copy"
      BY <1>4, <2>2, <3>2
    <3>4. \A m \in wire' : m.part = "both" /\ m.from = th
      BY <2>2
    <3>5. \E m \in wire' : m.part = "both" /\ m.from = th
      BY <2>2
    <3>6. Settled' = InFlight
      BY <1>4, <3>1, <3>4, <3>5 DEF Settled
    <3> QED BY <1>2, <3>1, <3>3, <3>6
  <2>5. Taken' = Taken
    <3>1. \A other \in Settled : Reserved(other)' = Reserved(other)
      BY <1>2, <2>4 DEF Reserved
    <3> QED BY <2>4, <3>1 DEF Taken
  <2>6. WireInv'
    <3>1. \A m \in wire' : m.part = "both" /\ m.from = th /\ m.tail = t2
      BY <2>2
    <3> QED BY <1>1, <1>5, <2>3, <2>4, <3>1 DEF WireInv, t2
  <2>7. ClaimInv'
    <3>1. Back(th)' = SharedSize
      BY <1>1, <2>4 DEF Back, SharedSize
    <3>2. \A other \in InFlight : Back(other)' = Back(other) /\ claim'[other] = claim[other]
      BY <1>1, <2>4 DEF Back
    <3>3. \A other \in InFlight : SharedSize <= Back(other) - claim[other].n
      BY <1>2 DEF IInv, ClaimInv
    <3>4. \A x \in InFlight' : claim'[x].n \in 1..Back(x)' /\ Back(x)' <= PublicSize'
      BY <1>3, <1>5, <2>3, <2>4, <3>1, <3>2 DEF IInv, ClaimInv
    <3>5. \A x \in Settled' : SharedSize' <= Back(x)' - claim'[x].n
      BY <1>2, <1>5, <2>4, <3>2, <3>3
    <3>6. \A x \in InFlight' : \A y \in InFlight' \ {x} :
             \/ Back(y)' <= Back(x)' - claim'[x].n
             \/ Back(x)' <= Back(y)' - claim'[y].n
      <4>1. ASSUME NEW x \in InFlight', NEW y \in InFlight' \ {x}
            PROVE  \/ Back(y)' <= Back(x)' - claim'[x].n
                   \/ Back(x)' <= Back(y)' - claim'[y].n
        <5>1. CASE x = th
          <6>1. y \in InFlight
            BY <2>4, <5>1
          <6> QED BY <3>1, <3>2, <3>3, <5>1, <6>1
        <5>2. CASE x # th /\ y = th
          <6>1. x \in InFlight
            BY <2>4, <5>2
          <6> QED BY <3>1, <3>2, <3>3, <5>2, <6>1
        <5>3. CASE x # th /\ y # th
          <6>1. x \in InFlight /\ y \in InFlight \ {x}
            BY <2>4, <5>3
          <6> QED BY <3>2, <6>1 DEF IInv, ClaimInv
        <5> QED BY <5>1, <5>2, <5>3
      <4> QED BY <4>1
    <3> QED BY <3>4, <3>5, <3>6 DEF ClaimInv
  <2>8. TailInv'
    BY <1>1, <1>5, <2>5 DEF IInv, TailInv, Trails
  <2>9. MutexInv'
    <3>1. wire' # {} /\ \A a \in wire' : \A b \in wire' : a = b
      BY <2>2
    <3> QED BY <1>1, <1>2, <1>7, <3>1 DEF MutexInv
  <2>10. TypeOK'
    <3>1. wire' \subseteq Stores
      BY <1>4, <2>1, <2>2 DEF Stores
    <3>2. /\ pc' \in [Thieves -> {"idle", "locked", "copy", "complete"}]
          /\ claim' \in [Thieves -> [start : Slots, n : 0..MaxSize]]
      BY <1>3, <1>4, <2>2, <2>3
    <3> QED BY <1>1, <3>1, <3>2 DEF IInv, TypeOK
  <2> QED BY <1>6, <1>8, <2>6, <2>7, <2>8, <2>9, <2>10 DEF IInv
<1> QED BY <1>9, <1>10

LEMMA CopyInv ==
  ASSUME IInv, NEW th \in Thieves, Copy(th)
  PROVE  IInv'
<1>1. /\ pc[th] = "copy" /\ pc' = [pc EXCEPT ![th] = "complete"]
      /\ q' = q \ Reserved(th) /\ hand' = [hand EXCEPT ![th] = Reserved(th)]
      /\ \A m \in wire : m.from # th
      /\ UNCHANGED <<vtail, itail, tail, split, nlocal, lock, wire, opc, want, seen, claim>>
  BY DEF Copy, Quiet, Reserved, ringVars, ownerVars
<1>2. pc \in [Thieves -> {"idle", "locked", "copy", "complete"}]
      /\ hand \in [Workers -> SUBSET Slots] /\ th \in Workers /\ Owner # th
  BY OwnerWorker DEF IInv, TypeOK
<1>3. TailStoresKept /\ ClaimsKept
  <2>1. InFlight' = InFlight
    BY <1>1, <1>2 DEF InFlight
  <2>2. \A m \in wire : m.part = "both" => pc'[m.from] = pc[m.from]
    BY <1>1, <1>2 DEF IInv, WireInv
  <2> QED BY <1>1, <2>1, <2>2 DEF TailStoresKept, ClaimsKept
<1>4. /\ WireInv' /\ ClaimInv' /\ TailInv'
      /\ SharedSize' = SharedSize /\ PublicSize' = PublicSize
  BY <1>1, <1>3, RingFrame
<1>5. MutexInv'
  <2>1. Holders' = Holders
    BY <1>1, <1>2 DEF Holders
  <2> QED BY <1>1, <2>1 DEF IInv, MutexInv
<1>6. OwnerInv'
  BY <1>1, <1>2, <1>4 DEF IInv, OwnerInv
<1>7. HandInv'
  <2>1. hand'[th] = Reserved(th) /\ pc'[th] = "complete" /\ Reserved(th)' = Reserved(th)
    BY <1>1, <1>2 DEF Reserved
  <2>2. \A other \in Thieves \ {th} : /\ hand'[other] = hand[other]
                                      /\ pc'[other] = pc[other]
                                      /\ Reserved(other)' = Reserved(other)
    BY <1>1, <1>2 DEF Reserved
  <2> QED BY <2>1, <2>2 DEF IInv, HandInv
<1>8. TypeOK'
  <2>1. th \in InFlight
    BY <1>1 DEF InFlight
  <2>2. Reserved(th) \subseteq Slots
    BY <2>1, ReservedRegion
  <2>3. q' \subseteq Slots /\ hand' \in [Workers -> SUBSET Slots]
        /\ pc' \in [Thieves -> {"idle", "locked", "copy", "complete"}]
    BY <1>1, <1>2, <2>2 DEF IInv, TypeOK
  <2> QED BY <1>1, <2>3 DEF IInv, TypeOK, Stores
<1> QED BY <1>4, <1>5, <1>6, <1>7, <1>8 DEF IInv

\* A completed claim leaves the others as they are, and the counter is nearer to the
\* tail by its size.
LEMMA CompleteInv ==
  ASSUME IInv, NEW th \in Thieves, Complete(th)
  PROVE  IInv'
<1>1. /\ pc[th] = "complete" /\ itail' = itail + Increment(claim[th])
      /\ pc' = [pc EXCEPT ![th] = "idle"] /\ claim' = [claim EXCEPT ![th] = NoClaim]
      /\ hand' = [hand EXCEPT ![th] = {}]
      /\ UNCHANGED <<vtail, tail, split, nlocal, lock, wire, q, opc, want, seen>>
  BY DEF Complete, ownerVars
<1>2. /\ pc \in [Thieves -> {"idle", "locked", "copy", "complete"}]
      /\ claim \in [Thieves -> [start : Slots, n : 0..MaxSize]]
      /\ hand \in [Workers -> SUBSET Slots] /\ th \in Workers /\ Owner # th
  BY OwnerWorker DEF IInv, TypeOK
<1>3. th \in Settled /\ th \in InFlight
  BY <1>1 DEF Settled, InFlight, IInv, WireInv
<1>4. SharedSize' = SharedSize /\ PublicSize' = PublicSize /\ Past' = Past
  BY <1>1 DEF SharedSize, PublicSize, Past
<1>5. /\ InFlight' = InFlight \ {th} /\ Settled' = Settled \ {th}
      /\ \A other \in InFlight' : claim'[other] = claim[other] /\ Back(other)' = Back(other)
  <2>1. InFlight' = InFlight \ {th}
    BY <1>1, <1>2 DEF InFlight
  <2>2. \A other \in InFlight' : claim'[other] = claim[other]
    BY <1>1, <1>2, <2>1 DEF InFlight
  <2> QED BY <1>1, <2>1, <2>2 DEF Settled, Back
<1>6. Taken' = Taken \ Reserved(th)
  <2>1. \A other \in Settled \ {th} : /\ Reserved(other)' = Reserved(other)
                                      /\ Reserved(other) \cap Reserved(th) = {}
    <3> SUFFICES ASSUME NEW other \in Settled \ {th}
                 PROVE  /\ Reserved(other)' = Reserved(other)
                        /\ Reserved(other) \cap Reserved(th) = {}
      OBVIOUS
    <3>1. other \in InFlight' /\ other \in InFlight /\ th \in InFlight \ {other}
      BY <1>3, <1>5 DEF Settled
    <3> QED BY <1>5, <3>1, ReservedApart DEF Reserved
  <2>2. Taken' = UNION {Reserved(other) : other \in Settled \ {th}}
    BY <1>5, <2>1 DEF Taken
  <2> QED BY <1>3, <2>1, <2>2 DEF Taken
<1>7. WireInv'
  <2>1. \A m \in wire : m.part = "both" => m.from # th /\ pc[m.from] = "copy" /\ m.from \in Thieves
    BY <1>1 DEF IInv, WireInv
  <2>2. \A m \in wire : m.part = "both" => /\ pc'[m.from] = pc[m.from]
                                           /\ claim'[m.from] = claim[m.from]
    BY <1>1, <1>2, <2>1
  <2> QED BY <1>1, <1>4, <2>2 DEF IInv, WireInv
<1>8. ClaimInv'
  <2>1. InFlight' \subseteq InFlight /\ Settled' \subseteq Settled /\ Settled' \subseteq InFlight'
    BY <1>5 DEF Settled
  <2> QED BY <1>4, <1>5, <2>1 DEF IInv, ClaimInv
<1>9. /\ claim[th].n \in 1..(MaxSize-1) /\ claim[th].start \in Slots
      /\ Reserved(th) = Block(claim[th].start, claim[th].n)
  BY <1>3, ReservedRegion DEF Reserved
<1>10. Trails(itail', tail', Taken')
  <2>1. /\ itail \in Int /\ tail \in Slots /\ Taken \in SUBSET Slots
        /\ Trails(itail, tail, Taken)
    BY StateTypes, TakenPast DEF IInv, TailInv
  <2>2. Block(claim[th].start, claim[th].n) \subseteq Taken
    BY <1>3, <1>9 DEF Taken
  <2>3. itail' = itail + (IF claim[th].start + claim[th].n < MaxSize
                          THEN claim[th].n ELSE claim[th].n - MaxSize)
    BY <1>1 DEF Increment
  <2> DEFINE s == claim[th].start
             n == claim[th].n
  <2>4. s \in Slots /\ n \in 1..(MaxSize-1) /\ Block(s, n) \subseteq Taken
    BY <1>9, <2>2
  <2>5. itail' = itail + (IF s + n < MaxSize THEN n ELSE n - MaxSize)
    BY <2>3
  <2>6. tail' = tail /\ Taken' = Taken \ Block(s, n)
    BY <1>1, <1>6, <1>9
  <2> HIDE DEF s, n
  <2>7. Trails(itail + (IF s + n < MaxSize THEN n ELSE n - MaxSize), tail,
               Taken \ Block(s, n))
    BY <2>1, <2>4, TrailsShrink
  <2> QED BY <2>5, <2>6, <2>7
<1>11. TailInv'
  <2>1. ASSUME opc = "compare"
        PROVE  \E C \in SUBSET Past : Taken' \subseteq C /\ Trails(seen, tail, C)
    <3>1. PICK C \in SUBSET Past : Taken \subseteq C /\ Trails(seen, tail, C)
      BY <2>1 DEF IInv, TailInv
    <3> QED BY <1>6, <3>1
  <2>2. opc' = opc /\ seen' = seen /\ tail' = tail
    BY <1>1
  <2>3. \A C : Trails(seen, tail, C)' <=> Trails(seen, tail, C)
    BY <2>2 DEF Trails
  <2> QED BY <1>4, <1>10, <2>1, <2>2, <2>3 DEF TailInv
<1>12. MutexInv'
  <2>1. Holders' = Holders
    BY <1>1, <1>2 DEF Holders
  <2> QED BY <1>1, <2>1 DEF IInv, MutexInv
<1>13. OwnerInv'
  BY <1>1, <1>2, <1>4 DEF IInv, OwnerInv
<1>14. HandInv'
  <2>1. hand'[th] = {} /\ pc'[th] = "idle"
    BY <1>1, <1>2
  <2>2. \A other \in Thieves \ {th} : /\ hand'[other] = hand[other]
                                      /\ pc'[other] = pc[other]
                                      /\ Reserved(other)' = Reserved(other)
    BY <1>1, <1>2 DEF Reserved, InFlight
  <2> QED BY <2>1, <2>2 DEF IInv, HandInv
<1>15. TypeOK'
  <2>1. itail' \in (-MaxSize)..(2*MaxSize)
    <3>1. Taken' \in SUBSET Slots /\ tail' \in Slots
      BY <1>1, <1>6, TakenPast, StateTypes DEF IInv
    <3> QED BY <1>10, <3>1, TrailsBound
  <2>2. NoClaim \in [start : Slots, n : 0..MaxSize]
    BY SizeFacts DEF NoClaim
  <2>3. /\ pc' \in [Thieves -> {"idle", "locked", "copy", "complete"}]
        /\ claim' \in [Thieves -> [start : Slots, n : 0..MaxSize]]
        /\ hand' \in [Workers -> SUBSET Slots]
    BY <1>1, <1>2, <2>2
  <2> QED BY <1>1, <2>1, <2>3 DEF IInv, TypeOK, Stores
<1> QED BY <1>7, <1>8, <1>11, <1>12, <1>13, <1>14, <1>15 DEF IInv

\* The store that only unlocks.
LEMMA DeliverUnlockInv ==
  ASSUME IInv, NEW m \in wire, Deliver(m), m.part = "unlock"
  PROVE  IInv'
<1>1. /\ wire' = wire \ {m} /\ tail' = tail /\ lock' = "unlocked"
      /\ UNCHANGED <<vtail, itail, split, nlocal, q, opc, want, seen, pc, claim, hand>>
  BY DEF Deliver, ownerVars, thiefVars
<1>2. TailStoresKept /\ ClaimsKept
  BY <1>1 DEF TailStoresKept, ClaimsKept, InFlight
<1>3. /\ WireInv' /\ ClaimInv' /\ TailInv'
      /\ SharedSize' = SharedSize /\ PublicSize' = PublicSize
  BY <1>1, <1>2, RingFrame
<1>4. MutexInv' /\ HandInv'
  <2>1. Holders' = Holders /\ Holders = {} /\ wire' = {}
    BY <1>1 DEF IInv, MutexInv, Holders
  <2> QED BY <1>1, <2>1 DEF IInv, MutexInv, HandInv, Reserved
<1>5. OwnerInv'
  BY <1>1, <1>3 DEF IInv, OwnerInv
<1>6. TypeOK'
  BY <1>1 DEF IInv, TypeOK, Stores
<1> QED BY <1>3, <1>4, <1>5, <1>6 DEF IInv

\* The store that moves the tail over the claim of the thief that sent it.
LEMMA DeliverBothInv ==
  ASSUME IInv, NEW m \in wire, Deliver(m), m.part = "both"
  PROVE  IInv'
<1> DEFINE th == m.from
           n  == claim[m.from].n
<1>1. /\ wire' = wire \ {m} /\ tail' = m.tail /\ lock' = "unlocked"
      /\ UNCHANGED <<vtail, itail, split, nlocal, q, opc, want, seen, pc, claim, hand>>
  BY DEF Deliver, ownerVars, thiefVars
<1>2. /\ th \in Thieves /\ pc[th] = "copy" /\ claim[th].start = tail
      /\ n \in 1..SharedSize /\ m.tail = (tail + n) % MaxSize
  BY DEF IInv, WireInv
<1>3. th \in InFlight /\ th \notin Settled
  BY <1>2 DEF InFlight, Settled
<1>4. Settled = InFlight \ {th} /\ Back(th) = SharedSize
  BY <1>3, UnsettledClaim
<1>5. wire' = {} /\ Holders = {} /\ Holders' = {}
  BY <1>1 DEF IInv, MutexInv, Holders
<1>6. /\ SharedSize \in Nat /\ PublicSize \in Nat /\ SharedSize <= PublicSize
      /\ SharedSize < MaxSize /\ MaxSize \in Nat /\ nlocal \in Nat /\ want \in Nat
      /\ tail \in Slots /\ split \in Slots
  BY StateTypes, SizeFacts DEF IInv, OwnerInv
<1> HIDE DEF th, n
<1>7. tail' \in Slots /\ SharedSize' = SharedSize - n /\ PublicSize' = PublicSize
  <2>1. n \in 0..Distance(tail, split)
    BY <1>2, <1>6 DEF SharedSize
  <2>2. tail' \in Slots /\ Distance(tail', split) = Distance(tail, split) - n
    BY <1>1, <1>2, <1>6, <2>1, DistanceShorter
  <2> QED BY <1>1, <2>2 DEF SharedSize, PublicSize
<1>8. /\ InFlight' = InFlight /\ Settled' = InFlight
      /\ \A x \in InFlight : Back(x)' = Back(x) /\ Reserved(x)' = Reserved(x)
  BY <1>1, <1>5 DEF InFlight, Settled, Back, Reserved
<1>9. WireInv'
  BY <1>5 DEF WireInv
<1>10. /\ Reserved(th) = Block(tail, n) /\ n \in 1..(MaxSize-1)
       /\ Reserved(th) = Behind(MaxSize, split, SharedSize - n, SharedSize)
  <2>1. Reserved(th) = Behind(MaxSize, split, Back(th) - claim[th].n, Back(th))
        /\ claim[th].n \in 1..(MaxSize-1)
    BY <1>3, ReservedRegion
  <2>2. claim[th].n = n
    BY DEF th, n
  <2> QED BY <1>2, <1>4, <2>1, <2>2 DEF Reserved
<1>11. ClaimInv'
  <2>1. \A x \in InFlight : SharedSize - n <= Back(x) - claim[x].n
    <3> SUFFICES ASSUME NEW x \in InFlight
                 PROVE  SharedSize - n <= Back(x) - claim[x].n
      OBVIOUS
    <3>1. CASE x = th
      <4>1. claim[th].n = n
        BY DEF th, n
      <4> QED BY <1>2, <1>4, <1>6, <3>1, <4>1
    <3>2. CASE x # th
      <4>1. SharedSize <= Back(x) - claim[x].n
        BY <1>4, <3>2 DEF IInv, ClaimInv
      <4>2. Back(x) \in Nat /\ claim[x].n \in Nat
        BY ReservedRegion, SizeFacts
      <4> QED BY <1>2, <1>6, <4>1, <4>2
    <3> QED BY <3>1, <3>2
  <2>2. claim' = claim
    BY <1>1
  <2> QED BY <1>7, <1>8, <2>1, <2>2 DEF IInv, ClaimInv
<1>12. Taken' = Taken \cup Block(tail, n)
  <2>1. Taken' = UNION {Reserved(x) : x \in InFlight}
    BY <1>8 DEF Taken
  <2> QED BY <1>3, <1>4, <1>10, <2>1 DEF Taken
<1>13. ASSUME NEW i \in Int, NEW C \in SUBSET Past, Trails(i, tail, C)
       PROVE  Trails(i, tail', C \cup Block(tail, n)) /\ C \cup Block(tail, n) \subseteq Past'
  <2>1. /\ split \in 0..(MaxSize-1) /\ SharedSize - n \in Int /\ SharedSize \in Int
        /\ PublicSize \in Int /\ SharedSize - n <= SharedSize
    BY <1>2, <1>6, SizeFacts
  <2>2. Block(tail, n) \cap Past = {}
    BY <1>10, <2>1, SizeFacts, BehindApart DEF Past
  <2>3. Block(tail, n) \subseteq Past' /\ Past \subseteq Past'
    <3>1. Past' = Behind(MaxSize, split, SharedSize - n, PublicSize)
      BY <1>1, <1>7 DEF Past
    <3> QED BY <1>6, <1>10, <2>1, <3>1, SizeFacts, BehindWithin DEF Past
  <2>4. Block(tail, n) \cap C = {} /\ C \in SUBSET Slots
    BY <2>2, TakenPast
  <2>5. Trails(i, (tail + n) % MaxSize, C \cup Block(tail, n))
    BY <1>6, <1>10, <1>13, <2>4, TrailsGrow
  <2> QED BY <1>1, <1>2, <2>3, <2>5
<1>14. TailInv'
  <2>1. Trails(itail, tail', Taken')
    <3>1. itail \in Int /\ Taken \in SUBSET Past /\ Trails(itail, tail, Taken)
      BY StateTypes, TakenPast DEF IInv, TailInv
    <3> QED BY <1>12, <1>13, <3>1
  <2>2. ASSUME opc = "compare"
        PROVE  \E C \in SUBSET Past' : Taken' \subseteq C /\ Trails(seen, tail', C)
    <3>1. PICK C \in SUBSET Past : Taken \subseteq C /\ Trails(seen, tail, C)
      BY <2>2 DEF IInv, TailInv
    <3>2. seen \in Int
      BY StateTypes DEF IInv
    <3>3. /\ Trails(seen, tail', C \cup Block(tail, n))
          /\ C \cup Block(tail, n) \in SUBSET Past'
      BY <1>13, <3>1, <3>2
    <3>4. Taken' \subseteq C \cup Block(tail, n)
      BY <1>12, <3>1
    <3> QED BY <3>3, <3>4
  <2>3. opc' = opc /\ seen' = seen /\ itail' = itail
    BY <1>1
  <2>4. \A C : Trails(seen, tail, C)' <=> Trails(seen, tail', C)
    BY <2>3 DEF Trails
  <2>5. Trails(itail, tail, Taken)'
    BY <2>1, <2>3 DEF Trails
  <2> QED BY <2>2, <2>3, <2>4, <2>5 DEF TailInv
<1>15. MutexInv' /\ HandInv'
  BY <1>1, <1>5 DEF IInv, MutexInv, HandInv, Reserved
<1>16. OwnerInv'
  <2>1. /\ nlocal + PublicSize < MaxSize
        /\ opc \in {"lockPop", "inPop"} => nlocal = 0 /\ hand[Owner] = {}
        /\ opc \in {"lockPush", "inPush"} =>
             \/ (nlocal + SharedSize) + want < MaxSize
             \/ nlocal + want > MaxSize
    BY DEF IInv, OwnerInv
  <2>2. SharedSize - n <= SharedSize /\ SharedSize - n \in Int
    BY <1>2, <1>6
  <2> QED BY <1>1, <1>6, <1>7, <2>1, <2>2 DEF OwnerInv
<1>17. TypeOK'
  BY <1>1, <1>5, <1>7 DEF IInv, TypeOK
<1> QED BY <1>9, <1>11, <1>14, <1>15, <1>16, <1>17 DEF IInv

-----------------------------------------------------------------------------
(***************************************************************************)
(* The invariant holds in every state.                                     *)
(***************************************************************************)
\* A queue without tasks and without claims, whatever the lock is.
Blank ==
  /\ vtail = 0 /\ itail = 0 /\ tail = 0 /\ split = 0 /\ nlocal = 0
  /\ wire = {} /\ q = {} /\ opc = "idle"
  /\ \A th \in Thieves : pc[th] = "idle"
  /\ hand = [w \in Workers |-> {}]

LEMMA BlankInv == TypeOK /\ Blank => IInv
<1> SUFFICES ASSUME TypeOK, Blank PROVE IInv
  OBVIOUS
<1>1. InFlight = {} /\ Settled = {} /\ Holders = {}
  BY DEF Blank, InFlight, Settled, Holders
<1>2. Taken = {} /\ Cardinality({}) = 0
  BY <1>1, FS_EmptySet DEF Taken
<1>3. SharedSize = 0 /\ PublicSize = 0
  BY SizeFacts DEF Blank, SharedSize, PublicSize, Distance
<1>4. MutexInv /\ WireInv /\ ClaimInv
  BY <1>1 DEF Blank, MutexInv, WireInv, ClaimInv
<1>5. OwnerInv
  BY <1>3, SizeFacts DEF Blank, OwnerInv
<1>6. TailInv
  BY <1>2, SizeFacts DEF Blank, TailInv, Trails
<1>7. HandInv
  BY OwnerWorker DEF Blank, HandInv
<1> QED BY <1>4, <1>5, <1>6, <1>7 DEF IInv

LEMMA InitInv == Init => IInv
<1> SUFFICES ASSUME Init PROVE IInv
  OBVIOUS
<1>1. Blank
  BY DEF Init, Blank
<1>2. TypeOK
  BY SizeFacts DEF Init, TypeOK, NoClaim, Stores
<1> QED BY <1>1, <1>2, BlankInv

\* A reset finds no claim and nobody inside; the queue is blank again.
LEMMA ResetBlank ==
  ASSUME IInv, Reset
  PROVE  TypeOK' /\ Blank' /\ hand = [w \in Workers |-> {}]
<1>1. /\ opc = "idle" /\ wire = {} /\ hand[Owner] = {} /\ \A th \in Thieves : pc[th] = "idle"
      /\ vtail' = 0 /\ itail' = 0 /\ tail' = 0 /\ split' = 0 /\ nlocal' = 0 /\ q' = {}
      /\ UNCHANGED <<lock, wire, opc, want, seen, pc, claim, hand>>
  BY DEF Reset, ownerVars, thiefVars
<1>2. \A w \in Workers : hand[w] = {}
  BY <1>1 DEF IInv, HandInv, Workers
<1>3. hand = [w \in Workers |-> {}]
  BY <1>2 DEF IInv, TypeOK
<1>4. TypeOK'
  BY <1>1, SizeFacts DEF IInv, TypeOK, Stores
<1> QED BY <1>1, <1>3, <1>4 DEF Blank

LEMMA ResetInv ==
  ASSUME IInv, Reset
  PROVE  IInv'
<1>1. TypeOK' /\ Blank'
  BY ResetBlank
<1>2. (TypeOK /\ Blank => IInv)'
  BY BlankInv, PTL
<1> QED BY <1>1, <1>2

LEMMA NextInv ==
  ASSUME OrderedComms, ~MayFill, IInv, [Next]_vars
  PROVE  IInv'
<1>1. CASE OwnerNext
  BY <1>1, PushInv, EnsureAbortInv, EnsureReclaimInv, OwnerLockInv, PopExecuteInv,
     ReacquirePopInv, ReleaseInv, ReadItailInv, ReclaimSpaceInv DEF OwnerNext
<1>2. CASE Reset
  BY <1>2, ResetInv
<1>3. ASSUME NEW th \in Thieves, Steal(th) PROVE IInv'
  BY <1>3, LockInv, ReserveInv, CopyInv, CompleteInv DEF Steal
<1>4. ASSUME NEW m \in wire, Deliver(m) PROVE IInv'
  <2>1. m.part \in {"unlock", "both"}
    BY DEF IInv, WireInv
  <2> QED BY <1>4, <2>1, DeliverUnlockInv, DeliverBothInv
<1>5. CASE UNCHANGED vars
  <2>1. UNCHANGED <<vtail, itail, tail, split, nlocal, lock, wire, q, opc, want, seen,
                    pc, claim, hand>>
    BY <1>5 DEF vars, ringVars, ownerVars, thiefVars
  <2>2. TailStoresKept /\ ClaimsKept
    BY <2>1 DEF TailStoresKept, ClaimsKept, InFlight
  <2>3. /\ WireInv' /\ ClaimInv' /\ TailInv'
        /\ SharedSize' = SharedSize /\ PublicSize' = PublicSize
    BY <2>1, <2>2, RingFrame
  <2>4. Holders' = Holders
    BY <2>1 DEF Holders
  <2>5. MutexInv' /\ HandInv' /\ OwnerInv' /\ TypeOK'
    BY <2>1, <2>3, <2>4 DEF IInv, MutexInv, HandInv, Reserved, OwnerInv, TypeOK, Stores
  <2> QED BY <2>3, <2>5 DEF IInv
<1> QED BY <1>1, <1>2, <1>3, <1>4, <1>5 DEF Next

LEMMA InvCorrect ==
  ASSUME OrderedComms, ~MayFill
  PROVE  Spec => []IInv
<1>1. IInv /\ [Next]_vars => IInv'
  BY NextInv
<1> QED BY <1>1, InitInv, PTL DEF Spec

\* Types; in particular itail, to which thieves add numbers of either sign in any
\* order, stays within one turn of the ring on either side.
THEOREM TailsStayBounded ==
  ASSUME OrderedComms, ~MayFill
  PROVE  Spec => []TypeOK
<1>1. IInv => TypeOK
  BY DEF IInv
<1> QED BY <1>1, InvCorrect, PTL

\* Local tasks, shared tasks and claims never share a slot: nothing is handed out
\* twice and no push writes over a claim that is being copied.
THEOREM RegionsNeverOverlap ==
  ASSUME OrderedComms, ~MayFill
  PROVE  Spec => []RegionsDisjoint
BY InvCorrect, InvDisjoint, PTL

\* What sdc_shrb_reclaim_space frees contains no slot of a claim under way, although
\* it reads itail and tail at two moments and without the lock.
THEOREM ClaimsStayReserved ==
  ASSUME OrderedComms, ~MayFill
  PROVE  Spec => []ReservedBehindTail
BY InvCorrect, InvBehindTail, PTL

\* itail equals the tail only when every claim behind the tail is copied.
THEOREM EqualTailsMeanCopied ==
  ASSUME OrderedComms, ~MayFill
  PROVE  Spec => []TailsMeetWhenCopied
BY InvCorrect, InvTailsMeet, PTL

\* The assertion in sdc_shrb_public_size holds in a program that never fills the
\* ring: a public part that looks empty is empty.
THEOREM AssertionHolds ==
  ASSUME OrderedComms, ~MayFill
  PROVE  Spec => []EmptyAsserted
BY InvCorrect, InvAsserted, PTL

-----------------------------------------------------------------------------
(***************************************************************************)
(* The queue as a pool.                                                    *)
(***************************************************************************)
\* How blocks of slots are put together.
LEMMA BlockRegion == \A s, n : Block(s, n) = Region(MaxSize, s, n)
BY DEF Block, Region

LEMMA BlockAppend ==
  ASSUME NEW s \in Nat, NEW a \in Nat, NEW b \in Nat
  PROVE  Block(s, a + b) = Block(s, a) \cup Block(s + a, b)
<1>1. MaxSize \in Nat \ {0}
  BY SizeFacts
<1>2. Region(MaxSize, s, a + b) = Region(MaxSize, s, a) \cup Region(MaxSize, s + a, b)
  BY <1>1, RegionAppend
<1> QED BY <1>2, BlockRegion

LEMMA BlockSplit ==
  ASSUME NEW s \in Nat, NEW c \in Nat, NEW a \in 0..c
  PROVE  Block(s, c) = Block(s, a) \cup Block(s + a, c - a)
<1>1. Region(MaxSize, s, c) = Region(MaxSize, s, a) \cup Region(MaxSize, s + a, c - a)
  BY SizeFacts, RegionSplit
<1> QED BY <1>1, BlockRegion

LEMMA BlocksApart ==
  ASSUME NEW s \in Nat, s < 2 * MaxSize, NEW a \in Nat, NEW b \in Nat, a + b <= MaxSize,
         NEW u, u = s + a
  PROVE  Block(s, a) \cap Block(u, b) = {}
<1>1. Region(MaxSize, s, a) \cap Region(MaxSize, u, b) = {}
  BY SizeFacts, RegionNextApart
<1> QED BY <1>1, BlockRegion

LEMMA BlockMeets ==
  ASSUME NEW s \in Nat, s < 2 * MaxSize, NEW t \in Slots, Meets(MaxSize, s, t),
         NEW n \in 0..MaxSize
  PROVE  Block(s, n) = Block(t, n)
<1>1. Region(MaxSize, s, n) = Region(MaxSize, t, n)
  BY SizeFacts, RegionMeets
<1> QED BY <1>1, BlockRegion

LEMMA SmallBlocks ==
  ASSUME NEW s \in Nat
  PROVE  Block(s, 0) = {} /\ Block(s, 1) = {s % MaxSize}
BY SizeFacts, SmallRegions, BlockRegion

LEMMA NonemptyBlock ==
  ASSUME NEW s \in Nat, NEW n \in Nat \ {0}
  PROVE  s % MaxSize \in Block(s, n)
BY SizeFacts, NonemptyRegion, BlockRegion

\* What is known before and after every step.
Sound == IInv /\ NothingLost

\* What is shown of every step.
PoolStep == NothingLost' /\ [Pool!Next]_(Pool!vars)

\* The tasks of the claims not copied yet.
Pending == UNION {Reserved(th) : th \in Copying}

LEMMA HeldSets == NothingLost <=> q = (Local \cup Shared) \cup Pending
BY DEF NothingLost, Pending

\* Regions that do not overlap, in the form the steps use.
LEMMA HeldApart ==
  ASSUME IInv
  PROVE  /\ Local \cap Shared = {}
         /\ \A th \in InFlight : Reserved(th) \cap (Local \cup Shared) = {}
         /\ \A th \in InFlight : \A other \in InFlight \ {th} :
               Reserved(th) \cap Reserved(other) = {}
         /\ Copying \subseteq InFlight
         /\ Pending \cap (Local \cup Shared) = {}
<1>1. RegionsDisjoint
  BY InvDisjoint
<1>2. Copying \subseteq InFlight
  BY DEF Copying, InFlight
<1>3. Pending \cap (Local \cup Shared) = {}
  BY <1>1, <1>2 DEF RegionsDisjoint, Pending
<1> QED BY <1>1, <1>2, <1>3 DEF RegionsDisjoint

\* The claims not copied yet stay as they are.
LEMMA PendingFrame ==
  ASSUME Copying' = Copying, \A th \in Copying : claim'[th] = claim[th]
  PROVE  Pending' = Pending
<1>1. \A th \in Copying : Reserved(th)' = Reserved(th)
  BY DEF Reserved
<1> QED BY <1>1 DEF Pending

\* A step after which the next claim starts where it would have started before.
LEMMA PoolFrame ==
  ASSUME Sound, UNCHANGED <<split, nlocal, q>>, MovedTail' = MovedTail,
         Copying' = Copying, \A th \in Copying : claim'[th] = claim[th]
  PROVE  NothingLost'
<1>1. Local' = Local /\ Shared' = Shared /\ Pending' = Pending
  BY PendingFrame DEF Local, Shared, NShared
<1> QED BY <1>1, HeldSets DEF Sound, NothingLost, Pending

\* The stores on the way that move the tail.
TailMoves == {m \in wire : m.part # "unlock"}

\* The next claim starts at the tail when nothing is on the way but unlocking stores.
LEMMA MovedTailFrame ==
  ASSUME tail' = tail, TailStoresKept
  PROVE  MovedTail' = MovedTail
<1> DEFINE TailOf(S) == IF S = {} THEN tail ELSE (CHOOSE m \in S : TRUE).tail
<1>1. TailMoves' = TailMoves
  BY DEF TailStoresKept, TailMoves
<1>2. MovedTail = TailOf(TailMoves)
  BY DEF MovedTail, TailMoves
<1>3. MovedTail' = TailOf(TailMoves')
  BY DEF MovedTail, TailMoves
<1> HIDE DEF TailOf
<1> QED BY <1>1, <1>2, <1>3

LEMMA MovedTailQuiet ==
  ASSUME \A m \in wire : m.part = "unlock"
  PROVE  MovedTail = tail
<1>1. {m \in wire : m.part # "unlock"} = {}
  OBVIOUS
<1> QED BY <1>1 DEF MovedTail

\* The steps of the owner that move no task.
LEMMA QuietPool ==
  ASSUME Sound, EnsureAbort \/ OwnerLock \/ ReadItail \/ ReclaimSpace
  PROVE  PoolStep
<1>1. UNCHANGED <<tail, split, nlocal, wire, q, hand, pc, claim>>
  BY DEF EnsureAbort, OwnerLock, ReadItail, ReclaimSpace, ringVars, thiefVars
<1>2. MovedTail' = MovedTail
  BY <1>1, MovedTailFrame DEF TailStoresKept
<1>3. NothingLost'
  BY <1>1, <1>2, PoolFrame DEF Copying
<1> QED BY <1>1, <1>3 DEF PoolStep, Pool!vars

LEMMA ExecutePool ==
  ASSUME Sound, Execute
  PROVE  PoolStep
<1>1. UNCHANGED <<tail, split, nlocal, wire, q, pc, claim>>
      /\ hand[Owner] # {} /\ hand' = [hand EXCEPT ![Owner] = {}]
  BY DEF Execute, ringVars, thiefVars
<1>2. MovedTail' = MovedTail
  BY <1>1, MovedTailFrame DEF TailStoresKept
<1>3. NothingLost'
  BY <1>1, <1>2, PoolFrame DEF Copying
<1>4. Pool!Finish(Owner)
  BY <1>1 DEF Pool!Finish
<1> QED BY <1>3, <1>4, OwnerWorker DEF PoolStep, Pool!Next

\* The new tasks go behind the local ones, into slots of no region.
LEMMA FillPool ==
  ASSUME Sound, IInv', NEW n \in Nat, Fill(n), UNCHANGED <<split, pc, claim, hand>>,
         MovedTail' = MovedTail
  PROVE  PoolStep
<1> DEFINE new == Block(split + nlocal, n)
<1>1. split \in Nat /\ nlocal \in Nat
  BY StateTypes, SizeFacts DEF Sound, IInv
<1>2. q' = q \cup new /\ nlocal' = nlocal + n
  BY DEF Fill
<1>3. Local' = Local \cup new
  BY <1>1, <1>2, BlockAppend DEF Local
<1>4. Shared' = Shared /\ Pending' = Pending
  BY PendingFrame DEF Shared, NShared, Copying
<1> HIDE DEF new
<1>5. q' = (Local' \cup Shared') \cup Pending'
  <2>1. q = (Local \cup Shared) \cup Pending
    BY HeldSets DEF Sound
  <2> QED BY <1>2, <1>3, <1>4, <2>1
<1>6. NothingLost'
  BY <1>5 DEF NothingLost, Pending
<1>7. q' \subseteq Slots
  BY DEF IInv, TypeOK
<1>8. CASE q' = q
  BY <1>6, <1>8 DEF PoolStep, Pool!vars
<1>9. CASE q' # q
  <2>1. Pool!Put
    BY <1>2, <1>7, <1>9 DEF Pool!Put
  <2> QED BY <1>6, <2>1 DEF PoolStep, Pool!Next
<1> QED BY <1>8, <1>9

LEMMA PushPool ==
  ASSUME Sound, IInv', NEW n \in 1..MaxPush, Push(n)
  PROVE  PoolStep
<1>1. UNCHANGED <<tail, split, wire, pc, claim, hand>>
  BY DEF Push, thiefVars
<1>2. MovedTail' = MovedTail
  BY <1>1, MovedTailFrame DEF TailStoresKept
<1>3. CASE Fill(n)
  <2>1. n \in Nat
    BY SizeFacts
  <2> QED BY <1>1, <1>2, <1>3, <2>1, FillPool
<1>4. CASE UNCHANGED <<q, nlocal>>
  <2>1. NothingLost'
    BY <1>1, <1>2, <1>4, PoolFrame DEF Copying
  <2> QED BY <1>1, <1>4, <2>1 DEF PoolStep, Pool!vars
<1> QED BY <1>3, <1>4 DEF Push

LEMMA EnsureReclaimPool ==
  ASSUME Sound, IInv', EnsureReclaim
  PROVE  PoolStep
<1>1. /\ opc = "inPush" /\ opc' = "idle" /\ wire' = wire \cup Unlock(Owner)
      /\ Fill(want) /\ UNCHANGED <<tail, split, lock, pc, claim, hand>>
  BY DEF EnsureReclaim, thiefVars
<1>2. TailStoresKept
  BY <1>1, OwnerUnlocks DEF Sound
<1>3. MovedTail' = MovedTail
  BY <1>1, <1>2, MovedTailFrame
<1>4. want \in Nat
  BY SizeFacts DEF Sound, IInv, TypeOK
<1> QED BY <1>1, <1>3, <1>4, FillPool

\* The newest local task is the last slot of the local part.
LEMMA PopHeadPool ==
  ASSUME Sound, PopHead
  PROVE  PoolStep
<1>1. UNCHANGED <<tail, split, wire, pc, claim>> /\ hand[Owner] = {}
  BY DEF PopHead, thiefVars
<1>2. MovedTail' = MovedTail
  BY <1>1, MovedTailFrame DEF TailStoresKept
<1>3. CASE ~(nlocal > 0)
  <2>1. UNCHANGED <<hand, q, nlocal>>
    BY <1>3 DEF PopHead
  <2>2. NothingLost'
    BY <1>1, <1>2, <2>1, PoolFrame DEF Copying
  <2> QED BY <2>1, <2>2 DEF PoolStep, Pool!vars
<1>4. CASE nlocal > 0
  <2> DEFINE k == nlocal - 1
  <2>1. /\ hand' = [hand EXCEPT ![Owner] = {Head}] /\ q' = q \ {Head} /\ nlocal' = k
    BY <1>4 DEF PopHead
  <2>2. /\ split \in Nat /\ nlocal \in Nat /\ k \in Nat /\ k \in 0..nlocal
        /\ nlocal - k = 1 /\ k + 1 <= MaxSize /\ split < 2 * MaxSize
        /\ split + k \in Nat /\ split + nlocal - 1 = split + k
    <3>1. split \in Slots /\ nlocal \in 0..MaxSize
      BY StateTypes DEF Sound, IInv
    <3> QED BY <1>4, <3>1, SizeFacts
  <2>3. Block(split + k, 1) = {Head}
    BY <2>2, SmallBlocks DEF Head
  <2>4. Local' = Block(split, k)
    BY <1>1, <2>1 DEF Local
  <2> HIDE DEF k
  <2>5. Block(split, nlocal) = Block(split, k) \cup Block(split + k, nlocal - k)
    BY <2>2, BlockSplit
  <2>6. Block(split, k) \cap Block(split + k, 1) = {}
    BY <2>2, BlocksApart
  <2>7. Local = Local' \cup {Head} /\ Head \notin Local'
    BY <2>2, <2>3, <2>4, <2>5, <2>6 DEF Local
  <2>8. Head \notin Shared /\ Head \notin Pending
    BY <2>7, HeldApart DEF Sound
  <2>9. Shared' = Shared /\ Pending' = Pending
    BY <1>1, <1>2, PendingFrame DEF Shared, NShared, Copying
  <2>10. q = (Local \cup Shared) \cup Pending
    BY HeldSets DEF Sound
  <2>11. q' = (Local' \cup Shared') \cup Pending'
    BY <2>1, <2>7, <2>8, <2>9, <2>10
  <2>12. NothingLost'
    BY <2>11 DEF NothingLost, Pending
  <2>13. Pool!Take(Owner)
    <3>1. hand'[Owner] = {Head}
      BY <2>1, OwnerWorker DEF Sound, IInv, TypeOK
    <3> QED BY <1>1, <2>1, <2>7, <2>10, <3>1 DEF Pool!Take
  <2> QED BY <2>12, <2>13, OwnerWorker DEF PoolStep, Pool!Next
<1> QED BY <1>3, <1>4

\* The half taken back is the last part of what is shared; all of it but the newest
\* task becomes local.
LEMMA ReacquirePopPool ==
  ASSUME Sound, ReacquirePop
  PROVE  PoolStep
<1> DEFINE amount == HalfUp(SharedSize)
           head   == (Lowered(amount) + amount - 1) % MaxSize
<1>1. /\ opc = "inPop" /\ opc' = "idle" /\ wire' = wire \cup Unlock(Owner)
      /\ UNCHANGED <<tail, lock, pc, claim>>
      /\ IF amount > 0
         THEN /\ split' = Lowered(amount) /\ nlocal' = amount - 1
              /\ hand' = [hand EXCEPT ![Owner] = {head}] /\ q' = q \ {head}
         ELSE UNCHANGED <<split, nlocal, hand, q>>
  BY DEF ReacquirePop, thiefVars
<1>2. TailStoresKept /\ wire = {}
  BY <1>1, OwnerUnlocks DEF Sound
<1>3. MovedTail' = tail /\ MovedTail = tail
  BY <1>1, <1>2, MovedTailFrame, MovedTailQuiet
<1>4. /\ nlocal = 0 /\ hand[Owner] = {} /\ SharedSize \in Nat /\ SharedSize < MaxSize
      /\ tail \in Slots /\ split \in Slots
  BY <1>1, StateTypes, SizeFacts DEF Sound, IInv, OwnerInv
<1>5. amount \in 0..SharedSize
  BY <1>4, HalfUpFacts
<1> HIDE DEF amount
<1>6. CASE ~(amount > 0)
  <2>1. UNCHANGED <<split, nlocal, hand, q>>
    BY <1>1, <1>6
  <2>2. NothingLost'
    BY <1>1, <1>3, <2>1, PoolFrame DEF Copying
  <2> QED BY <2>1, <2>2 DEF PoolStep, Pool!vars
<1>7. CASE amount > 0
  <2> DEFINE left == SharedSize - amount
             k == amount - 1
  <2>1. /\ split' = Lowered(amount) /\ nlocal' = k
        /\ hand' = [hand EXCEPT ![Owner] = {head}] /\ q' = q \ {head}
    BY <1>1, <1>7
  <2>2. split' \in Slots /\ Distance(tail, split') = left
    <3>1. amount \in 0..Distance(tail, split)
      BY <1>5 DEF SharedSize
    <3> QED BY <1>4, <2>1, <3>1, DistanceLowered DEF SharedSize
  <2>3. /\ left \in Nat /\ k \in Nat /\ amount \in Nat /\ amount \in 0..MaxSize
        /\ left + amount <= MaxSize /\ k \in 0..amount /\ amount - k = 1 /\ k + 1 <= MaxSize
        /\ SharedSize - left = amount /\ left \in 0..SharedSize /\ SharedSize \in Nat
        /\ tail \in Nat /\ tail < 2 * MaxSize /\ tail + left \in Nat
        /\ tail + left < 2 * MaxSize
        /\ split' \in Nat /\ split' < 2 * MaxSize /\ split' + k \in Nat
        /\ split' + amount - 1 = split' + k
    <3>1. SharedSize \in Nat /\ SharedSize < MaxSize /\ amount \in 0..SharedSize
      BY <1>4, <1>5
    <3>2. tail \in Nat /\ tail < MaxSize /\ split' \in Nat /\ split' < MaxSize
      BY <1>4, <2>2, SizeFacts
    <3> HIDE DEF head
    <3>3. amount \in Nat /\ amount > 0 /\ amount <= SharedSize /\ MaxSize \in Nat
      BY <1>7, <3>1, SizeFacts
    <3>4. /\ left \in Nat /\ left \in 0..SharedSize /\ SharedSize - left = amount
          /\ left + amount <= MaxSize /\ left < MaxSize
      BY <3>1, <3>3
    <3>5. /\ k \in Nat /\ amount \in 0..MaxSize /\ k \in 0..amount /\ amount - k = 1
          /\ k + 1 <= MaxSize
      BY <3>1, <3>3
    <3> HIDE DEF left
    <3>6. tail < 2 * MaxSize /\ tail + left \in Nat /\ tail + left < 2 * MaxSize
      BY <3>2, <3>3, <3>4
    <3>7. split' < 2 * MaxSize /\ split' + k \in Nat /\ split' + amount - 1 = split' + k
      <4> DEFINE s == split'
      <4>1. s \in Nat /\ s < MaxSize
        BY <3>2
      <4> HIDE DEF s
      <4>2. s < 2 * MaxSize /\ s + k \in Nat /\ s + amount - 1 = s + k
        BY <3>3, <3>5, <4>1
      <4> QED BY <4>2 DEF s
    <3> QED BY <3>1, <3>2, <3>3, <3>4, <3>5, <3>6, <3>7
  <2>4. Local = {} /\ Shared = Block(tail, SharedSize)
    <3>1. split \in Nat
      BY <1>4, SizeFacts
    <3>2. NShared = SharedSize
      BY <1>3 DEF NShared, SharedSize
    <3> QED BY <1>3, <1>4, <3>1, <3>2, SmallBlocks DEF Local, Shared
  <2>5. Shared' = Block(tail, left)
    BY <1>3, <2>2 DEF Shared, NShared
  <2>6. Meets(MaxSize, tail + left, split')
    BY <1>4, <2>2, DistanceFacts
  <2>7. Local' = Block(split', k)
    BY <2>1 DEF Local
  <2>8. Block(split' + k, 1) = {head}
    BY <2>1, <2>3, SmallBlocks
  <2> HIDE DEF left, k, head
  <2>9. /\ Block(tail, SharedSize)
             = Block(tail, left) \cup Block(tail + left, SharedSize - left)
        /\ Block(tail, left) \cap Block(tail + left, amount) = {}
        /\ Block(tail + left, amount) = Block(split', amount)
    <3>1. Block(tail, SharedSize)
            = Block(tail, left) \cup Block(tail + left, SharedSize - left)
      BY <2>3, BlockSplit
    <3>2. Block(tail, left) \cap Block(tail + left, amount) = {}
      BY <2>3, BlocksApart
    <3>3. Block(tail + left, amount) = Block(split', amount)
      BY <2>2, <2>3, <2>6, BlockMeets
    <3> QED BY <3>1, <3>2, <3>3
  <2>10. /\ Block(split', amount) = Block(split', k) \cup Block(split' + k, amount - k)
         /\ Block(split', k) \cap Block(split' + k, 1) = {}
    <3>1. Block(split', amount) = Block(split', k) \cup Block(split' + k, amount - k)
      BY <2>3, BlockSplit
    <3>2. Block(split', k) \cap Block(split' + k, 1) = {}
      BY <2>3, BlocksApart
    <3> QED BY <3>1, <3>2
  <2>11. /\ Shared = (Shared' \cup Local') \cup {head}
         /\ head \notin Shared' /\ head \notin Local' /\ head \in Shared
    BY <2>3, <2>4, <2>5, <2>7, <2>8, <2>9, <2>10
  <2>12. head \notin Pending /\ Pending' = Pending
    BY <1>1, <2>11, HeldApart, PendingFrame DEF Sound, Copying
  <2>13. q = (Local \cup Shared) \cup Pending
    BY HeldSets DEF Sound
  <2>14. q' = (Local' \cup Shared') \cup Pending'
    BY <2>1, <2>4, <2>11, <2>12, <2>13
  <2>15. NothingLost'
    BY <2>14 DEF NothingLost, Pending
  <2>16. Pool!Take(Owner)
    <3>1. hand'[Owner] = {head}
      BY <2>1, OwnerWorker DEF Sound, IInv, TypeOK
    <3> QED BY <1>4, <2>1, <2>11, <2>13, <3>1 DEF Pool!Take
  <2> QED BY <2>15, <2>16, OwnerWorker DEF PoolStep, Pool!Next
<1> QED BY <1>6, <1>7

\* The older half of the local tasks becomes shared.
LEMMA ReleasePool ==
  ASSUME Sound, Release
  PROVE  PoolStep
<1> DEFINE amount == IF SharedSize = 0 THEN HalfUp(nlocal) ELSE 0
<1>1. /\ nlocal' = nlocal - amount /\ split' = (split + amount) % MaxSize
      /\ UNCHANGED <<tail, wire, q, pc, claim, hand>>
  BY DEF Release, thiefVars
<1>2. /\ nlocal \in Nat /\ PublicSize \in Nat /\ nlocal + PublicSize < MaxSize
      /\ MaxSize \in Nat /\ tail \in Slots /\ split \in Slots
  BY StateTypes, SizeFacts DEF Sound, IInv, OwnerInv
<1>3. amount \in 0..nlocal /\ amount \in Nat /\ (amount > 0 => SharedSize = 0)
  BY <1>2, HalfUpFacts
<1> HIDE DEF amount
<1>4. MovedTail' = MovedTail /\ Pending' = Pending
  BY <1>1, MovedTailFrame, PendingFrame DEF TailStoresKept, Copying
<1>5. CASE amount = 0
  <2>1. split' = split /\ nlocal' = nlocal
    <3>1. split + 0 = split /\ split % MaxSize = split /\ nlocal - 0 = nlocal
      BY <1>2, SizeFacts
    <3> QED BY <1>1, <1>5, <3>1
  <2>2. NothingLost'
    BY <1>1, <1>4, <2>1, PoolFrame DEF Copying
  <2> QED BY <1>1, <2>2 DEF PoolStep, Pool!vars
<1>6. CASE amount > 0
  <2> DEFINE rest == nlocal - amount
  <2>1. tail = split /\ Distance(tail, split) = 0
    BY <1>2, <1>3, <1>6, DistanceFacts DEF SharedSize
  <2>2. MovedTail = tail /\ NShared = 0
    <3>1. InFlight \subseteq Settled
      <4> SUFFICES ASSUME NEW th \in InFlight, th \notin Settled PROVE FALSE
        OBVIOUS
      <4>1. claim[th].n \in 1..SharedSize
        BY UnsettledClaim DEF Sound
      <4> QED BY <1>3, <1>6, <4>1
    <3>2. MovedTail = tail
      BY <3>1, NoUnsettledClaim DEF Sound
    <3> QED BY <2>1, <3>2 DEF NShared
  <2>3. split' \in Slots /\ NShared' = amount
    <3>1. Distance(tail, split) + amount < MaxSize
      BY <1>2, <1>3, <2>1
    <3>2. (split + amount) % MaxSize \in Slots
          /\ Distance(tail, (split + amount) % MaxSize) = Distance(tail, split) + amount
      BY <1>2, <1>3, <3>1, DistanceAhead
    <3> QED BY <1>1, <1>3, <1>4, <2>1, <2>2, <3>2 DEF NShared
  <2>4. /\ rest \in Nat /\ rest \in 0..MaxSize /\ amount \in 0..nlocal /\ nlocal \in Nat
        /\ tail \in Nat /\ split \in Nat /\ split + amount \in Nat
        /\ split + amount < 3 * MaxSize /\ split + amount < 2 * MaxSize
    BY <1>2, <1>3, SizeFacts
  <2>5. Meets(MaxSize, split + amount, split')
    BY <1>1, <2>4, SizeFacts, ModCases
  <2>6. Local' = Block(split', rest)
    BY <1>1 DEF Local
  <2>7. Block(split, nlocal) = Block(split, amount) \cup Block(split + amount, rest)
    BY <2>4, BlockSplit
  <2> HIDE DEF rest
  <2>8. Block(split + amount, rest) = Block(split', rest)
    BY <2>3, <2>4, <2>5, BlockMeets
  <2>9. Shared = {} /\ Shared' = Block(split, amount)
    <3>1. Shared = {}
      BY <2>2, <2>4, SmallBlocks DEF Shared
    <3>2. Shared' = Block(split, amount)
      BY <1>4, <2>1, <2>2, <2>3 DEF Shared
    <3> QED BY <3>1, <3>2
  <2>10. Local \cup Shared = Local' \cup Shared'
    BY <2>6, <2>7, <2>8, <2>9 DEF Local
  <2>11. q' = (Local' \cup Shared') \cup Pending'
    BY <1>1, <1>4, <2>10, HeldSets DEF Sound
  <2>12. NothingLost'
    BY <2>11 DEF NothingLost, Pending
  <2> QED BY <1>1, <2>12 DEF PoolStep, Pool!vars
<1> QED BY <1>3, <1>5, <1>6

LEMMA LockPool ==
  ASSUME Sound, NEW th \in Thieves, Lock(th)
  PROVE  PoolStep
<1>1. /\ pc[th] = "idle" /\ pc' = [pc EXCEPT ![th] = "locked"]
      /\ UNCHANGED <<tail, split, nlocal, wire, q, claim, hand>>
  BY DEF Lock, ringVars, ownerVars
<1>2. MovedTail' = MovedTail
  BY <1>1, MovedTailFrame DEF TailStoresKept
<1>3. Copying' = Copying
  BY <1>1 DEF Copying, Sound, IInv, TypeOK
<1>4. NothingLost'
  BY <1>1, <1>2, <1>3, PoolFrame
<1> QED BY <1>1, <1>4 DEF PoolStep, Pool!vars

\* A claim takes its slots from what is shared; they are copied later.
LEMMA ReservePool ==
  ASSUME Sound, OrderedComms, NEW th \in Thieves, NEW method \in Methods,
         Reserve(th, method)
  PROVE  PoolStep
<1> DEFINE n == Volume(method, SharedSize)
           t2 == (tail + n) % MaxSize
<1>1. /\ pc[th] = "locked" /\ UNCHANGED <<tail, split, nlocal, q, hand>>
      /\ IF n > 0
         THEN /\ pc' = [pc EXCEPT ![th] = "copy"]
              /\ claim' = [claim EXCEPT ![th] = Claimed(n)]
              /\ wire' = wire \cup ReserveAndUnlock(th, t2)
         ELSE /\ pc' = [pc EXCEPT ![th] = "idle"]
              /\ wire' = wire \cup Unlock(th)
              /\ UNCHANGED claim
  BY DEF Reserve, ringVars, ownerVars
<1>2. wire = {}
  BY <1>1, ThiefInside DEF Sound
<1>3. /\ pc \in [Thieves -> {"idle", "locked", "copy", "complete"}]
      /\ claim \in [Thieves -> [start : Slots, n : 0..MaxSize]]
      /\ th \in Workers
  BY OwnerWorker DEF Sound, IInv, TypeOK
<1>4. MovedTail = tail
  BY <1>2, MovedTailQuiet
<1>5. /\ n \in 0..SharedSize /\ SharedSize \in Nat
      /\ tail \in Slots /\ split \in Slots /\ tail \in Nat
  <2>1. SharedSize \in Nat
    BY StateTypes DEF Sound, IInv
  <2>2. n \in 0..SharedSize
    BY <2>1, VolumeType
  <2>3. tail \in Slots /\ split \in Slots
    BY StateTypes DEF Sound, IInv
  <2>4. tail \in Nat
    BY <2>3, SizeFacts
  <2> QED BY <2>1, <2>2, <2>3, <2>4
<1> HIDE DEF n
<1>6. CASE ~(n > 0)
  <2>1. pc' = [pc EXCEPT ![th] = "idle"] /\ wire' = Unlock(th) /\ UNCHANGED claim
    BY <1>1, <1>2, <1>6
  <2>2. TailStoresKept
    BY <1>2, <1>3, <2>1, UnlockStore DEF TailStoresKept
  <2>3. MovedTail' = MovedTail
    BY <1>1, <2>2, MovedTailFrame
  <2>4. Copying' = Copying
    BY <1>1, <1>3, <2>1 DEF Copying
  <2>5. NothingLost'
    BY <1>1, <2>1, <2>3, <2>4, PoolFrame
  <2> QED BY <1>1, <2>5 DEF PoolStep, Pool!vars
<1>7. CASE n > 0
  <2> DEFINE rest == SharedSize - n
  <2>1. /\ t2 \in Slots /\ Distance(t2, split) = rest
    <3>1. n \in 0..Distance(tail, split)
      BY <1>5 DEF SharedSize
    <3> QED BY <1>5, <3>1, DistanceShorter DEF SharedSize
  <2>2. Meets(MaxSize, tail + n, t2) /\ tail + n \in Nat /\ tail + n < 2 * MaxSize
    <3>1. tail + n \in Nat /\ tail + n < 2 * MaxSize /\ tail + n < 3 * MaxSize
      BY <1>5, SizeFacts, StateTypes DEF Sound, IInv
    <3> QED BY <3>1, SizeFacts, ModCases
  <2>3. rest \in 0..MaxSize
    BY <1>5, SizeFacts, StateTypes DEF Sound, IInv
  <2>4. Block(tail, SharedSize) = Block(tail, n) \cup Block(tail + n, rest)
    BY <1>5, BlockSplit
  <2> HIDE DEF rest, t2
  <2>5. Block(tail + n, rest) = Block(t2, rest)
    BY <2>1, <2>2, <2>3, BlockMeets
  <2>6. /\ pc' = [pc EXCEPT ![th] = "copy"]
        /\ claim' = [claim EXCEPT ![th] = [start |-> tail, n |-> n]]
        /\ wire' = {[from |-> th, part |-> "both", tail |-> t2]}
    BY <1>1, <1>2, <1>7 DEF ReserveAndUnlock, Store, Claimed
  <2>7. MovedTail' = t2
    <3>1. {m \in wire' : m.part # "unlock"} = wire'
      BY <2>6
    <3>2. \A m \in wire' : m.tail = t2
      BY <2>6
    <3>3. wire' # {}
      BY <2>6
    <3>4. (CHOOSE m \in wire' : TRUE) \in wire'
      BY <3>3
    <3> QED BY <3>1, <3>2, <3>3, <3>4 DEF MovedTail
  <2>8. Shared = Block(tail, SharedSize) /\ Shared' = Block(t2, rest) /\ Local' = Local
    <3>1. NShared = SharedSize /\ NShared' = rest
      BY <1>1, <1>4, <2>1, <2>7 DEF NShared, SharedSize
    <3> QED BY <1>1, <1>4, <2>7, <3>1 DEF Shared, Local
  <2>9. Pending' = Pending \cup Block(tail, n)
    <3>1. Copying' = Copying \cup {th}
      BY <1>3, <2>6 DEF Copying
    <3>2. th \notin Copying /\ \A other \in Copying : other \in Thieves
      BY <1>1 DEF Copying
    <3>3. \A other \in Copying : Reserved(other)' = Reserved(other)
      BY <1>3, <2>6, <3>2 DEF Reserved
    <3>4. Reserved(th)' = Block(tail, n)
      BY <1>3, <2>6 DEF Reserved
    <3> QED BY <3>1, <3>3, <3>4 DEF Pending
  <2>10. q' = (Local' \cup Shared') \cup Pending'
    <3>1. q = (Local \cup Shared) \cup Pending
      BY HeldSets DEF Sound
    <3> QED BY <1>1, <2>4, <2>5, <2>8, <2>9, <3>1
  <2>11. NothingLost'
    BY <2>10 DEF NothingLost, Pending
  <2> QED BY <1>1, <2>11 DEF PoolStep, Pool!vars
<1> QED BY <1>6, <1>7

LEMMA CopyPool ==
  ASSUME Sound, NEW th \in Thieves, Copy(th)
  PROVE  PoolStep
<1>1. /\ pc[th] = "copy" /\ pc' = [pc EXCEPT ![th] = "complete"]
      /\ q' = q \ Reserved(th) /\ hand' = [hand EXCEPT ![th] = Reserved(th)]
      /\ UNCHANGED <<tail, split, nlocal, wire, claim>>
  BY DEF Copy, Reserved, ringVars, ownerVars
<1>2. /\ pc \in [Thieves -> {"idle", "locked", "copy", "complete"}]
      /\ hand \in [Workers -> SUBSET Slots] /\ th \in Workers
  BY OwnerWorker DEF Sound, IInv, TypeOK
<1>3. th \in Copying /\ th \in InFlight
  BY <1>1 DEF Copying, InFlight
<1>4. Copying' = Copying \ {th} /\ \A other \in Copying : Reserved(other)' = Reserved(other)
  BY <1>1, <1>2 DEF Copying, Reserved
<1>5. MovedTail' = MovedTail
  BY <1>1, MovedTailFrame DEF TailStoresKept
<1>6. Local' = Local /\ Shared' = Shared
  BY <1>1, <1>5 DEF Local, Shared, NShared
<1>7. Pending' = Pending \ Reserved(th) /\ Reserved(th) \cap (Local \cup Shared) = {}
  <2>1. Pending' = UNION {Reserved(other) : other \in Copying \ {th}}
    BY <1>4 DEF Pending
  <2>2. \A other \in Copying \ {th} : Reserved(other) \cap Reserved(th) = {}
    BY <1>3, HeldApart DEF Sound
  <2>3. Reserved(th) \cap (Local \cup Shared) = {}
    BY <1>3, HeldApart DEF Sound
  <2> QED BY <1>3, <2>1, <2>2, <2>3 DEF Pending
<1>8. q = (Local \cup Shared) \cup Pending /\ Reserved(th) \subseteq Pending
  BY <1>3, HeldSets DEF Sound, Pending
<1>9. q' = (Local' \cup Shared') \cup Pending'
  BY <1>1, <1>6, <1>7, <1>8
<1>10. NothingLost'
  BY <1>9 DEF NothingLost, Pending
<1>11. Pool!Take(th)
  <2>1. hand'[th] = Reserved(th) /\ hand[th] = {}
    BY <1>1, <1>2 DEF Sound, IInv, HandInv
  <2>2. Reserved(th) # {}
    <3>1. claim[th].n \in Nat \ {0} /\ claim[th].start \in Nat
      BY <1>3, ReservedRegion, SizeFacts DEF Sound
    <3> QED BY <3>1, NonemptyBlock DEF Reserved
  <2> QED BY <1>1, <1>8, <2>1, <2>2 DEF Pool!Take
<1> QED BY <1>2, <1>10, <1>11 DEF PoolStep, Pool!Next

LEMMA CompletePool ==
  ASSUME Sound, NEW th \in Thieves, Complete(th)
  PROVE  PoolStep
<1>1. /\ pc[th] = "complete" /\ pc' = [pc EXCEPT ![th] = "idle"]
      /\ claim' = [claim EXCEPT ![th] = NoClaim] /\ hand' = [hand EXCEPT ![th] = {}]
      /\ UNCHANGED <<tail, split, nlocal, wire, q>>
  BY DEF Complete, ownerVars
<1>2. /\ pc \in [Thieves -> {"idle", "locked", "copy", "complete"}]
      /\ claim \in [Thieves -> [start : Slots, n : 0..MaxSize]] /\ th \in Workers
  BY OwnerWorker DEF Sound, IInv, TypeOK
<1>3. Copying' = Copying /\ \A other \in Copying : claim'[other] = claim[other]
  BY <1>1, <1>2 DEF Copying
<1>4. MovedTail' = MovedTail
  BY <1>1, MovedTailFrame DEF TailStoresKept
<1>5. NothingLost'
  BY <1>1, <1>3, <1>4, PoolFrame
<1>6. hand[th] # {}
  <2>1. th \in InFlight
    BY <1>1 DEF InFlight
  <2>2. claim[th].n \in Nat \ {0} /\ claim[th].start \in Nat
    BY <2>1, ReservedRegion, SizeFacts DEF Sound
  <2>3. Reserved(th) # {}
    BY <2>2, NonemptyBlock DEF Reserved
  <2> QED BY <1>1, <2>3 DEF Sound, IInv, HandInv
<1>7. Pool!Finish(th)
  BY <1>1, <1>6 DEF Pool!Finish
<1> QED BY <1>2, <1>5, <1>7 DEF PoolStep, Pool!Next

\* A store that is performed changes where nothing is: the next claim starts where
\* the last holder of the lock has put the tail.
LEMMA DeliverPool ==
  ASSUME Sound, NEW m \in wire, Deliver(m)
  PROVE  PoolStep
<1>1. /\ wire' = wire \ {m} /\ UNCHANGED <<split, nlocal, q, hand, pc, claim>>
      /\ tail' = IF m.part \in {"tail", "both"} THEN m.tail ELSE tail
  BY DEF Deliver, ownerVars, thiefVars
<1>2. wire = {m} /\ m.part \in {"unlock", "both"}
  BY DEF Sound, IInv, MutexInv, WireInv
<1>3. wire' = {}
  BY <1>1, <1>2
<1>4. MovedTail' = tail'
  BY <1>3 DEF MovedTail
<1>5. MovedTail = tail'
  <2>1. CASE m.part = "unlock"
    BY <1>1, <1>2, <2>1, MovedTailQuiet
  <2>2. CASE m.part = "both"
    <3>1. {x \in wire : x.part # "unlock"} = {m}
      BY <1>2, <2>2
    <3>2. (CHOOSE x \in {m} : TRUE) = m
      OBVIOUS
    <3> QED BY <1>1, <2>2, <3>1, <3>2 DEF MovedTail
  <2> QED BY <1>2, <2>1, <2>2
<1>6. NothingLost'
  BY <1>1, <1>4, <1>5, PoolFrame DEF Copying
<1> QED BY <1>1, <1>6 DEF PoolStep, Pool!vars

LEMMA BlankHolds == Blank => NothingLost
<1> SUFFICES ASSUME Blank PROVE NothingLost
  OBVIOUS
<1>1. Copying = {} /\ q = {} /\ split = 0 /\ nlocal = 0 /\ MovedTail = 0
  BY MovedTailQuiet DEF Blank, Copying
<1>2. NShared = 0
  BY <1>1, SizeFacts DEF NShared, Distance
<1>3. Local = {} /\ Shared = {}
  BY <1>1, <1>2, SmallBlocks DEF Local, Shared
<1> QED BY <1>1, <1>3 DEF NothingLost

LEMMA ResetPool ==
  ASSUME Sound, Reset
  PROVE  PoolStep
<1>1. Blank' /\ hand = [w \in Workers |-> {}]
  BY ResetBlank DEF Sound
<1>2. (Blank => NothingLost)'
  BY BlankHolds, PTL
<1>3. hand = Pool!Nothing
  BY <1>1 DEF Pool!Nothing
<1>4. Pool!Clear
  BY <1>3 DEF Pool!Clear, Reset
<1> QED BY <1>1, <1>2, <1>4 DEF PoolStep, Pool!Next

LEMMA NextPool ==
  ASSUME OrderedComms, Sound, IInv', [Next]_vars
  PROVE  PoolStep
<1>1. CASE OwnerNext
  BY <1>1, PushPool, EnsureReclaimPool, QuietPool, ExecutePool, PopHeadPool,
     ReacquirePopPool, ReleasePool DEF OwnerNext
<1>2. CASE Reset
  BY <1>2, ResetPool
<1>3. ASSUME NEW th \in Thieves, Steal(th) PROVE PoolStep
  BY <1>3, LockPool, ReservePool, CopyPool, CompletePool DEF Steal
<1>4. ASSUME NEW m \in wire, Deliver(m) PROVE PoolStep
  BY <1>4, DeliverPool
<1>5. CASE UNCHANGED vars
  <2>1. UNCHANGED <<tail, split, nlocal, wire, q, hand, pc, claim>>
    BY <1>5 DEF vars, ringVars, thiefVars
  <2>2. MovedTail' = MovedTail
    BY <2>1, MovedTailFrame DEF TailStoresKept
  <2>3. NothingLost'
    BY <2>1, <2>2, PoolFrame DEF Copying
  <2> QED BY <2>1, <2>3 DEF PoolStep, Pool!vars
<1> QED BY <1>1, <1>2, <1>3, <1>4, <1>5 DEF Next

LEMMA SoundCorrect ==
  ASSUME OrderedComms, ~MayFill
  PROVE  Spec => []Sound
<1>1. Init => NothingLost
  <2>1. Init => Blank
    BY DEF Init, Blank
  <2> QED BY <2>1, BlankHolds
<1>2. Sound /\ IInv' /\ [Next]_vars => NothingLost'
  BY NextPool DEF PoolStep
<1>3. Sound <=> IInv /\ NothingLost
  BY DEF Sound
<1> QED BY <1>1, <1>2, <1>3, InvCorrect, PTL DEF Spec

\* The slots with a task nobody has taken are at every moment the local ones, the
\* shared ones and those of claims not copied yet: no task is lost, none appears.
THEOREM NoTaskLost ==
  ASSUME OrderedComms, ~MayFill
  PROVE  Spec => []NothingLost
<1>1. Sound => NothingLost
  BY DEF Sound
<1> QED BY <1>1, SoundCorrect, PTL

\* The queue is a pool of tasks: with its lock, its deferred copies and its three
\* tails it does nothing that TaskPool may not do.
THEOREM QueueImplementsPool ==
  ASSUME OrderedComms, ~MayFill
  PROVE  Spec => ImplementsPool
<1>1. Init => Pool!Init
  BY DEF Init, Pool!Init, Pool!Nothing
<1>2. Sound /\ IInv' /\ [Next]_vars => [Pool!Next]_(Pool!vars)
  BY NextPool DEF PoolStep
<1>3. Sound => IInv
  BY DEF Sound
<1> QED BY <1>1, <1>2, <1>3, SoundCorrect, PTL DEF Spec, ImplementsPool, Pool!Spec
=============================================================================
