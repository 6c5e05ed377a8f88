------------------------ MODULE SawsQueueSafetyProofs ------------------------
(***************************************************************************)
(* The safety of the SAWS queue, and that it implements a pool of tasks,   *)
(* for every ring size and number of thieves, provided the owner looks for *)
(* space on every push (ReclaimFreq = 1, the value the library is built    *)
(* with).                                                                  *)
(*                                                                         *)
(* The argument describes every region of the ring by its distance behind  *)
(* the split.  The block of the current epoch ends at the split, the one   *)
(* of the last epoch ends where the current one starts, and share number i *)
(* of a block of n tasks lies Left(n, i) to Left(n, i+1) behind the end of *)
(* the block.  So regions are compared by comparing numbers, and the tail  *)
(* never passes a claim because it only moves to the first share that is   *)
(* not completed.                                                          *)
(***************************************************************************)
EXTENDS SawsQueueProofs

\* The number of shares of the current epoch's block that have been claimed.
Claimed ==
  LET n == completed[cur].itasks
  IN  IF /\ Enabled(Advertised) /\ Advertised.itasks = n
         /\ Advertised.asteals < MaxSteals(n)
      THEN Advertised.asteals ELSE MaxSteals(n)

\* The record r of a block of n tasks, k of whose shares were claimed: an entry is
\* zero or the volume of a share that was claimed, and when the record is done
\* none of its entries is zero.
RecordInv(r, n, k) ==
  /\ k <= MaxSteals(n) /\ k <= r.maxsteals
  /\ \A i \in Indices :
       r.status[i] # 0 => i < k /\ r.status[i] = Take(Left(n, i))
  /\ r.done => \A i \in Indices : i < r.maxsteals => r.status[i] # 0

\* The claim c is one of these shares, and its entry is still zero.
ClaimInv(c, r, n, k) ==
  /\ c.index < k
  /\ c.n = Take(Left(n, c.index))
  /\ c.start = r.vtail + Stolen(n, c.index)
  /\ r.status[c.index] = 0

\* The advertised steal value is about the current epoch; it is off for good only
\* when nothing was ever shared, and for the duration of a reacquire.
AdvertisedInv ==
  /\ opc = "reacquire" =>
       Enabled(snap) /\ ~Enabled(stealval) /\ nlocal = 0 /\ hand[Owner] = {}
  /\ Enabled(Advertised) =>
       /\ Advertised.valid = cur
       /\ \/ Advertised.itasks = 0
          \/ /\ Advertised.itasks = completed[cur].itasks
             /\ Advertised.tail = completed[cur].vtail
  /\ ~Enabled(Advertised) => completed[cur].itasks = 0 /\ SharedSize(tail) = 0

OwnerInv == HeadBehindTail /\ AdvertisedInv

\* The current block ends at the split, and the tail has not passed a share of it
\* that is not completed.
CurrentInv ==
  LET r == completed[cur]
  IN  /\ r.maxsteals = MaxSteals(r.itasks)
      /\ RecordInv(r, r.itasks, Claimed)
      /\ \A th \in InFlight :
           claim[th].epoch = cur => ClaimInv(claim[th], r, r.itasks, Claimed)
      /\ Meets(MaxSize, r.vtail + r.itasks, split)
      /\ \A i \in Indices : r.status[i] = 0 => Left(r.itasks, i) <= SharedSize(tail)

\* The last block had m tasks before its end was taken back.  Until its claims are
\* known to be over it ends where the current block starts, and the tail has not
\* passed the current block, nor any claim on the last one.
LastInv(m) ==
  LET r == completed[Last]
      n == completed[cur].itasks
  IN  /\ r.itasks = Stolen(m, r.maxsteals)
      /\ RecordInv(r, m, r.maxsteals)
      /\ ~r.done => /\ Meets(MaxSize, r.vtail + r.itasks, completed[cur].vtail)
                    /\ n <= SharedSize(tail)
      /\ \A th \in InFlight : claim[th].epoch = Last =>
           /\ ClaimInv(claim[th], r, m, r.maxsteals)
           /\ n + (r.itasks - Stolen(m, claim[th].index)) <= SharedSize(tail)

\* No two thieves hold the same share.
DistinctInv ==
  \A th \in InFlight : \A other \in InFlight \ {th} :
    claim[other].epoch # claim[th].epoch \/ claim[other].index # claim[th].index

\* A thief has tasks in hand from the copy to the completion.
HandInv ==
  \A th \in Thieves : hand[th] = IF pc[th] = "complete" THEN Reserved(th) ELSE {}

RingInv == CurrentInv /\ (\E m \in 0..MaxBlock : LastInv(m)) /\ DistinctInv

IInv == OwnerInv /\ RingInv /\ HandInv

-----------------------------------------------------------------------------
(***************************************************************************)
(* Shares.                                                                 *)
(***************************************************************************)
\* A share is what one steal takes: a nonempty part of what the ones before it
\* left, and the next share starts where it ends.
LEMMA ShareFacts ==
  ASSUME NEW n \in 0..MaxBlock, NEW i \in Nat
  PROVE  /\ Left(n, i) \in 0..n /\ Left(n, i + 1) \in 0..n
         /\ Stolen(n, i) = n - Left(n, i)
         /\ Take(Left(n, i)) \in 0..Left(n, i)
         /\ Left(n, i + 1) = Left(n, i) - Take(Left(n, i))
         /\ i < MaxSteals(n) => Take(Left(n, i)) > 0
         /\ i < MaxSteals(n) <=> Left(n, i) > 0
         /\ Left(n, 0) = n
         /\ MaxSteals(n) \in 0..MaxStealsPerEpoch
<1>1. n \in Nat
  BY BlockBounds
<1>2. Left(n, i) \in 0..n /\ Left(n, i + 1) \in 0..n /\ Left(n, 0) = n
  <2>1. i + 1 \in Nat
    OBVIOUS
  <2> QED BY <1>1, <2>1, LeftShrinks, LeftRecurrence
<1>3. Left(n, i + 1) = Rest(Left(n, i)) /\ Left(n, i) \in Nat
  BY <1>1, LeftRecurrence
<1>4. Take(Left(n, i)) \in 0..Left(n, i)
  BY <1>3, TakeRest
<1>5. Left(n, i) > 0 => Rest(Left(n, i)) < Left(n, i)
  BY <1>3, TakeRest
<1>6. i < MaxSteals(n) <=> Left(n, i) > 0
  BY SharesType
<1>7. Rest(Left(n, i)) = Left(n, i) - Take(Left(n, i))
  BY DEF Rest
<1>8. Stolen(n, i) = n - Left(n, i)
  BY DEF Stolen
<1>9. MaxSteals(n) \in 0..MaxStealsPerEpoch
  BY StealsFit
<1>10. Left(n, i) > 0 => Take(Left(n, i)) > 0
  BY <1>3, <1>4, <1>5, <1>7
<1>11. /\ i < MaxSteals(n) => Take(Left(n, i)) > 0
       /\ Left(n, i + 1) = Left(n, i) - Take(Left(n, i))
  BY <1>3, <1>6, <1>7, <1>10, Zenon
<1> QED BY <1>2, <1>4, <1>6, <1>8, <1>9, <1>11, Zenon

\* Later shares lie nearer to the end of the block.
LEMMA LeftMonotone ==
  ASSUME NEW n \in 0..MaxBlock, NEW i \in Nat, NEW j \in Nat, i <= j
  PROVE  Left(n, j) <= Left(n, i)
<1> DEFINE A == {k \in Nat : Left(n, i + k) <= Left(n, i)}
<1>1. 0 \in A
  <2>1. i + 0 = i
    OBVIOUS
  <2>2. Left(n, i) \in 0..n
    BY ShareFacts
  <2> QED BY <2>1, <2>2, BlockBounds
<1>2. ASSUME NEW k \in Nat, k \in A PROVE k + 1 \in A
  <2>1. i + k \in Nat /\ (i + k) + 1 = i + (k + 1)
    OBVIOUS
  <2>2. /\ Left(n, (i + k) + 1) = Left(n, i + k) - Take(Left(n, i + k))
        /\ Take(Left(n, i + k)) \in 0..Left(n, i + k) /\ Left(n, i + k) \in 0..n
    BY <2>1, ShareFacts
  <2>3. Left(n, i) \in 0..n
    BY ShareFacts
  <2> QED BY <1>2, <2>1, <2>2, <2>3, BlockBounds
<1> HIDE DEF A
<1>3. Nat \subseteq A
  BY <1>1, <1>2, SetInduction
<1>4. j - i \in Nat /\ i + (j - i) = j
  OBVIOUS
<1> QED BY <1>3, <1>4 DEF A

\* A share that comes before another ends before it starts.
LEMMA SharesApart ==
  ASSUME NEW n \in 0..MaxBlock, NEW i \in Nat, NEW j \in Nat, i < j
  PROVE  Left(n, j) <= Left(n, i) - Take(Left(n, i))
<1>1. Left(n, j) <= Left(n, i + 1)
  BY LeftMonotone
<1> QED BY <1>1, ShareFacts

\* What the owner adds up over a completion array: as far as no entry is zero it is
\* what the steals took, and in any case no more; an entry that is zero is missing.
LEMMA CopiedShares ==
  ASSUME NEW e \in Epochs, completed \in [Epochs -> Completions],
         NEW n \in 0..MaxBlock, NEW k \in 0..MaxStealsPerEpoch,
         RecordInv(completed[e], n, k)
  PROVE  \A j \in 0..MaxStealsPerEpoch :
           /\ CopiedBy(e, j) \in 0..Stolen(n, j)
           /\ (\A i \in 0..(j-1) : completed[e].status[i] # 0)
                => CopiedBy(e, j) = Stolen(n, j)
           /\ (\E i \in 0..(j-1) : i < MaxSteals(n) /\ completed[e].status[i] = 0)
                => CopiedBy(e, j) < Stolen(n, j)
<1> DEFINE N == MaxStealsPerEpoch
           st == completed[e].status
           P(j) == /\ CopiedBy(e, j) \in 0..Stolen(n, j)
                   /\ (\A i \in 0..(j-1) : st[i] # 0) => CopiedBy(e, j) = Stolen(n, j)
                   /\ (\E i \in 0..(j-1) : i < MaxSteals(n) /\ st[i] = 0)
                        => CopiedBy(e, j) < Stolen(n, j)
           A == {j \in Nat : j <= N => P(j)}
<1>1. N \in Nat /\ st \in [Indices -> Nat] /\ n \in Nat
  BY IndexFacts, BlockBounds DEF Completions
<1>2. 0 \in A
  <2>1. CopiedBy(e, 0) = 0
    BY CopiedByRecurrence
  <2>2. Left(n, 0) = n /\ Stolen(n, 0) = 0
    BY <1>1, ShareFacts DEF Stolen
  <2> QED BY <2>1, <2>2
<1>3. ASSUME NEW j \in Nat, j \in A PROVE j + 1 \in A
  <2> SUFFICES ASSUME j + 1 <= N PROVE P(j + 1)
    OBVIOUS
  <2>1. j \in Indices /\ j <= N /\ P(j)
    BY <1>1, <1>3 DEF Indices
  <2>2. CopiedBy(e, j + 1) = CopiedBy(e, j) + st[j]
    BY <2>1, CopiedByRecurrence
  <2>3. st[j] = 0 \/ st[j] = Take(Left(n, j))
    BY <2>1 DEF RecordInv
  <2>4. /\ Left(n, j) \in 0..n /\ Left(n, j + 1) \in 0..n
        /\ Stolen(n, j) = n - Left(n, j) /\ Stolen(n, j + 1) = n - Left(n, j + 1)
        /\ Take(Left(n, j)) \in 0..Left(n, j)
        /\ Left(n, j + 1) = Left(n, j) - Take(Left(n, j))
        /\ j < MaxSteals(n) => Take(Left(n, j)) > 0
    <3>1. j + 1 \in Nat
      OBVIOUS
    <3> QED BY <3>1, ShareFacts
  <2>5. Stolen(n, j + 1) = Stolen(n, j) + Take(Left(n, j))
    BY <1>1, <2>4
  <2>6. CopiedBy(e, j) \in 0..Stolen(n, j) /\ Stolen(n, j) \in Nat
        /\ Take(Left(n, j)) \in Nat
    BY <1>1, <2>1, <2>4
  <2>7. CopiedBy(e, j + 1) \in 0..Stolen(n, j + 1)
    BY <2>2, <2>3, <2>5, <2>6
  <2>8. ASSUME \A i \in 0..((j+1)-1) : st[i] # 0
        PROVE  CopiedBy(e, j + 1) = Stolen(n, j + 1)
    <3>1. \A i \in 0..(j-1) : i \in 0..((j+1)-1)
      OBVIOUS
    <3>2. j \in 0..((j+1)-1)
      OBVIOUS
    <3>3. CopiedBy(e, j) = Stolen(n, j) /\ st[j] # 0
      BY <2>1, <2>8, <3>1, <3>2
    <3> QED BY <2>2, <2>3, <2>5, <3>3
  <2>9. ASSUME NEW i \in 0..((j+1)-1), i < MaxSteals(n), st[i] = 0
        PROVE  CopiedBy(e, j + 1) < Stolen(n, j + 1)
    <3>1. CASE i = j
      BY <2>2, <2>4, <2>5, <2>6, <2>9, <3>1
    <3>2. CASE i # j
      <4>1. i \in 0..(j-1)
        BY <3>2
      <4>2. CopiedBy(e, j) < Stolen(n, j)
        BY <2>1, <2>9, <4>1
      <4> QED BY <2>2, <2>3, <2>5, <2>6, <4>2
    <3> QED BY <3>1, <3>2
  <2> HIDE DEF st
  <2> QED BY <2>7, <2>8, <2>9
<1> HIDE DEF A
<1>4. Nat \subseteq A
  BY <1>2, <1>3, SetInduction
<1> QED BY <1>4, <1>1 DEF A, P, N, st

-----------------------------------------------------------------------------
(***************************************************************************)
(* Types and ranges, collected for the steps that follow.                  *)
(***************************************************************************)
Shape ==
  /\ MaxSize \in Nat \ {0} /\ MaxBlock \in Nat /\ MaxBlock < MaxSize
  /\ cur \in Epochs /\ Last \in Epochs /\ Last # cur
  /\ \A e \in Epochs : e = cur \/ e = Last
  /\ tail \in Slots /\ split \in Slots /\ nlocal \in Nat
  /\ SharedSize(tail) \in 0..(MaxSize-1)
  /\ Meets(MaxSize, tail + SharedSize(tail), split)
  /\ completed \in [Epochs -> Completions]
  /\ \A e \in Epochs :
       /\ completed[e].itasks \in 0..MaxBlock /\ completed[e].vtail \in Slots
       /\ completed[e].done \in BOOLEAN
       /\ completed[e].maxsteals \in 0..MaxStealsPerEpoch
       /\ completed[e].status \in [Indices -> Nat]
  /\ Advertised \in StealValues /\ Advertised.itasks \in 0..MaxBlock
  /\ Advertised.tail \in Slots /\ Advertised.asteals \in Nat
  /\ Claimed \in Nat /\ Claimed <= MaxSteals(completed[cur].itasks)
  /\ \A th \in Thieves :
       /\ claim[th].epoch \in Epochs /\ claim[th].index \in Indices
       /\ claim[th].start \in Nat /\ claim[th].n \in 0..MaxBlock

LEMMA SharedSizeGap ==
  ASSUME split \in Slots, NEW t \in Slots
  PROVE  /\ SharedSize(t) = Gap(MaxSize, split, t)
         /\ SharedSize(t) \in 0..(MaxSize-1)
         /\ Meets(MaxSize, t + SharedSize(t), split)
         /\ \A k \in 0..(MaxSize-1) : Meets(MaxSize, t + k, split) => SharedSize(t) = k
<1>1. MaxSize \in Nat \ {0} /\ Slots = 0..(MaxSize-1)
  BY SizeAssumption DEF Slots
<1>2. SharedSize(t) = Gap(MaxSize, split, t)
  BY DEF SharedSize, Gap
<1> QED BY <1>1, <1>2, GapMeets

LEMMA ShapeHolds == ReclaimFreq = 1 /\ TypeInv => Shape
<1> SUFFICES ASSUME ReclaimFreq = 1, TypeInv PROVE Shape
  OBVIOUS
<1>1. MaxSize \in Nat \ {0} /\ MaxBlock \in Nat /\ MaxBlock < MaxSize
  BY SizeAssumption DEF MaxBlock, MaxLocal, Released
<1>2. /\ cur \in Epochs /\ Last \in Epochs /\ Last # cur
      /\ \A e \in Epochs : e = cur \/ e = Last
  BY DEF TypeInv, TypeOK, Epochs, Last
<1>3. tail \in Slots /\ split \in Slots /\ nlocal \in Nat
  BY BlockBounds DEF TypeInv, TypeOK
<1>4. /\ SharedSize(tail) \in 0..(MaxSize-1)
      /\ Meets(MaxSize, tail + SharedSize(tail), split)
  BY <1>3, SharedSizeGap
<1>5. /\ completed \in [Epochs -> Completions]
      /\ \A e \in Epochs :
           /\ completed[e].itasks \in 0..MaxBlock /\ completed[e].vtail \in Slots
           /\ completed[e].done \in BOOLEAN
           /\ completed[e].maxsteals \in 0..MaxStealsPerEpoch
           /\ completed[e].status \in [Indices -> Nat]
  BY DEF TypeInv, TypeOK, Completions
<1>6. /\ Advertised \in StealValues /\ Advertised.itasks \in 0..MaxBlock
      /\ Advertised.tail \in Slots /\ Advertised.asteals \in Nat
  BY WidthAssumption DEF TypeInv, TypeOK, Advertised, StealValues
<1>7. Claimed \in Nat /\ Claimed <= MaxSteals(completed[cur].itasks)
  <2>1. MaxSteals(completed[cur].itasks) \in Nat
    BY <1>2, <1>5, StealsFit, IndexFacts
  <2> QED BY <1>6, <2>1 DEF Claimed
<1>8. \A th \in Thieves :
       /\ claim[th].epoch \in Epochs /\ claim[th].index \in Indices
       /\ claim[th].start \in Nat /\ claim[th].n \in 0..MaxBlock
  BY DEF TypeInv, TypeOK, Claims
<1> QED BY <1>1, <1>2, <1>3, <1>4, <1>5, <1>6, <1>7, <1>8 DEF Shape

-----------------------------------------------------------------------------
(***************************************************************************)
(* The regions of the ring.                                                *)
(***************************************************************************)
LEMMA BlockBehind ==
  ASSUME NEW sp \in Slots, NEW s \in Nat, s < 2 * MaxSize,
         NEW b \in 0..MaxSize, NEW n \in 0..b, Meets(MaxSize, s + b, sp)
  PROVE  Block(s, n) = Behind(MaxSize, sp, b - n, b)
<1>1. MaxSize \in Nat \ {0} /\ sp \in 0..(MaxSize-1)
  BY SizeAssumption DEF Slots
<1>2. Region(MaxSize, s, n) = Behind(MaxSize, sp, b - n, b)
  BY <1>1, RegionBehind
<1>3. Block(s, n) = Region(MaxSize, s, n)
  BY DEF Block, Region
<1> QED BY <1>2, <1>3

\* The distance of a claim from the split.
Back(th) == Dist(MaxSize, split, claim[th].start % MaxSize)

RegionFacts ==
  /\ Local = Behind(MaxSize, split, MaxSize - nlocal, MaxSize)
  /\ NUnclaimed \in 0..SharedSize(tail)
  /\ Unclaimed = Behind(MaxSize, split, 0, NUnclaimed)
  /\ \A th \in InFlight :
       /\ Back(th) \in 1..SharedSize(tail) /\ claim[th].n \in 1..Back(th)
       /\ Reserved(th) = Behind(MaxSize, split, Back(th) - claim[th].n, Back(th))
       /\ NUnclaimed <= Back(th) - claim[th].n
       /\ \A other \in InFlight \ {th} :
            \/ Back(th) <= Back(other) - claim[other].n
            \/ Back(other) <= Back(th) - claim[th].n

\* The unclaimed part of the shared block is what the claimed shares leave.
LEMMA UnclaimedLeft ==
  ASSUME Shape, OwnerInv
  PROVE  NUnclaimed = Left(completed[cur].itasks, Claimed)
<1> DEFINE n == completed[cur].itasks
<1>1. n \in 0..MaxBlock /\ n \in Nat /\ Advertised.asteals \in Nat
  BY DEF Shape
<1>2. MaxSteals(n) \in Nat /\ \A k \in Nat : k >= MaxSteals(n) => Left(n, k) = 0
  BY <1>1, Exhaustion
<1>3. CASE ~Enabled(Advertised)
  <2>1. n = 0 /\ NUnclaimed = 0
    BY <1>3 DEF OwnerInv, HeadBehindTail, AdvertisedInv, NUnclaimed
  <2>2. Left(n, Claimed) \in 0..n
    BY <1>1, ShareFacts DEF Shape
  <2> QED BY <2>1, <2>2
<1>4. CASE Enabled(Advertised) /\ Advertised.itasks = n
  BY <1>1, <1>2, <1>4 DEF NUnclaimed, Claimed
<1>5. CASE Enabled(Advertised) /\ Advertised.itasks # n
  <2>1. Advertised.itasks = 0 /\ Claimed = MaxSteals(n)
    BY <1>5 DEF OwnerInv, HeadBehindTail, AdvertisedInv, Claimed
  <2>2. Left(0, Advertised.asteals) \in 0..0
    BY <1>1, LeftShrinks
  <2> QED BY <1>2, <1>5, <2>1, <2>2 DEF NUnclaimed
<1> QED BY <1>3, <1>4, <1>5

LEMMA UnclaimedRegion ==
  ASSUME Shape, OwnerInv, CurrentInv
  PROVE  /\ NUnclaimed \in 0..SharedSize(tail)
         /\ Unclaimed = Behind(MaxSize, split, 0, NUnclaimed)
<1> DEFINE n == completed[cur].itasks
           u == NUnclaimed
<1>1. n \in 0..MaxBlock /\ Claimed \in Nat /\ n \in Nat
  BY DEF Shape
<1>2. u = Left(n, Claimed) /\ u \in 0..n /\ (u > 0 <=> Claimed < MaxSteals(n))
  BY <1>1, UnclaimedLeft, ShareFacts
<1>3. u <= SharedSize(tail)
  <2>1. CASE u = 0
    BY <2>1 DEF Shape
  <2>2. CASE u # 0
    <3>1. Claimed < MaxSteals(n) /\ Claimed \in Indices
      <4>1. MaxSteals(n) \in 0..MaxStealsPerEpoch
        BY <1>1, StealsFit
      <4> QED BY <1>1, <1>2, <2>2, <4>1, IndexFacts DEF Indices
    <3>2. completed[cur].status[Claimed] = 0
      BY <1>1, <3>1 DEF CurrentInv, RecordInv
    <3> QED BY <1>2, <3>1, <3>2 DEF CurrentInv
  <2> QED BY <2>1, <2>2
<1>4. Unclaimed = Behind(MaxSize, split, 0, u)
  <2>1. CASE u = 0
    <3>1. Unclaimed = {}
      BY <2>1 DEF Unclaimed, Block
    <3>2. Behind(MaxSize, split, 0, u) = {}
      BY <2>1, DistType DEF Behind, Shape, Slots
    <3> QED BY <3>1, <3>2
  <2>2. CASE u # 0
    <3> DEFINE s == Advertised.tail + Stolen(Advertised.itasks, Advertised.asteals)
    <3>1. Enabled(Advertised)
      BY <2>2 DEF NUnclaimed
    <3>2. Advertised.itasks = n /\ Advertised.asteals = Claimed
      <4>1. Claimed < MaxSteals(n)
        BY <1>2, <2>2
      <4> QED BY <1>1, <4>1 DEF Claimed
    <3>3. Advertised.tail = completed[cur].vtail
      BY <1>2, <2>2, <3>1, <3>2 DEF OwnerInv, HeadBehindTail, AdvertisedInv
    <3>4. Stolen(n, Claimed) = n - u
      BY <1>1, <1>2, ShareFacts
    <3>5. s = completed[cur].vtail + (n - u) /\ Meets(MaxSize, s + u, split)
      BY <1>1, <1>2, <3>2, <3>3, <3>4 DEF CurrentInv, Shape, Slots
    <3>6. s \in Nat /\ s < 2 * MaxSize /\ u \in 0..MaxSize /\ u \in 0..u
      BY <1>1, <1>2, <3>5 DEF Shape, Slots
    <3>7. Block(s, u) = Behind(MaxSize, split, u - u, u)
      BY <3>5, <3>6, BlockBehind DEF Shape
    <3>8. u - u = 0
      BY <1>2
    <3> QED BY <3>7, <3>8 DEF Unclaimed
  <2> QED BY <2>1, <2>2
<1> QED BY <1>2, <1>3, <1>4

LEMMA LocalRegion ==
  ASSUME Shape, nlocal <= MaxSize
  PROVE  Local = Behind(MaxSize, split, MaxSize - nlocal, MaxSize)
<1>1. /\ split \in Nat /\ split < 2 * MaxSize /\ nlocal \in 0..MaxSize
      /\ MaxSize \in 0..MaxSize /\ Meets(MaxSize, split + MaxSize, split)
  BY DEF Shape, Slots, Meets
<1> QED BY <1>1, BlockBehind DEF Local, Shape

LEMMA ClaimRegion ==
  ASSUME Shape, NEW th \in Thieves, NEW b \in 1..(MaxSize-1), claim[th].n <= b,
         claim[th].start < 2 * MaxSize, Meets(MaxSize, claim[th].start + b, split)
  PROVE  /\ Back(th) = b
         /\ Reserved(th) = Behind(MaxSize, split, Back(th) - claim[th].n, Back(th))
<1>1. /\ MaxSize \in Nat \ {0} /\ split \in 0..(MaxSize-1) /\ split \in Slots
      /\ claim[th].start \in Nat /\ b \in 1..MaxSize /\ b \in 0..MaxSize
      /\ claim[th].n \in 0..b
  BY DEF Shape, Slots
<1>2. Back(th) = b
  BY <1>1, DistMeets DEF Back
<1>3. Block(claim[th].start, claim[th].n)
        = Behind(MaxSize, split, b - claim[th].n, b)
  BY <1>1, BlockBehind
<1> QED BY <1>2, <1>3 DEF Reserved

\* A claim on the current block lies where its share does.
LEMMA CurrentClaim ==
  ASSUME Shape, CurrentInv, NEW th \in InFlight, claim[th].epoch = cur
  PROVE  /\ Back(th) = Left(completed[cur].itasks, claim[th].index)
         /\ Back(th) \in 1..SharedSize(tail) /\ claim[th].n \in 1..Back(th)
         /\ Back(th) <= completed[cur].itasks
         /\ Reserved(th) = Behind(MaxSize, split, Back(th) - claim[th].n, Back(th))
         /\ \A k \in Nat : claim[th].index < k =>
              Left(completed[cur].itasks, k) <= Back(th) - claim[th].n
         /\ claim[th].index < Claimed /\ Claimed <= MaxSteals(completed[cur].itasks)
<1> DEFINE r == completed[cur]
           n == r.itasks
           c == claim[th]
           i == c.index
           b == Left(n, i)
<1>1. th \in Thieves /\ i \in Indices /\ i \in Nat /\ c.start \in Nat
  BY IndexFacts DEF InFlight, Shape, Indices
<1>2. /\ n \in 0..MaxBlock /\ MaxBlock \in Nat /\ MaxBlock < MaxSize
      /\ r.vtail \in Slots /\ MaxSize \in Nat
  BY DEF Shape
<1>3. ClaimInv(claim[th], r, n, Claimed)
  BY DEF CurrentInv
<1>4. /\ i < Claimed /\ c.n = Take(b) /\ c.start = r.vtail + Stolen(n, i)
      /\ r.status[i] = 0
  BY <1>3 DEF ClaimInv
<1>5. Claimed \in Nat /\ Claimed <= MaxSteals(n)
  BY DEF Shape
<1>6. /\ b \in 0..n /\ Stolen(n, i) = n - b /\ Take(b) \in 0..b
      /\ MaxSteals(n) \in Nat /\ (i < MaxSteals(n) => Take(b) > 0)
  <2>1. MaxSteals(n) \in Nat
    BY <1>2, Exhaustion
  <2> QED BY <1>1, <1>2, <2>1, ShareFacts
<1>7. Take(b) > 0 /\ b > 0 /\ b < MaxSize
  BY <1>1, <1>2, <1>4, <1>5, <1>6
<1>8. b <= SharedSize(tail)
  BY <1>1, <1>4 DEF CurrentInv
<1>9. c.start < 2 * MaxSize /\ Meets(MaxSize, c.start + b, split)
  <2>1. Meets(MaxSize, r.vtail + n, split)
    BY DEF CurrentInv
  <2>2. c.start = r.vtail + (n - b) /\ c.start + b = r.vtail + n
    BY <1>2, <1>4, <1>6 DEF Slots
  <2> QED BY <1>2, <1>6, <2>1, <2>2 DEF Slots
<1>10. b \in 1..(MaxSize-1) /\ c.n <= b
  BY <1>2, <1>4, <1>6, <1>7
<1>11. /\ Back(th) = b
       /\ Reserved(th) = Behind(MaxSize, split, Back(th) - c.n, Back(th))
  BY <1>1, <1>9, <1>10, ClaimRegion
<1>12. ASSUME NEW k \in Nat, i < k PROVE Left(n, k) <= b - c.n
  BY <1>1, <1>2, <1>4, <1>12, SharesApart
<1>13. b \in 1..SharedSize(tail) /\ c.n \in 1..b /\ b <= n
  BY <1>2, <1>4, <1>6, <1>7, <1>8 DEF Shape
<1> QED BY <1>4, <1>5, <1>11, <1>12, <1>13

\* A claim on the last block lies behind the whole current block.
LEMMA LastClaim ==
  ASSUME Shape, CurrentInv, NEW m \in 0..MaxBlock, LastInv(m),
         NEW th \in InFlight, claim[th].epoch = Last
  PROVE  /\ Back(th) = completed[cur].itasks
                        + (completed[Last].itasks - Stolen(m, claim[th].index))
         /\ Back(th) \in 1..SharedSize(tail) /\ claim[th].n \in 1..Back(th)
         /\ Reserved(th) = Behind(MaxSize, split, Back(th) - claim[th].n, Back(th))
         /\ completed[cur].itasks <= Back(th) - claim[th].n
         /\ ~completed[Last].done
         /\ \A k \in Nat : claim[th].index < k =>
              Left(m, k) <= Left(m, claim[th].index) - claim[th].n
<1> DEFINE r == completed[Last]
           n == completed[cur].itasks
           c == claim[th]
           i == c.index
           k == r.maxsteals
           b == n + (r.itasks - Stolen(m, i))
<1>1. th \in Thieves /\ i \in Indices /\ i \in Nat /\ c.start \in Nat
  BY IndexFacts DEF InFlight, Shape, Indices
<1>2. /\ n \in 0..MaxBlock /\ MaxBlock \in Nat /\ MaxBlock < MaxSize
      /\ r.vtail \in Slots /\ completed[cur].vtail \in Slots
      /\ MaxSize \in Nat /\ k \in Nat /\ m \in Nat
  BY IndexFacts DEF Shape
<1>3. ClaimInv(claim[th], r, m, k) /\ b <= SharedSize(tail) /\ RecordInv(r, m, k)
      /\ r.itasks = Stolen(m, k)
  BY DEF LastInv
<1>4. /\ i < k /\ c.n = Take(Left(m, i)) /\ c.start = r.vtail + Stolen(m, i)
      /\ r.status[i] = 0 /\ k <= MaxSteals(m)
  BY <1>3 DEF ClaimInv, RecordInv
<1>5. /\ Left(m, i) \in 0..m /\ Stolen(m, i) = m - Left(m, i)
      /\ Take(Left(m, i)) \in 0..Left(m, i) /\ MaxSteals(m) \in Nat
      /\ (i < MaxSteals(m) => Take(Left(m, i)) > 0)
      /\ Left(m, k) \in 0..m /\ Stolen(m, k) = m - Left(m, k)
  <2>1. MaxSteals(m) \in Nat
    BY <1>2, Exhaustion
  <2>2. Left(m, k) \in 0..m /\ Stolen(m, k) = m - Left(m, k)
    BY <1>2, ShareFacts
  <2> QED BY <1>1, <1>2, <2>1, <2>2, ShareFacts
<1>6. \A l \in Nat : i < l => Left(m, l) <= Left(m, i) - c.n
  BY <1>1, <1>2, <1>4, SharesApart
<1>7. ~r.done
  BY <1>1, <1>3, <1>4 DEF RecordInv
<1>8. c.n > 0 /\ r.itasks - Stolen(m, i) = Left(m, i) - Left(m, k)
      /\ c.n <= Left(m, i) - Left(m, k)
  BY <1>1, <1>2, <1>3, <1>4, <1>5, <1>6
<1>9. b \in 1..(MaxSize-1) /\ c.n \in 1..b /\ n <= b - c.n
      /\ b \in 1..SharedSize(tail)
  <2>1. b \in Int /\ c.n \in Nat /\ b = n + (Left(m, i) - Left(m, k))
    BY <1>2, <1>4, <1>5, <1>8
  <2>2. SharedSize(tail) \in 0..(MaxSize-1)
    BY DEF Shape
  <2> HIDE DEF b
  <2> QED BY <1>2, <1>3, <1>5, <1>8, <2>1, <2>2
<1>10. c.start < 2 * MaxSize /\ Meets(MaxSize, c.start + b, split)
  <2>1. /\ Meets(MaxSize, r.vtail + r.itasks, completed[cur].vtail)
        /\ Meets(MaxSize, completed[cur].vtail + n, split)
    BY <1>7 DEF LastInv, CurrentInv
  <2>2. c.start + b = (r.vtail + r.itasks) + n
    BY <1>2, <1>3, <1>4, <1>5 DEF Slots
  <2>3. r.itasks \in Nat /\ r.itasks < MaxSize /\ split \in Slots
    BY <1>2, <1>3, <1>5 DEF Shape
  <2>4. c.start < 2 * MaxSize
    BY <1>2, <1>4, <1>5 DEF Slots
  <2>5. Meets(MaxSize, (r.vtail + r.itasks) + n, split)
    <3>1. /\ MaxSize \in Nat \ {0} /\ r.vtail \in 0..(MaxSize-1)
          /\ completed[cur].vtail \in 0..(MaxSize-1) /\ split \in 0..(MaxSize-1)
          /\ r.itasks \in 0..(MaxSize-1) /\ n \in 0..(MaxSize-1)
      BY <1>2, <2>3 DEF Shape, Slots
    <3> QED BY <2>1, <3>1, MeetsVia
  <2> HIDE DEF b
  <2> QED BY <2>2, <2>4, <2>5
<1>11. /\ Back(th) = b
       /\ Reserved(th) = Behind(MaxSize, split, Back(th) - c.n, Back(th))
  <2> HIDE DEF b
  <2>1. c.n <= b
    BY <1>9
  <2> QED BY <1>1, <1>9, <1>10, <2>1, ClaimRegion
<1> HIDE DEF b
<1>12. /\ Back(th) \in 1..SharedSize(tail) /\ claim[th].n \in 1..Back(th)
       /\ n <= Back(th) - claim[th].n
  BY <1>9, <1>11
<1> QED BY <1>6, <1>7, <1>11, <1>12 DEF b

\* Two claims do not meet: on the same block they are different shares of it, and
\* the last block lies behind the current one.
LEMMA ClaimsApart ==
  ASSUME Shape, CurrentInv, NEW m \in 0..MaxBlock, LastInv(m), DistinctInv,
         NEW th \in InFlight, NEW other \in InFlight \ {th}
  PROVE  \/ Back(th) <= Back(other) - claim[other].n
         \/ Back(other) <= Back(th) - claim[th].n
<1>1. ASSUME NEW a \in InFlight, NEW b \in InFlight,
             claim[a].epoch = cur, claim[b].epoch = Last
      PROVE  Back(a) <= Back(b) - claim[b].n
  <2>1. Back(a) <= completed[cur].itasks /\ Back(a) \in 1..SharedSize(tail)
    BY <1>1, CurrentClaim
  <2>2. /\ completed[cur].itasks <= Back(b) - claim[b].n
        /\ Back(b) \in 1..SharedSize(tail) /\ claim[b].n \in 1..Back(b)
    BY <1>1, LastClaim
  <2>3. completed[cur].itasks \in Nat /\ SharedSize(tail) \in Nat
    BY DEF Shape
  <2> QED BY <2>1, <2>2, <2>3
<1>2. ASSUME NEW a \in InFlight, NEW b \in InFlight,
             claim[a].epoch = cur, claim[b].epoch = cur,
             claim[a].index < claim[b].index
      PROVE  Back(b) <= Back(a) - claim[a].n
  <2>1. claim[b].index \in Nat
    BY IndexFacts DEF InFlight, Shape, Indices
  <2>2. Left(completed[cur].itasks, claim[b].index) <= Back(a) - claim[a].n
    BY <1>2, <2>1, CurrentClaim
  <2>3. Back(b) = Left(completed[cur].itasks, claim[b].index)
    BY <1>2, CurrentClaim
  <2> QED BY <2>2, <2>3
<1>3. ASSUME NEW a \in InFlight, NEW b \in InFlight,
             claim[a].epoch = Last, claim[b].epoch = Last,
             claim[a].index < claim[b].index
      PROVE  Back(b) <= Back(a) - claim[a].n
  <2> DEFINE n == completed[cur].itasks
             t == completed[Last].itasks
             i == claim[a].index
             j == claim[b].index
  <2>1. i \in Nat /\ j \in Nat /\ claim[a].n \in Nat
    BY IndexFacts DEF InFlight, Shape, Indices
  <2>2. Left(m, j) <= Left(m, i) - claim[a].n
    BY <1>3, <2>1, LastClaim
  <2>3. Back(a) = n + (t - Stolen(m, i)) /\ Back(b) = n + (t - Stolen(m, j))
    BY <1>3, LastClaim
  <2>4. /\ Left(m, i) \in 0..m /\ Left(m, j) \in 0..m
        /\ Stolen(m, i) = m - Left(m, i) /\ Stolen(m, j) = m - Left(m, j)
    BY <2>1, ShareFacts
  <2>5. n \in Nat /\ t \in Nat /\ m \in Nat
    BY BlockBounds DEF Shape
  <2> QED BY <2>1, <2>2, <2>3, <2>4, <2>5
<1>4. /\ claim[th].epoch \in {cur, Last} /\ claim[other].epoch \in {cur, Last}
      /\ claim[th].index \in Nat /\ claim[other].index \in Nat
  BY IndexFacts DEF InFlight, Shape, Indices
<1>5. CASE claim[th].epoch # claim[other].epoch
  BY <1>1, <1>4, <1>5
<1>6. CASE claim[th].epoch = claim[other].epoch
  <2>1. claim[th].index # claim[other].index
    BY <1>6 DEF DistinctInv
  <2>2. claim[th].index < claim[other].index \/ claim[other].index < claim[th].index
    BY <1>4, <2>1
  <2> QED BY <1>2, <1>3, <1>4, <1>6, <2>2
<1> QED BY <1>5, <1>6

LEMMA RegionsHold == Shape /\ OwnerInv /\ RingInv => RegionFacts
<1> SUFFICES ASSUME Shape, OwnerInv, RingInv PROVE RegionFacts
  OBVIOUS
<1>1. CurrentInv /\ DistinctInv
  BY DEF RingInv
<1>2. PICK m \in 0..MaxBlock : LastInv(m)
  BY DEF RingInv
<1>3. nlocal <= MaxSize
  BY DEF OwnerInv, HeadBehindTail, AdvertisedInv, Shape
<1>4. /\ Local = Behind(MaxSize, split, MaxSize - nlocal, MaxSize)
      /\ NUnclaimed \in 0..SharedSize(tail)
      /\ Unclaimed = Behind(MaxSize, split, 0, NUnclaimed)
  BY <1>1, <1>3, LocalRegion, UnclaimedRegion
<1>5. ASSUME NEW th \in InFlight
      PROVE  /\ Back(th) \in 1..SharedSize(tail) /\ claim[th].n \in 1..Back(th)
             /\ Reserved(th) = Behind(MaxSize, split, Back(th) - claim[th].n, Back(th))
             /\ NUnclaimed <= Back(th) - claim[th].n
  <2> DEFINE n == completed[cur].itasks
  <2>1. CASE claim[th].epoch = cur
    <3>1. Left(n, Claimed) <= Back(th) - claim[th].n
      BY <1>1, <2>1, CurrentClaim DEF Shape
    <3>2. NUnclaimed = Left(n, Claimed)
      BY UnclaimedLeft
    <3> QED BY <1>1, <2>1, <3>1, <3>2, CurrentClaim
  <2>2. CASE claim[th].epoch = Last
    <3>1. n <= Back(th) - claim[th].n
      BY <1>1, <1>2, <2>2, LastClaim
    <3>2. NUnclaimed \in 0..n /\ n \in Nat
      <4>1. n \in 0..MaxBlock /\ MaxBlock \in Nat /\ Claimed \in Nat
        BY DEF Shape
      <4>2. Left(n, Claimed) \in 0..n
        BY <4>1, ShareFacts
      <4> QED BY <4>1, <4>2, UnclaimedLeft
    <3>3. /\ Back(th) \in 1..SharedSize(tail) /\ claim[th].n \in 1..Back(th)
          /\ Reserved(th)
               = Behind(MaxSize, split, Back(th) - claim[th].n, Back(th))
      BY <1>1, <1>2, <2>2, LastClaim
    <3>4. NUnclaimed <= Back(th) - claim[th].n
      BY <3>1, <3>2, <3>3 DEF Shape
    <3> QED BY <3>3, <3>4
  <2>3. claim[th].epoch \in {cur, Last}
    BY DEF Shape, InFlight
  <2> QED BY <2>1, <2>2, <2>3
<1>6. ASSUME NEW th \in InFlight, NEW other \in InFlight \ {th}
      PROVE  \/ Back(th) <= Back(other) - claim[other].n
             \/ Back(other) <= Back(th) - claim[th].n
  BY <1>1, <1>2, ClaimsApart
<1> QED BY <1>4, <1>5, <1>6 DEF RegionFacts

-----------------------------------------------------------------------------
(***************************************************************************)
(* What the invariant says about the properties.                           *)
(***************************************************************************)
LEMMA RegionsApart == Shape /\ OwnerInv /\ RingInv => RegionsDisjoint
<1> SUFFICES ASSUME Shape, OwnerInv, RingInv PROVE RegionsDisjoint
  OBVIOUS
<1> DEFINE M == MaxSize
           s == SharedSize(tail)
<1>1. RegionFacts /\ nlocal + s <= M
  BY RegionsHold DEF OwnerInv, HeadBehindTail, AdvertisedInv
<1>2. M \in Nat \ {0} /\ nlocal \in Nat /\ s \in 0..(M-1) /\ split \in 0..(M-1)
  BY DEF Shape, Slots
<1>3. ASSUME NEW a \in Int, NEW b \in Int, NEW c \in Int, NEW d \in Int, b <= c
      PROVE  Behind(M, split, a, b) \cap Behind(M, split, c, d) = {}
  <2> SUFFICES ASSUME NEW x \in Behind(M, split, a, b),
                      x \in Behind(M, split, c, d)
               PROVE  FALSE
    OBVIOUS
  <2>1. /\ x \in 0..(M-1) /\ Dist(M, split, x) <= b /\ c < Dist(M, split, x)
    BY DEF Behind
  <2>2. Dist(M, split, x) \in 1..M
    BY <1>2, <2>1, DistType
  <2> QED BY <1>3, <2>1, <2>2
<1>4. /\ NUnclaimed \in 0..s
      /\ Local = Behind(M, split, M - nlocal, M)
      /\ Unclaimed = Behind(M, split, 0, NUnclaimed)
  BY <1>1 DEF RegionFacts
<1>5. Local \cap Unclaimed = {}
  <2>1. NUnclaimed \in Int /\ NUnclaimed <= M - nlocal /\ M - nlocal \in Int
    BY <1>1, <1>2, <1>4
  <2>2. Unclaimed \cap Local = {}
    BY <1>2, <1>3, <1>4, <2>1
  <2> QED BY <2>2
<1>6. ASSUME NEW th \in InFlight
      PROVE  /\ claim[th].n <= M
             /\ Reserved(th) \cap (Local \cup Unclaimed) = {}
             /\ \A other \in InFlight \ {th} : Reserved(th) \cap Reserved(other) = {}
  <2> DEFINE B(t) == Back(t)
             f(t) == Back(t) - claim[t].n
  <2>1. \A t \in InFlight :
          /\ B(t) \in Int /\ f(t) \in Int /\ B(t) <= s /\ claim[t].n \in 1..B(t)
          /\ Reserved(t) = Behind(M, split, f(t), B(t))
          /\ NUnclaimed <= f(t)
    BY <1>1, <1>2 DEF RegionFacts
  <2>2. claim[th].n <= M
    BY <1>2, <2>1
  <2>3. Reserved(th) \cap Local = {}
    <3>1. B(th) <= M - nlocal /\ M - nlocal \in Int
      BY <1>1, <1>2, <2>1
    <3> QED BY <1>2, <1>3, <1>4, <2>1, <3>1
  <2>4. Unclaimed \cap Reserved(th) = {}
    BY <1>2, <1>3, <1>4, <2>1
  <2>5. ASSUME NEW other \in InFlight \ {th}
        PROVE  Reserved(th) \cap Reserved(other) = {}
    <3>1. B(th) <= f(other) \/ B(other) <= f(th)
      BY <1>1 DEF RegionFacts
    <3> HIDE DEF B, f
    <3>2. CASE B(th) <= f(other)
      BY <1>3, <2>1, <3>2
    <3>3. CASE B(other) <= f(th)
      <4>1. Reserved(other) \cap Reserved(th) = {}
        BY <1>3, <2>1, <3>3
      <4> QED BY <4>1
    <3> QED BY <3>1, <3>2, <3>3
  <2> QED BY <2>2, <2>3, <2>4, <2>5
<1>7. nlocal <= M /\ NUnclaimed <= M
  BY <1>1, <1>2, <1>4
<1> QED BY <1>5, <1>6, <1>7 DEF RegionsDisjoint

LEMMA SharedRegion ==
  ASSUME Shape
  PROVE  Block(tail, SharedSize(tail)) = Behind(MaxSize, split, 0, SharedSize(tail))
<1> DEFINE s == SharedSize(tail)
<1>1. /\ s \in 0..MaxSize /\ s \in 0..s /\ tail \in Nat /\ tail < 2 * MaxSize
      /\ Meets(MaxSize, tail + s, split) /\ split \in Slots /\ s - s = 0
  BY DEF Shape, Slots
<1> HIDE DEF s
<1>2. Block(tail, s) = Behind(MaxSize, split, s - s, s)
  BY <1>1, BlockBehind
<1> QED BY <1>1, <1>2 DEF s

LEMMA ReservedBehind == Shape /\ OwnerInv /\ RingInv => ReservedBehindTail
<1> SUFFICES ASSUME Shape, OwnerInv, RingInv, NEW th \in InFlight
             PROVE  Reserved(th) \subseteq Block(tail, SharedSize(tail))
  BY DEF ReservedBehindTail
<1>1. /\ Back(th) \in 1..SharedSize(tail) /\ claim[th].n \in 1..Back(th)
      /\ Reserved(th) = Behind(MaxSize, split, Back(th) - claim[th].n, Back(th))
  BY RegionsHold DEF RegionFacts
<1>2. MaxSize \in Nat \ {0} /\ split \in 0..(MaxSize-1) /\ SharedSize(tail) \in Nat
  BY DEF Shape, Slots
<1>3. ASSUME NEW x \in Reserved(th)
      PROVE  x \in Behind(MaxSize, split, 0, SharedSize(tail))
  <2>1. x \in 0..(MaxSize-1) /\ Dist(MaxSize, split, x) <= Back(th)
    BY <1>1, <1>3 DEF Behind
  <2>2. Dist(MaxSize, split, x) \in 1..MaxSize
    BY <1>2, <2>1, DistType
  <2>3. 0 < Dist(MaxSize, split, x) /\ Dist(MaxSize, split, x) <= SharedSize(tail)
    BY <1>1, <1>2, <2>1, <2>2
  <2> QED BY <2>1, <2>3 DEF Behind
<1> QED BY <1>3, SharedRegion

LEMMA Unambiguous == Shape /\ RingInv => ClaimsUnambiguous
<1> SUFFICES ASSUME Shape, RingInv, NEW th \in InFlight
             PROVE  /\ ~completed[claim[th].epoch].done
                    /\ claim[th].index < completed[claim[th].epoch].maxsteals
                    /\ completed[claim[th].epoch].status[claim[th].index] = 0
                    /\ \A other \in InFlight \ {th} :
                         \/ claim[other].epoch # claim[th].epoch
                         \/ claim[other].index # claim[th].index
  BY DEF ClaimsUnambiguous
<1>1. CurrentInv /\ DistinctInv
  BY DEF RingInv
<1>2. PICK m \in 0..MaxBlock : LastInv(m)
  BY DEF RingInv
<1>3. claim[th].index \in Indices
  BY DEF InFlight, Shape
<1>4. CASE claim[th].epoch = cur
  <2> DEFINE r == completed[cur]
  <2>1. /\ ClaimInv(claim[th], r, r.itasks, Claimed) /\ RecordInv(r, r.itasks, Claimed)
        /\ r.maxsteals = MaxSteals(r.itasks)
    BY <1>1, <1>4 DEF CurrentInv
  <2>2. claim[th].index < r.maxsteals
    <3>1. r.maxsteals \in Nat /\ Claimed \in Nat /\ claim[th].index \in Nat
      BY <1>3, IndexFacts DEF Shape, Indices
    <3> QED BY <2>1, <3>1 DEF ClaimInv, RecordInv
  <2>3. ~r.done /\ r.status[claim[th].index] = 0
    BY <1>3, <2>1, <2>2 DEF ClaimInv, RecordInv
  <2> QED BY <1>1, <1>4, <2>2, <2>3 DEF DistinctInv
<1>5. CASE claim[th].epoch = Last
  <2> DEFINE r == completed[Last]
  <2>1. ClaimInv(claim[th], r, m, r.maxsteals) /\ RecordInv(r, m, r.maxsteals)
    BY <1>2, <1>5 DEF LastInv
  <2>2. /\ ~r.done /\ r.status[claim[th].index] = 0
        /\ claim[th].index < r.maxsteals
    BY <1>3, <2>1 DEF ClaimInv, RecordInv
  <2> QED BY <1>1, <1>5, <2>2 DEF DistinctInv
<1> QED BY <1>4, <1>5 DEF Shape, InFlight

-----------------------------------------------------------------------------
(***************************************************************************)
(* The steps.  The parts of the invariant that concern the ring only       *)
(* depend on the shared state, the claims and what is advertised.          *)
(***************************************************************************)
LEMMA RingFrame ==
  ASSUME RingInv, UNCHANGED <<tail, split, cur, completed, claim>>,
         Claimed' = Claimed, InFlight' = InFlight
  PROVE  RingInv'
<1>1. Last' = Last /\ SharedSize(tail)' = SharedSize(tail)
  BY DEF Last, SharedSize
<1>2. CurrentInv' = CurrentInv
  BY <1>1 DEF CurrentInv, ClaimInv
<1>3. \A m : LastInv(m)' = LastInv(m)
  BY <1>1 DEF LastInv, ClaimInv
<1>4. DistinctInv' = DistinctInv
  BY DEF DistinctInv
<1> QED BY <1>2, <1>3, <1>4 DEF RingInv

LEMMA ClaimedFrame ==
  ASSUME Advertised' = Advertised, UNCHANGED <<cur, completed>>
  PROVE  Claimed' = Claimed
BY DEF Claimed, Enabled

\* How far the owner has seen the current block copied.
LEMMA CompletedShares ==
  ASSUME Shape, CurrentInv
  PROVE  LET r == completed[cur]
             j == Completed(cur)
         IN  /\ j \in 0..MaxStealsPerEpoch /\ j <= Claimed
             /\ StatusPrefix(cur) = Stolen(r.itasks, j)
             /\ Left(r.itasks, j) \in 0..r.itasks
             /\ Stolen(r.itasks, j) = r.itasks - Left(r.itasks, j)
             /\ Left(r.itasks, j) <= SharedSize(tail)
             /\ \A i \in Indices :
                  /\ i < j => r.status[i] # 0
                  /\ r.status[i] = 0 => Left(r.itasks, i) <= Left(r.itasks, j)
             /\ Left(r.itasks, j) = 0 => j = r.maxsteals
<1> DEFINE r == completed[cur]
           n == r.itasks
           j == Completed(cur)
<1>1. /\ cur \in Epochs /\ completed \in [Epochs -> Completions]
      /\ n \in 0..MaxBlock /\ MaxBlock \in Nat /\ n \in Nat
      /\ r.maxsteals \in 0..MaxStealsPerEpoch /\ MaxStealsPerEpoch \in Nat
      /\ Claimed \in Nat /\ Claimed <= MaxSteals(n)
      /\ SharedSize(tail) \in Nat
  BY IndexFacts DEF Shape
<1>2. /\ j \in 0..r.maxsteals /\ \A i \in 0..(j-1) : r.status[i] # 0
      /\ j = r.maxsteals \/ r.status[j] = 0
  BY <1>1, CompletedType
<1>3. r.maxsteals = MaxSteals(n) /\ RecordInv(r, n, Claimed)
  BY DEF CurrentInv
<1> HIDE DEF j
<1>4. j \in 0..MaxStealsPerEpoch /\ j \in Nat
  BY <1>1, <1>2
<1>5. j <= Claimed
  <2> SUFFICES ASSUME Claimed < j PROVE FALSE
    BY <1>1, <1>4
  <2>1. Claimed \in 0..(j-1) /\ Claimed \in Indices
    BY <1>1, <1>4 DEF Indices
  <2>2. r.status[Claimed] # 0
    BY <1>2, <2>1
  <2>3. Claimed < Claimed
    BY <1>3, <2>1, <2>2 DEF RecordInv
  <2> QED BY <1>1, <2>3
<1>6. CopiedBy(cur, j) = Stolen(n, j)
  <2>1. Claimed \in 0..MaxStealsPerEpoch
    BY <1>1, <1>3
  <2> QED BY <1>1, <1>2, <1>3, <1>4, <2>1, CopiedShares
<1>7. Left(n, j) \in 0..n /\ Stolen(n, j) = n - Left(n, j)
  BY <1>1, <1>4, ShareFacts
<1>8. Left(n, j) <= SharedSize(tail)
  <2>1. CASE j = r.maxsteals
    <3>1. Left(n, j) = 0
      BY <1>1, <1>3, <1>4, <2>1, Exhaustion
    <3> QED BY <1>1, <3>1
  <2>2. CASE j # r.maxsteals
    <3>1. j \in Indices /\ r.status[j] = 0
      BY <1>1, <1>2, <1>4, <2>2 DEF Indices
    <3> QED BY <3>1 DEF CurrentInv
  <2> QED BY <2>1, <2>2
<1>9. ASSUME NEW i \in Indices
      PROVE  /\ i < j => r.status[i] # 0
             /\ r.status[i] = 0 => Left(n, i) <= Left(n, j)
  <2>1. i \in Nat
    BY <1>1 DEF Indices
  <2>2. i < j => i \in 0..(j-1)
    BY <1>4, <2>1
  <2>3. i < j => r.status[i] # 0
    BY <1>2, <2>2
  <2>4. ASSUME r.status[i] = 0 PROVE Left(n, i) <= Left(n, j)
    <3>1. j <= i
      BY <1>4, <2>1, <2>3, <2>4
    <3> QED BY <1>1, <1>4, <2>1, <3>1, LeftMonotone
  <2> QED BY <2>3, <2>4
<1>10. ASSUME Left(n, j) = 0 PROVE j = r.maxsteals
  <2>1. j >= MaxSteals(n)
    BY <1>1, <1>4, <1>10, Exhaustion
  <2> QED BY <1>1, <1>2, <1>3, <1>4, <2>1
<1>11. StatusPrefix(cur) = Stolen(n, j)
  BY <1>6 DEF StatusPrefix, j
<1> QED BY <1>4, <1>5, <1>7, <1>8, <1>9, <1>10, <1>11 DEF j

\* When no entry of the last record is open, no thief holds a claim on it.
LEMMA NoneOnLast ==
  ASSUME Shape, RingInv,
         completed[Last].done \/
           \A i \in 0..(completed[Last].maxsteals-1) : completed[Last].status[i] # 0
  PROVE  \A th \in InFlight : claim[th].epoch = cur
<1> SUFFICES ASSUME NEW th \in InFlight, claim[th].epoch # cur PROVE FALSE
  OBVIOUS
<1> DEFINE r == completed[Last]
           i == claim[th].index
<1>1. claim[th].epoch = Last /\ i \in Indices /\ r.maxsteals \in 0..MaxStealsPerEpoch
  BY DEF InFlight, Shape
<1>2. /\ ~r.done /\ i < r.maxsteals /\ r.status[i] = 0
  BY <1>1, Unambiguous DEF ClaimsUnambiguous
<1>3. i \in 0..(r.maxsteals - 1)
  BY <1>1, <1>2, IndexFacts DEF Indices
<1> QED BY <1>2, <1>3

\* Looking for free space only moves the tail over shares that were copied.
LEMMA ReclaimRing ==
  ASSUME Shape, Shape', RingInv,
         tail' = ReclaimSpace.tail, completed' = ReclaimSpace.completed,
         UNCHANGED <<split, cur, claim>>,
         Advertised' = Advertised, InFlight' = InFlight
  PROVE  /\ RingInv'
         /\ SharedSize(tail)' <= SharedSize(tail)
         /\ completed'[cur].itasks = completed[cur].itasks
         /\ completed'[cur].vtail = completed[cur].vtail
<1> DEFINE old      == completed[Last]
           r        == completed[cur]
           n        == r.itasks
           pending  == ~old.done /\ \E i \in 0..(old.maxsteals-1) : old.status[i] = 0
           lastDone == old.done \/ (~pending /\ StatusSum(Last) = old.itasks)
           copied   == StatusPrefix(cur)
           j        == Completed(cur)
           s        == SharedSize(tail)
<1>1. CASE pending
  <2>1. tail' = tail /\ completed' = completed
    BY <1>1 DEF ReclaimSpace
  <2>2. RingInv'
    BY <2>1, RingFrame, ClaimedFrame
  <2>3. SharedSize(tail)' = s /\ s \in Nat
    BY <2>1 DEF SharedSize, Shape
  <2> QED BY <2>1, <2>2, <2>3
<1>2. CASE ~pending
  <2>1. /\ tail' = IF lastDone /\ copied > 0 THEN (r.vtail + copied) % MaxSize
                   ELSE IF lastDone /\ ~old.done THEN r.vtail ELSE tail
        /\ completed' = [completed EXCEPT ![Last].done = lastDone,
                                          ![cur].done = @ \/ copied = n]
    BY <1>2 DEF ReclaimSpace
  <2>2. /\ CurrentInv /\ DistinctInv
        /\ cur \in Epochs /\ Last \in Epochs /\ Last # cur
        /\ completed \in [Epochs -> Completions]
        /\ n \in 0..MaxBlock /\ n \in Nat /\ n < MaxSize /\ MaxSize \in Nat \ {0}
        /\ r.vtail \in Slots /\ tail \in Slots /\ tail' \in Slots /\ split \in Slots
        /\ s \in 0..(MaxSize-1)
        /\ Claimed' = Claimed /\ Last' = Last
    <3>1. n \in 0..MaxBlock /\ MaxBlock \in Nat /\ MaxBlock < MaxSize
      BY DEF Shape
    <3>2. n \in Nat /\ n < MaxSize
      BY <3>1 DEF Shape
    <3>3. Last' = Last
      BY DEF Last
    <3>4. completed'[cur].itasks = n
      <4>1. cur \in Epochs /\ completed[cur] \in Completions /\ Last # cur
        BY DEF Shape
      <4>2. completed'[cur] = [r EXCEPT !.done = r.done \/ copied = n]
        BY <2>1, <4>1 DEF Shape
      <4> QED BY <4>1, <4>2 DEF Completions
    <3>5. Claimed' = Claimed
      BY <3>4 DEF Claimed, Enabled
    <3> QED BY <3>1, <3>2, <3>3, <3>5 DEF Shape, RingInv
  <2>3. /\ completed'[Last] = [old EXCEPT !.done = lastDone]
        /\ completed'[cur] = [r EXCEPT !.done = r.done \/ copied = n]
    BY <2>1, <2>2
  <2>4. /\ completed'[Last].itasks = old.itasks /\ completed'[Last].vtail = old.vtail
        /\ completed'[Last].maxsteals = old.maxsteals
        /\ completed'[Last].status = old.status
        /\ completed'[Last].done = lastDone
        /\ completed'[cur].itasks = n /\ completed'[cur].vtail = r.vtail
        /\ completed'[cur].maxsteals = r.maxsteals
        /\ completed'[cur].status = r.status
        /\ completed'[cur].done = (r.done \/ copied = n)
    <3>1. old \in Completions /\ r \in Completions
      BY <2>2
    <3> HIDE DEF old, r, lastDone, copied
    <3> QED BY <2>3, <3>1 DEF Completions
  <2>5. /\ j \in 0..MaxStealsPerEpoch /\ copied = Stolen(n, j)
        /\ Left(n, j) \in 0..n /\ Stolen(n, j) = n - Left(n, j) /\ Left(n, j) <= s
        /\ \A i \in Indices :
             /\ i < j => r.status[i] # 0
             /\ r.status[i] = 0 => Left(n, i) <= Left(n, j)
        /\ Left(n, j) = 0 => j = r.maxsteals
    BY <2>2, CompletedShares
  <2>6. PICK m \in 0..MaxBlock : LastInv(m)
    BY DEF RingInv
  <2>7. \A th \in InFlight : claim[th].epoch = cur
    BY <1>2, NoneOnLast
  <2>8. old.done \in BOOLEAN /\ lastDone \in BOOLEAN /\ old.status \in [Indices -> Nat]
        /\ old.maxsteals \in 0..MaxStealsPerEpoch
    BY <2>2 DEF Shape
  <2>9. ASSUME old.done \/ lastDone, NEW i \in Indices, i < old.maxsteals
        PROVE  old.status[i] # 0
    <3>1. CASE old.done
      BY <2>6, <2>9, <3>1 DEF LastInv, RecordInv
    <3>2. CASE ~old.done
      <4>1. i \in 0..(old.maxsteals - 1)
        BY <2>8, <2>9, IndexFacts DEF Indices
      <4> QED BY <1>2, <3>2, <4>1
    <3> QED BY <3>1, <3>2
  <2>10. SharedSize(tail)' = SharedSize(tail')
    BY DEF SharedSize
  <2> DEFINE s2 == SharedSize(tail')
  <2>11. \/ lastDone /\ s2 = Left(n, j)
         \/ lastDone /\ s2 = n /\ n <= s
         \/ s2 = s /\ (lastDone => old.done)
    <3>1. CASE lastDone /\ copied > 0
      <4> DEFINE a == r.vtail + copied
      <4>1. a \in Nat /\ a < 2 * MaxSize /\ a + Left(n, j) = r.vtail + n
        BY <2>2, <2>5 DEF Slots
      <4>2. Meets(MaxSize, r.vtail + n, split)
        BY <2>2 DEF CurrentInv
      <4>3. tail' = a % MaxSize
        BY <2>1, <3>1
      <4> HIDE DEF a
      <4>4. Meets(MaxSize, a, tail') /\ tail' \in 0..(MaxSize-1)
        BY <2>2, <4>1, <4>3, ModCases
      <4>5. Meets(MaxSize, tail' + Left(n, j), split) /\ Left(n, j) \in 0..(MaxSize-1)
        <5>1. split \in 0..(MaxSize-1) /\ Left(n, j) \in 0..(MaxSize-1)
          BY <2>2, <2>5 DEF Slots
        <5>2. Meets(MaxSize, a + Left(n, j), split)
          BY <4>1, <4>2
        <5> QED BY <2>2, <4>1, <4>4, <5>1, <5>2, MeetsSlot
      <4>6. s2 = Left(n, j)
        BY <2>2, <4>5, SharedSizeGap
      <4> QED BY <3>1, <4>6
    <3>2. CASE lastDone /\ ~(copied > 0) /\ ~old.done
      <4>1. tail' = r.vtail
        BY <2>1, <3>2
      <4>2. Meets(MaxSize, r.vtail + n, split) /\ n <= s
        BY <2>2, <2>6, <3>2 DEF CurrentInv, LastInv
      <4>3. s2 = n
        BY <2>2, <4>1, <4>2, SharedSizeGap
      <4> QED BY <3>2, <4>2, <4>3
    <3>3. CASE ~lastDone \/ (~(copied > 0) /\ old.done)
      <4>1. tail' = tail
        BY <2>1, <3>3
      <4> QED BY <3>3, <4>1
    <3> QED BY <2>8, <3>1, <3>2, <3>3
  <2>12. s2 \in Nat /\ s2 <= s
    BY <2>2, <2>5, <2>11
  <2>13. \A i \in Indices : r.status[i] = 0 => Left(n, i) <= s2
    <3> SUFFICES ASSUME NEW i \in Indices, r.status[i] = 0 PROVE Left(n, i) <= s2
      OBVIOUS
    <3>1. /\ Left(n, i) <= Left(n, j) /\ Left(n, i) <= s /\ Left(n, i) \in 0..n
      <4>1. i \in Nat
        BY IndexFacts DEF Indices
      <4> QED BY <2>2, <2>5, <4>1, ShareFacts DEF CurrentInv
    <3> QED BY <2>2, <2>5, <2>11, <3>1
  <2>14. CurrentInv'
    <3>1. completed'[cur].maxsteals = MaxSteals(n)
      BY <2>2, <2>4 DEF CurrentInv
    <3>2. RecordInv(completed'[cur], n, Claimed)
      <4>1. RecordInv(r, n, Claimed) /\ r.maxsteals = MaxSteals(n)
        BY <2>2 DEF CurrentInv
      <4>2. ASSUME copied = n, NEW i \in Indices, i < r.maxsteals
            PROVE  r.status[i] # 0
        <5>1. Left(n, j) = 0
          BY <2>2, <2>5, <4>2
        <5>2. i < j
          BY <2>5, <4>2, <5>1
        <5> QED BY <2>5, <5>2
      <4> HIDE DEF r, copied, n
      <4> QED BY <2>4, <4>1, <4>2 DEF RecordInv
    <3>3. \A th \in InFlight : ClaimInv(claim'[th], completed'[cur], n, Claimed)
      <4> SUFFICES ASSUME NEW th \in InFlight
                   PROVE  ClaimInv(claim'[th], completed'[cur], n, Claimed)
        OBVIOUS
      <4>1. ClaimInv(claim[th], r, n, Claimed)
        BY <2>2, <2>7 DEF CurrentInv
      <4> QED BY <2>2, <2>4, <4>1 DEF ClaimInv
    <3>4. Meets(MaxSize, completed'[cur].vtail + completed'[cur].itasks, split')
      BY <2>2, <2>4 DEF CurrentInv
    <3>5. \A i \in Indices :
            completed'[cur].status[i] = 0 => Left(n, i) <= SharedSize(tail)'
      BY <2>4, <2>10, <2>13
    <3> QED BY <2>2, <2>4, <3>1, <3>2, <3>3, <3>4, <3>5 DEF CurrentInv
  <2>15. LastInv(m)'
    <3>1. RecordInv(completed'[Last], m, old.maxsteals)
      <4>1. RecordInv(old, m, old.maxsteals)
        BY <2>6 DEF LastInv
      <4> QED BY <2>4, <2>9, <4>1 DEF RecordInv
    <3>2. completed'[Last].itasks = Stolen(m, old.maxsteals)
      BY <2>4, <2>6 DEF LastInv
    <3>3. ASSUME ~lastDone
          PROVE  /\ Meets(MaxSize, old.vtail + old.itasks, r.vtail)
                 /\ n <= s2
      <4>1. s2 = s /\ ~old.done
        BY <2>11, <3>3
      <4> QED BY <2>6, <4>1 DEF LastInv
    <3>4. \A th \in InFlight : claim[th].epoch # Last
      BY <2>2, <2>7
    <3> QED BY <2>2, <2>4, <2>10, <3>1, <3>2, <3>3, <3>4 DEF LastInv
  <2>16. DistinctInv'
    BY <2>2 DEF DistinctInv
  <2> QED BY <2>4, <2>6, <2>10, <2>12, <2>14, <2>15, <2>16 DEF RingInv
<1> QED BY <1>1, <1>2

LEMMA EnsureInv ==
  ASSUME Shape, Shape', OwnerInv, RingInv, HandInv,
         opc \in {"idle", "reclaim"}, opc' \in {"idle", "aborted"},
         UNCHANGED <<split, cur, stealval, thiefVars, hand>>,
         \/ UNCHANGED <<tail, completed>>
         \/ tail' = ReclaimSpace.tail /\ completed' = ReclaimSpace.completed
  PROVE  RingInv' /\ AdvertisedInv' /\ HandInv' /\ SharedSize(tail)' <= SharedSize(tail)
<1>1. /\ UNCHANGED claim /\ Advertised' = Advertised /\ Advertised = stealval
      /\ InFlight' = InFlight /\ opc' # "reacquire"
  BY DEF thiefVars, Advertised, InFlight
<1>2. /\ RingInv' /\ SharedSize(tail)' <= SharedSize(tail)
      /\ completed'[cur].itasks = completed[cur].itasks
      /\ completed'[cur].vtail = completed[cur].vtail
  <2>1. CASE UNCHANGED <<tail, completed>>
    <3>1. RingInv'
      BY <1>1, <2>1, RingFrame, ClaimedFrame
    <3>2. SharedSize(tail)' = SharedSize(tail) /\ SharedSize(tail) \in Nat
      BY <2>1 DEF SharedSize, Shape
    <3> QED BY <2>1, <3>1, <3>2
  <2>2. CASE tail' = ReclaimSpace.tail /\ completed' = ReclaimSpace.completed
    BY <1>1, <2>2, ReclaimRing
  <2> QED BY <2>1, <2>2
<1>3. SharedSize(tail) \in Nat /\ SharedSize(tail)' \in Nat
  BY DEF Shape
<1>4. AdvertisedInv'
  BY <1>1, <1>2, <1>3 DEF OwnerInv, HeadBehindTail, AdvertisedInv, Enabled
<1>5. HandInv'
  BY DEF HandInv, Reserved, thiefVars
<1> QED BY <1>2, <1>4, <1>5

LEMMA PushInv ==
  ASSUME ReclaimFreq = 1, TypeInv, TypeInv', IInv, Push
  PROVE  IInv'
<1>1. Shape /\ Shape' /\ OwnerInv /\ RingInv /\ HandInv
  BY ShapeHolds, PTL DEF IInv
<1>2. PICK n \in Nat : /\ PushEnsured(n)
                       /\ UNCHANGED <<split, cur, stealval, thiefVars, hand>>
  <2>1. CASE PushHead
    <3>1. ccPush = 0
      BY DEF TypeInv, TypeOK
    <3>2. PushEnsured(1) /\ UNCHANGED <<split, cur, stealval, thiefVars, hand>>
      BY <2>1, <3>1 DEF PushHead
    <3> QED BY <3>2
  <2>2. ASSUME NEW n \in 1..MaxPush, PushNHead(n)
        PROVE  PushEnsured(n) /\ UNCHANGED <<split, cur, stealval, thiefVars, hand>>
    BY <2>2 DEF PushNHead
  <2>3. \A n \in 1..MaxPush : n \in Nat
    BY SizeAssumption
  <2> QED BY <2>1, <2>2, <2>3 DEF Push
<1>3. /\ opc = "idle" /\ opc' \in {"idle", "aborted"}
      /\ tail' = EnsureSpace(n).tail /\ completed' = EnsureSpace(n).completed
      /\ \/ HasSpace(tail', n) /\ nlocal' = nlocal + n
         \/ nlocal' = nlocal
  BY <1>2 DEF PushEnsured, Store
<1>4. \/ UNCHANGED <<tail, completed>>
      \/ tail' = ReclaimSpace.tail /\ completed' = ReclaimSpace.completed
  BY <1>3 DEF EnsureSpace
<1>5. RingInv' /\ AdvertisedInv' /\ HandInv' /\ SharedSize(tail)' <= SharedSize(tail)
  BY <1>1, <1>2, <1>3, <1>4, EnsureInv
<1>6. nlocal' + SharedSize(tail)' <= MaxSize
  <2>1. /\ nlocal \in Nat /\ MaxSize \in Nat /\ SharedSize(tail) \in Nat
        /\ SharedSize(tail)' \in Nat /\ SharedSize(tail)' = SharedSize(tail')
        /\ nlocal + SharedSize(tail) <= MaxSize
    BY <1>1, <1>2 DEF Shape, SharedSize, OwnerInv, HeadBehindTail, AdvertisedInv
  <2>2. CASE HasSpace(tail', n) /\ nlocal' = nlocal + n
    BY <2>1, <2>2 DEF HasSpace
  <2>3. CASE nlocal' = nlocal
    BY <1>5, <2>1, <2>3
  <2> QED BY <1>3, <2>2, <2>3
<1> QED BY <1>5, <1>6 DEF IInv, OwnerInv, HeadBehindTail, AdvertisedInv

LEMMA PopExecuteInv ==
  ASSUME ReclaimFreq = 1, TypeInv, TypeInv', IInv, PopHead \/ Execute
  PROVE  IInv'
<1>1. Shape /\ Shape' /\ OwnerInv /\ RingInv /\ HandInv
  BY ShapeHolds, PTL DEF IInv
<1>2. /\ UNCHANGED <<tail, split, cur, completed, stealval, opc, snap, thiefVars>>
      /\ opc = "idle" /\ nlocal' <= nlocal /\ nlocal' \in Nat
      /\ \E h : hand' = [hand EXCEPT ![Owner] = h]
  BY <1>1 DEF PopHead, Execute, ownerVars, Shape
<1>3. Advertised' = Advertised /\ InFlight' = InFlight /\ UNCHANGED claim
  BY <1>2 DEF Advertised, InFlight, thiefVars
<1>4. RingInv'
  BY <1>1, <1>2, <1>3, RingFrame, ClaimedFrame
<1>5. OwnerInv'
  <2>1. SharedSize(tail)' = SharedSize(tail) /\ SharedSize(tail) \in Nat
        /\ nlocal \in Nat /\ MaxSize \in Nat
    BY <1>1, <1>2 DEF SharedSize, Shape
  <2>2. nlocal' + SharedSize(tail)' <= MaxSize
    BY <1>1, <1>2, <2>1 DEF OwnerInv, HeadBehindTail, AdvertisedInv
  <2> QED BY <1>1, <1>2, <1>3, <2>1, <2>2
             DEF OwnerInv, HeadBehindTail, AdvertisedInv, Enabled
<1>6. HandInv'
  <2>1. \A th \in Thieves : th # Owner
    BY WorkersAssumption
  <2>2. \A th \in Thieves : hand'[th] = hand[th]
    BY <1>2, <2>1, HandType DEF TypeInv, TypeOK, Workers
  <2> QED BY <1>1, <1>2, <2>2 DEF HandInv, Reserved, thiefVars
<1> QED BY <1>4, <1>5, <1>6 DEF IInv

LEMMA ReacquireBeginInv ==
  ASSUME ReclaimFreq = 1, TypeInv, TypeInv', IInv, ReacquireBegin
  PROVE  IInv'
<1>1. Shape /\ Shape' /\ OwnerInv /\ RingInv /\ HandInv
  BY ShapeHolds, PTL DEF IInv
<1>2. /\ UNCHANGED <<tail, split, nlocal, cur, completed, thiefVars, hand>>
      /\ snap' = stealval /\ opc = "idle" /\ opc' = "reacquire"
      /\ nlocal = 0 /\ SharedSize(tail) > 0 /\ hand[Owner] = {}
  BY DEF ReacquireBegin
<1>3. Advertised' = Advertised /\ InFlight' = InFlight /\ UNCHANGED claim
  BY <1>2 DEF Advertised, InFlight, thiefVars
<1>4. RingInv'
  BY <1>1, <1>2, <1>3, RingFrame, ClaimedFrame
<1>5. ~Enabled(stealval')
  <2>1. stealval \in StealValues /\ stealval.valid \in 0..3
    BY DEF TypeInv, TypeOK, StealValues
  <2> QED BY <2>1 DEF ReacquireBegin, Enabled, Disable, StealValues
<1>6. OwnerInv'
  <2>1. SharedSize(tail)' = SharedSize(tail) /\ SharedSize(tail) \in Nat
    BY <1>1, <1>2 DEF SharedSize, Shape
  <2>2. Advertised = stealval /\ Enabled(stealval)
    BY <1>1, <1>2, <2>1 DEF Advertised, OwnerInv, HeadBehindTail, AdvertisedInv
  <2> QED BY <1>1, <1>2, <1>3, <1>5, <2>1, <2>2
             DEF OwnerInv, HeadBehindTail, AdvertisedInv, Enabled
<1>7. HandInv'
  BY <1>1, <1>2 DEF HandInv, Reserved, thiefVars
<1> QED BY <1>4, <1>6, <1>7 DEF IInv

LEMMA SharedSizeNext ==
  ASSUME split' \in Slots, tail' \in Slots, NEW k \in 0..(MaxSize-1),
         Meets(MaxSize, tail' + k, split')
  PROVE  SharedSize(tail)' = k
<1>1. MaxSize \in Nat \ {0} /\ split' \in 0..(MaxSize-1) /\ tail' \in 0..(MaxSize-1)
  BY SizeAssumption DEF Slots
<1>2. SharedSize(tail)' = Gap(MaxSize, split', tail')
  BY DEF SharedSize, Gap
<1> QED BY <1>1, <1>2, GapMeets

\* A record without claims.
LEMMA FreshRecord ==
  ASSUME NEW n \in 0..MaxBlock, NEW t \in Slots
  PROVE  /\ Epoch(n, t).itasks = n /\ Epoch(n, t).vtail = t
         /\ Epoch(n, t).maxsteals = MaxSteals(n) /\ ~Epoch(n, t).done
         /\ \A i \in Indices : Epoch(n, t).status[i] = 0
         /\ RecordInv(Epoch(n, t), n, 0)
         /\ MaxSteals(n) \in Nat
         /\ \A i \in Indices : Left(n, i) \in 0..n
<1>1. MaxSteals(n) \in Nat
  BY StealsFit, IndexFacts
<1>2. \A i \in Indices : Left(n, i) \in 0..n
  BY ShareFacts DEF Indices
<1> QED BY <1>1, <1>2 DEF Epoch, RecordInv

\* Nothing is in flight while nothing is shared.
LEMMA NoneInFlight ==
  ASSUME Shape, OwnerInv, RingInv, SharedSize(tail) = 0
  PROVE  InFlight = {} /\ tail = split
<1>1. \A th \in InFlight : Back(th) \in 1..SharedSize(tail)
  BY RegionsHold DEF RegionFacts
<1>2. tail = split
  BY DEF Shape, Slots, Meets
<1> QED BY <1>1, <1>2

LEMMA ProgressInv ==
  ASSUME ReclaimFreq = 1, TypeInv, TypeInv', IInv, Progress
  PROVE  IInv'
<1>1. Shape /\ Shape' /\ OwnerInv /\ RingInv /\ HandInv
  BY ShapeHolds, PTL DEF IInv
<1>2. /\ UNCHANGED <<tail, cur, claim, pc, hand>> /\ opc = "idle"
      /\ opc' # "reacquire"
      /\ Advertised = stealval /\ Advertised' = stealval'
      /\ InFlight' = InFlight /\ Last' = Last
  BY DEF Progress, thiefVars, Advertised, InFlight, Last
<1>3. HandInv'
  BY <1>1, <1>2 DEF HandInv, Reserved
<1>4. CASE UNCHANGED <<nlocal, split, completed, stealval>>
  <2>1. RingInv'
    BY <1>1, <1>2, <1>4, RingFrame, ClaimedFrame
  <2>2. SharedSize(tail)' = SharedSize(tail)
    BY <1>2, <1>4 DEF SharedSize
  <2>3. OwnerInv'
    BY <1>1, <1>2, <1>4, <2>2 DEF OwnerInv, HeadBehindTail, AdvertisedInv, Enabled
  <2> QED BY <1>3, <2>1, <2>3 DEF IInv
<1>5. CASE ~UNCHANGED <<nlocal, split, completed, stealval>>
  <2> DEFINE n == Released(nlocal)
             s == SharedSize(tail)
  <2>1. /\ nlocal > 0 /\ s = 0
        /\ nlocal' = nlocal - n /\ split' = (split + n) % MaxSize
        /\ completed' = [completed EXCEPT ![cur] = Epoch(n, tail)]
        /\ stealval' = [asteals |-> 0, valid |-> cur, itasks |-> n, tail |-> tail]
    BY <1>5 DEF Progress, Release
  <2>2. /\ MaxSize \in Nat \ {0} /\ MaxBlock \in Nat /\ MaxBlock < MaxSize
        /\ nlocal \in Nat /\ nlocal \in 0..MaxLocal /\ nlocal <= MaxSize
        /\ cur \in Epochs /\ Last \in Epochs /\ Last # cur
        /\ tail \in Slots /\ split \in Slots /\ split' \in Slots
        /\ completed \in [Epochs -> Completions]
    BY <1>1, <2>1 DEF Shape, TypeInv, TypeOK, OwnerInv, HeadBehindTail, AdvertisedInv
  <2>3. n \in 0..MaxBlock /\ n <= nlocal /\ n \in Nat /\ n < MaxSize
    <3>1. n \in 0..MaxBlock /\ n <= nlocal
      BY <2>2, BlockBounds
    <3> HIDE DEF n
    <3> QED BY <2>2, <3>1
  <2> HIDE DEF n
  <2>4. InFlight = {} /\ tail = split
    BY <1>1, <2>1, NoneInFlight
  <2>5. completed'[cur] = Epoch(n, tail) /\ completed'[Last] = completed[Last]
    BY <2>1, <2>2
  <2>6. Meets(MaxSize, tail + n, split')
    <3>1. tail + n \in Nat /\ tail + n < 3 * MaxSize
      BY <2>2, <2>3 DEF Slots
    <3> QED BY <2>1, <2>2, <2>4, <3>1, ModCases
  <2>7. SharedSize(tail)' = n
    BY <1>2, <2>2, <2>3, <2>6, SharedSizeNext
  <2>8. Enabled(stealval') /\ Claimed' = 0
    <3>1. MaxSteals(n) \in Nat
      BY <2>2, <2>3, FreshRecord
    <3>2. Enabled(stealval')
      BY <2>1, <2>2 DEF Enabled, Disable, Epochs
    <3>3. completed'[cur'].itasks = n
      BY <1>2, <2>2, <2>3, <2>5, FreshRecord
    <3> QED BY <1>2, <2>1, <3>1, <3>2, <3>3 DEF Claimed, Enabled
  <2>9. CurrentInv'
    BY <1>2, <2>2, <2>3, <2>4, <2>5, <2>6, <2>7, <2>8, FreshRecord DEF CurrentInv
  <2>10. PICK m \in 0..MaxBlock : LastInv(m)
    BY <1>1 DEF RingInv
  <2>11. LastInv(m)'
    <3>1. ASSUME ~completed[Last].done
          PROVE  Meets(MaxSize, completed[Last].vtail + completed[Last].itasks, tail)
      <4>1. completed[cur].itasks = 0
        BY <1>1, <2>1, <2>10, <3>1 DEF LastInv, Shape
      <4>2. completed[cur].vtail = split
        <5>1. Meets(MaxSize, completed[cur].vtail + completed[cur].itasks, split)
          BY <1>1 DEF RingInv, CurrentInv
        <5>2. completed[cur].vtail \in Slots
          BY <1>1 DEF Shape
        <5> QED BY <2>2, <4>1, <5>1, <5>2 DEF Meets, Slots
      <4> QED BY <2>4, <2>10, <3>1, <4>2 DEF LastInv
    <3>2. completed'[cur].itasks = n /\ completed'[cur].vtail = tail
      BY <2>2, <2>3, <2>5, FreshRecord
    <3> QED BY <1>2, <2>3, <2>4, <2>5, <2>7, <2>10, <3>1, <3>2 DEF LastInv
  <2>12. RingInv'
    BY <1>2, <2>4, <2>9, <2>10, <2>11 DEF RingInv, DistinctInv
  <2>13. OwnerInv'
    <3>1. nlocal' + SharedSize(tail)' <= MaxSize
      BY <2>1, <2>2, <2>3, <2>7
    <3>2. completed'[cur].itasks = n /\ completed'[cur].vtail = tail
      BY <2>2, <2>3, <2>5, FreshRecord
    <3> QED BY <1>2, <2>1, <2>8, <3>1, <3>2
               DEF OwnerInv, HeadBehindTail, AdvertisedInv, Enabled
  <2> QED BY <1>3, <2>12, <2>13 DEF IInv
<1> QED BY <1>4, <1>5

LEMMA ProgressReclaimInv ==
  ASSUME ReclaimFreq = 1, TypeInv, TypeInv', IInv, ProgressReclaim
  PROVE  IInv'
<1>1. Shape /\ Shape' /\ OwnerInv /\ RingInv /\ HandInv
  BY ShapeHolds, PTL DEF IInv
<1>2. /\ opc \in {"idle", "reclaim"} /\ opc' \in {"idle", "aborted"}
      /\ UNCHANGED <<split, cur, stealval, thiefVars, hand, nlocal>>
      /\ tail' = ReclaimSpace.tail /\ completed' = ReclaimSpace.completed
  BY DEF ProgressReclaim, thiefVars
<1>3. RingInv' /\ AdvertisedInv' /\ HandInv' /\ SharedSize(tail)' <= SharedSize(tail)
  BY <1>1, <1>2, EnsureInv
<1>4. nlocal' + SharedSize(tail)' <= MaxSize
  BY <1>1, <1>2, <1>3 DEF OwnerInv, HeadBehindTail, AdvertisedInv, Shape
<1> QED BY <1>3, <1>4 DEF IInv, OwnerInv, HeadBehindTail, AdvertisedInv

\* The owner reacquires only when the claims on the last epoch are over.
LEMMA LastOver ==
  ASSUME Shape, RingInv, LastEpochOver
  PROVE  \A th \in InFlight : claim[th].epoch = cur
<1> DEFINE r == completed[Last]
           k == r.maxsteals
<1>1. PICK m \in 0..MaxBlock : LastInv(m)
  BY DEF RingInv
<1>2. /\ Last \in Epochs /\ completed \in [Epochs -> Completions]
      /\ k \in 0..MaxStealsPerEpoch /\ k \in Nat /\ r.itasks \in Nat
  BY IndexFacts, BlockBounds DEF Shape
<1>3. CASE r.done
  BY <1>3, NoneOnLast
<1>4. CASE ~r.done
  <2>1. CopiedBy(Last, k) = Stolen(m, k) /\ RecordInv(r, m, k)
    BY <1>1, <1>4 DEF LastEpochOver, StatusSum, LastInv
  <2>2. k <= MaxSteals(m) /\ MaxSteals(m) \in Nat
    <3>1. MaxSteals(m) \in 0..MaxStealsPerEpoch
      BY StealsFit
    <3> QED BY <2>1, <3>1, IndexFacts DEF RecordInv
  <2>3. ASSUME NEW i \in 0..(k-1), r.status[i] = 0 PROVE FALSE
    <3>1. i < MaxSteals(m)
      BY <1>2, <2>2
    <3>2. CopiedBy(Last, k) < Stolen(m, k) /\ CopiedBy(Last, k) \in 0..Stolen(m, k)
      BY <1>2, <2>1, <2>3, <3>1, CopiedShares
    <3>3. Stolen(m, k) \in Nat
      <4>1. m \in Nat
        BY BlockBounds
      <4>2. Stolen(m, k) \in 0..m
        BY <1>2, <4>1, StolenType
      <4> QED BY <4>2
    <3> QED BY <2>1, <3>2, <3>3
  <2> QED BY <2>3, NoneOnLast
<1> QED BY <1>3, <1>4

LEMMA ReacquireNothingInv ==
  ASSUME Shape, Shape', IInv, ReacquireNothing, opc = "reacquire", opc' = "idle",
         UNCHANGED <<pc, claim>>, Left(snap.itasks, snap.asteals) = 0
  PROVE  IInv'
<1>1. OwnerInv /\ RingInv /\ HandInv
  BY DEF IInv
<1>2. /\ UNCHANGED <<tail, split, nlocal, cur, completed, claim, pc, hand>>
      /\ Advertised = snap /\ Advertised' = stealval'
      /\ stealval' = [asteals |-> 0, valid |-> cur, itasks |-> 0, tail |-> tail]
      /\ InFlight' = InFlight
  BY DEF ReacquireNothing, Advertised, InFlight
<1> DEFINE n == completed[cur].itasks
<1>3. /\ n \in 0..MaxBlock /\ n \in Nat /\ Claimed \in Nat /\ Claimed <= MaxSteals(n)
      /\ MaxSteals(n) \in 0..n /\ cur \in Epochs
  <2>1. n \in 0..MaxBlock /\ MaxBlock \in Nat
    BY DEF Shape
  <2>2. n \in Nat
    BY <2>1
  <2> QED BY <2>1, <2>2, Exhaustion DEF Shape
<1>4. Claimed = MaxSteals(n)
  <2>1. NUnclaimed = 0
    BY <1>2 DEF NUnclaimed
  <2>2. Left(n, Claimed) = 0
    BY <1>1, <2>1, UnclaimedLeft
  <2>3. Claimed >= MaxSteals(n)
    BY <1>3, <2>2, Exhaustion
  <2> QED BY <1>3, <2>3
<1>5. Claimed' = Claimed
  <2>1. CASE n = 0
    BY <1>2, <1>3, <1>4, <2>1 DEF Claimed
  <2>2. CASE n # 0
    BY <1>2, <1>4, <2>2 DEF Claimed
  <2> QED BY <2>1, <2>2
<1>6. RingInv'
  BY <1>1, <1>2, <1>5, RingFrame
<1>7. OwnerInv'
  <2>1. SharedSize(tail)' = SharedSize(tail)
    BY <1>2 DEF SharedSize
  <2>2. Enabled(stealval')
    BY <1>2, <1>3 DEF Enabled, Disable, Epochs
  <2> QED BY <1>1, <1>2, <2>1, <2>2 DEF OwnerInv, HeadBehindTail, AdvertisedInv, Enabled
<1>8. HandInv'
  BY <1>1, <1>2 DEF HandInv, Reserved
<1> QED BY <1>6, <1>7, <1>8 DEF IInv

\* What is left when it is not nothing is the end of the current epoch's block.
LEMMA ReacquiredBlock ==
  ASSUME Shape, OwnerInv, CurrentInv, opc = "reacquire",
         Left(snap.itasks, snap.asteals) > 0
  PROVE  /\ snap.itasks = completed[cur].itasks /\ snap.asteals = Claimed
         /\ snap.tail = completed[cur].vtail
         /\ Claimed < MaxSteals(snap.itasks)
         /\ Left(snap.itasks, snap.asteals) <= SharedSize(tail)
         /\ NUnclaimed = Left(snap.itasks, snap.asteals)
<1> DEFINE n == completed[cur].itasks
<1>1. Advertised = snap /\ Enabled(snap)
  BY DEF Advertised, OwnerInv, HeadBehindTail, AdvertisedInv
<1>2. NUnclaimed = Left(snap.itasks, snap.asteals)
  BY <1>1 DEF NUnclaimed
<1>3. NUnclaimed = Left(n, Claimed) /\ NUnclaimed <= SharedSize(tail)
  BY UnclaimedLeft, UnclaimedRegion DEF Shape
<1>4. n \in 0..MaxBlock /\ Claimed \in Nat
  BY DEF Shape
<1>5. Claimed < MaxSteals(n)
  BY <1>2, <1>3, <1>4, ShareFacts
<1>6. MaxSteals(n) \in Nat
  BY <1>4, StealsFit, IndexFacts
<1>7. snap.itasks = n /\ snap.asteals = Claimed
  BY <1>1, <1>4, <1>5, <1>6 DEF Claimed
<1>8. snap.tail = completed[cur].vtail
  <2>1. n # 0
    <3>1. Left(n, Claimed) \in 0..n
      BY <1>4, ShareFacts
    <3> QED BY <1>2, <1>3, <1>7, <3>1
  <2> QED BY <1>1, <1>7, <2>1 DEF OwnerInv, HeadBehindTail, AdvertisedInv
<1> QED BY <1>2, <1>3, <1>5, <1>7, <1>8

LEMMA ReacquireSomeInv ==
  ASSUME Shape, Shape', TypeInv, IInv, opc = "reacquire", opc' = "idle",
         LastEpochOver, UNCHANGED <<pc, claim>>,
         NEW left, left = Left(snap.itasks, snap.asteals),
         NEW n, n = completed[cur].itasks,
         Reacquired(left) > 0, ReacquireSome(left)
  PROVE  IInv'
<1> DEFINE r      == completed[cur]
           amount == Reacquired(left)
           stolen == snap.itasks - left
           vtail2 == (r.vtail + stolen) % MaxSize
           n2     == left - amount
           s      == SharedSize(tail)
           s2     == SharedSize(tail)'
           j      == Completed(cur)
<1>1. OwnerInv /\ RingInv /\ HandInv /\ CurrentInv /\ DistinctInv
  BY DEF IInv, RingInv
<1>2. /\ MaxSize \in Nat \ {0} /\ MaxBlock \in Nat /\ MaxBlock < MaxSize
      /\ cur \in Epochs /\ Last \in Epochs /\ Last # cur
      /\ tail \in Slots /\ split \in Slots /\ tail' \in Slots /\ split' \in Slots
      /\ s \in 0..(MaxSize-1) /\ nlocal \in Nat
      /\ completed \in [Epochs -> Completions]
      /\ n \in 0..MaxBlock /\ r.vtail \in Slots /\ Claimed \in Nat
      /\ nlocal + s <= MaxSize
  BY <1>1 DEF Shape, OwnerInv, HeadBehindTail, AdvertisedInv
<1>3. /\ left \in 0..n /\ amount \in 1..left /\ left > 0 /\ left <= s
      /\ snap.itasks = n /\ snap.asteals = Claimed /\ snap.tail = r.vtail
      /\ Claimed < MaxSteals(n) /\ left = Left(n, Claimed)
      /\ stolen = n - left /\ stolen = Stolen(n, Claimed)
  <2>1. snap.itasks \in 0..MaxBlock /\ snap.asteals \in Nat
    BY WidthAssumption DEF TypeInv, TypeOK, StealValues
  <2>2. /\ left \in 0..snap.itasks /\ amount \in 0..left
        /\ amount > 0 <=> left > 0
    BY <2>1, SharesType
  <2>3. left > 0
    BY <2>2
  <2>4. /\ snap.itasks = n /\ snap.asteals = Claimed /\ snap.tail = r.vtail
        /\ Claimed < MaxSteals(n) /\ left <= s
    BY <1>1, <2>3, ReacquiredBlock
  <2>5. Stolen(n, Claimed) = n - left
    BY <1>2, <2>4, ShareFacts
  <2> QED BY <1>2, <2>2, <2>3, <2>4, <2>5
<1>4. /\ n \in Nat /\ n < MaxSize /\ left \in Nat /\ amount \in Nat
      /\ n2 \in 0..MaxBlock /\ n2 \in Nat /\ n2 = left - amount
      /\ stolen \in 0..n /\ stolen \in Nat
  BY <1>2, <1>3
<1> HIDE DEF amount, n2
<1>5. vtail2 \in Slots /\ Meets(MaxSize, r.vtail + stolen, vtail2)
  <2>1. r.vtail + stolen \in Nat /\ r.vtail + stolen < 3 * MaxSize
    BY <1>2, <1>4 DEF Slots
  <2> QED BY <1>2, <2>1, ModCases DEF Slots
<1> HIDE DEF vtail2
<1>6. /\ split' = Lowered(amount) /\ cur' = Last /\ nlocal' = amount - 1
      /\ tail' = IF r.vtail + StatusPrefix(cur) > tail
                 THEN (r.vtail + StatusPrefix(cur)) % MaxSize ELSE tail
      /\ completed' = [completed EXCEPT ![cur].itasks = stolen,
                                        ![cur].maxsteals = snap.asteals,
                                        ![Last] = Epoch(n2, vtail2)]
      /\ stealval' = [asteals |-> 0, valid |-> Last, itasks |-> Epoch(n2, vtail2).itasks,
                      tail |-> Epoch(n2, vtail2).vtail]
      /\ \E h : hand' = [hand EXCEPT ![Owner] = h]
  BY DEF ReacquireSome, amount, vtail2, n2
<1>7. Last' = cur
  BY <1>2, <1>6 DEF Last, Epochs
<1>8. /\ completed'[Last] = Epoch(n2, vtail2)
      /\ completed'[cur] = [r EXCEPT !.itasks = stolen, !.maxsteals = snap.asteals]
  <2> HIDE DEF stolen
  <2> QED BY <1>2, <1>6
<1>9. /\ completed'[cur].itasks = stolen /\ completed'[cur].maxsteals = Claimed
      /\ completed'[cur].vtail = r.vtail /\ completed'[cur].status = r.status
      /\ completed'[cur].done = r.done
  <2>1. r \in Completions
    BY <1>2
  <2> HIDE DEF r, stolen
  <2> QED BY <1>3, <1>8, <2>1 DEF Completions
<1>10. /\ Epoch(n2, vtail2).itasks = n2 /\ Epoch(n2, vtail2).vtail = vtail2
       /\ Epoch(n2, vtail2).maxsteals = MaxSteals(n2)
       /\ RecordInv(Epoch(n2, vtail2), n2, 0)
       /\ MaxSteals(n2) \in Nat /\ \A i \in Indices : Left(n2, i) \in 0..n2
  BY <1>4, <1>5, FreshRecord
<1>11. \A th \in InFlight : claim[th].epoch = cur
  BY <1>1, LastOver
\* The tail is at the old place or at the first share that is not completed.
<1>12. /\ j \in 0..MaxStealsPerEpoch /\ j \in Nat /\ j <= Claimed
       /\ StatusPrefix(cur) = n - Left(n, j) /\ Left(n, j) \in 0..n /\ Left(n, j) <= s
       /\ \A i \in Indices : r.status[i] = 0 => Left(n, i) <= Left(n, j)
  BY <1>1, IndexFacts, CompletedShares
<1> HIDE DEF j
<1>13. left <= Left(n, j)
  BY <1>2, <1>3, <1>12, LeftMonotone
<1>14. PICK d \in {s, Left(n, j)} : Meets(MaxSize, tail' + d, split)
  <2>1. CASE r.vtail + StatusPrefix(cur) > tail
    <3> DEFINE a == r.vtail + StatusPrefix(cur)
    <3>1. /\ a + Left(n, j) = r.vtail + n /\ a \in Nat /\ a < 3 * MaxSize
          /\ tail' = a % MaxSize
      BY <1>2, <1>4, <1>6, <1>12, <2>1 DEF Slots
    <3>2. Meets(MaxSize, r.vtail + n, split)
      BY <1>1 DEF CurrentInv
    <3> HIDE DEF a
    <3>3. /\ Meets(MaxSize, a, tail') /\ tail' \in 0..(MaxSize-1)
          /\ Left(n, j) \in 0..(MaxSize-1) /\ split \in 0..(MaxSize-1)
          /\ Meets(MaxSize, a + Left(n, j), split)
      <4>1. Meets(MaxSize, a, tail')
        BY <1>2, <3>1, ModCases
      <4>2. /\ tail' \in 0..(MaxSize-1) /\ split \in 0..(MaxSize-1)
            /\ Left(n, j) \in 0..(MaxSize-1)
        <5> HIDE DEF s
        <5> QED BY <1>2, <1>4, <1>12 DEF Slots
      <4> QED BY <3>1, <3>2, <4>1, <4>2
    <3>4. Meets(MaxSize, tail' + Left(n, j), split)
      BY <1>2, <3>1, <3>3, MeetsSlot
    <3> QED BY <3>4
  <2>2. CASE ~(r.vtail + StatusPrefix(cur) > tail)
    <3>1. tail' = tail
      BY <1>6, <2>2
    <3>2. Meets(MaxSize, tail + s, split)
      BY DEF Shape
    <3> QED BY <3>1, <3>2
  <2> QED BY <2>1, <2>2
<1>15. d \in Nat /\ left <= d /\ d <= s /\ Left(n, j) <= d /\ amount <= d
  BY <1>2, <1>3, <1>4, <1>12, <1>13, <1>14
<1>16. \A a \in Nat : Meets(MaxSize, a + amount, split) => Meets(MaxSize, a, split')
  <2>1. split' = IF split < amount THEN (split - amount) + MaxSize ELSE split - amount
    BY <1>6 DEF Lowered
  <2>2. amount \in 0..MaxSize /\ split \in 0..(MaxSize-1)
    BY <1>2, <1>3, <1>4 DEF Slots
  <2> QED BY <1>2, <2>1, <2>2, MeetsLowered
<1>17. s2 = d - amount
  <2>1. /\ tail' + (d - amount) \in Nat /\ d - amount \in 0..(MaxSize-1)
        /\ (tail' + (d - amount)) + amount = tail' + d
    <3>1. tail' \in Nat /\ s \in 0..(MaxSize-1)
      BY <1>2 DEF Slots
    <3>2. d - amount \in 0..(MaxSize-1)
      <4> HIDE DEF s
      <4> QED BY <1>2, <1>4, <1>15, <3>1
    <3>3. \A t, b, c \in Nat : t + (b - c) + c = t + b /\ (c <= b => t + (b - c) \in Nat)
      OBVIOUS
    <3>4. d \in Nat /\ amount \in Nat /\ amount <= d
      BY <1>4, <1>15
    <3> QED BY <3>1, <3>2, <3>3, <3>4, Zenon
  <2>2. Meets(MaxSize, tail' + (d - amount), split')
    BY <1>14, <1>16, <2>1
  <2> QED BY <1>2, <2>1, <2>2, SharedSizeNext
<1>18. n2 <= s2 /\ s2 \in Nat
  BY <1>4, <1>15, <1>17
<1>19. Meets(MaxSize, vtail2 + n2, split')
  <2>1. /\ Meets(MaxSize, (r.vtail + stolen) + left, split)
        /\ r.vtail + stolen \in Nat
    <3>1. (r.vtail + stolen) + left = r.vtail + n /\ r.vtail + stolen \in Nat
      BY <1>2, <1>3, <1>4 DEF Slots
    <3>2. Meets(MaxSize, r.vtail + n, split)
      BY <1>1 DEF CurrentInv
    <3> QED BY <3>1, <3>2
  <2>2. Meets(MaxSize, vtail2 + left, split)
    <3>1. /\ left \in 0..(MaxSize-1) /\ split \in 0..(MaxSize-1)
          /\ vtail2 \in 0..(MaxSize-1)
      BY <1>2, <1>3, <1>4, <1>5 DEF Slots
    <3> QED BY <1>2, <1>5, <2>1, <3>1, MeetsSlot
  <2>3. vtail2 + n2 \in Nat /\ (vtail2 + n2) + amount = vtail2 + left
    BY <1>4, <1>5 DEF Slots
  <2> QED BY <1>16, <2>2, <2>3
<1>20. /\ Advertised' = stealval' /\ Enabled(stealval') /\ Claimed' = 0
       /\ stealval'.valid = cur' /\ stealval'.itasks = n2 /\ stealval'.tail = vtail2
       /\ completed'[cur'].itasks = n2 /\ completed'[cur'].vtail = vtail2
       /\ InFlight' = InFlight
  <2>1. Advertised' = stealval' /\ InFlight' = InFlight
    BY DEF Advertised, InFlight
  <2>2. /\ stealval'.valid = cur' /\ stealval'.itasks = n2 /\ stealval'.tail = vtail2
        /\ stealval'.asteals = 0
        /\ completed'[cur'].itasks = n2 /\ completed'[cur'].vtail = vtail2
    BY <1>6, <1>8, <1>10
  <2>3. Enabled(stealval')
    BY <1>2, <1>6, <2>2 DEF Enabled, Disable, Epochs
  <2>4. Claimed' = 0
    BY <1>10, <2>1, <2>2, <2>3 DEF Claimed, Enabled
  <2> QED BY <2>1, <2>2, <2>3, <2>4
<1>21. CurrentInv'
  <2>1. \A i \in Indices : Left(n2, i) <= s2
    BY <1>4, <1>10, <1>18
  <2>2. \A th \in InFlight : claim[th].epoch # Last
    BY <1>2, <1>11
  <2> QED BY <1>6, <1>8, <1>10, <1>19, <1>20, <2>1, <2>2 DEF CurrentInv
<1>22. LastInv(n)'
  <2>1. RecordInv(completed'[cur], n, Claimed)
    <3>1. RecordInv(r, n, Claimed) /\ r.maxsteals = MaxSteals(n)
      BY <1>1 DEF CurrentInv
    <3>2. MaxSteals(n) \in Nat
      BY <1>2, StealsFit, IndexFacts
    <3>3. \A i \in Indices : i \in Nat
      BY DEF Indices
    <3> HIDE DEF r
    <3> QED BY <1>2, <1>3, <1>9, <3>1, <3>2, <3>3 DEF RecordInv
  <2>2. ASSUME NEW th \in InFlight
        PROVE  /\ ClaimInv(claim[th], completed'[cur], n, Claimed)
               /\ n2 + (stolen - Stolen(n, claim[th].index)) <= s2
    <3> DEFINE i == claim[th].index
    <3>1. ClaimInv(claim[th], r, n, Claimed)
      BY <1>1, <1>11 DEF CurrentInv
    <3>2. ClaimInv(claim[th], completed'[cur], n, Claimed)
      BY <1>9, <3>1 DEF ClaimInv
    <3>3. i \in Indices /\ i \in Nat
      BY DEF InFlight, Shape, Indices
    <3>4. Left(n, i) <= Left(n, j) /\ Left(n, i) \in 0..n
          /\ Stolen(n, i) = n - Left(n, i)
      BY <1>2, <1>12, <3>1, <3>3, ShareFacts DEF ClaimInv
    <3>5. n2 + (stolen - Stolen(n, i)) = Left(n, i) - amount
      BY <1>3, <1>4, <3>4
    <3> QED BY <1>4, <1>12, <1>15, <1>17, <3>2, <3>4, <3>5
  <2> HIDE DEF r, stolen, s2
  <2>3. /\ completed'[Last'].itasks = Stolen(n, completed'[Last'].maxsteals)
        /\ RecordInv(completed'[Last'], n, completed'[Last'].maxsteals)
        /\ Meets(MaxSize, completed'[Last'].vtail + completed'[Last'].itasks,
                 completed'[cur'].vtail)
        /\ completed'[cur'].itasks <= s2
    BY <1>3, <1>5, <1>7, <1>9, <1>18, <1>20, <2>1
  <2>4. ASSUME NEW th \in InFlight'
        PROVE  /\ ClaimInv(claim'[th], completed'[Last'], n, completed'[Last'].maxsteals)
               /\ completed'[cur'].itasks
                   + (completed'[Last'].itasks - Stolen(n, claim'[th].index)) <= s2
    BY <1>7, <1>9, <1>20, <2>2
  <2> QED BY <2>3, <2>4 DEF LastInv, s2
<1>23. DistinctInv'
  BY <1>1, <1>20 DEF DistinctInv
<1>24. RingInv'
  BY <1>2, <1>21, <1>22, <1>23 DEF RingInv
<1>25. nlocal' + s2 <= MaxSize
  BY <1>2, <1>4, <1>6, <1>15, <1>17
<1>26. OwnerInv'
  BY <1>20, <1>25 DEF OwnerInv, HeadBehindTail, AdvertisedInv, Enabled
<1>27. HandInv'
  <2>1. \A th \in Thieves : hand'[th] = hand[th]
    BY <1>6, WorkersAssumption DEF TypeInv, TypeOK, Workers
  <2> QED BY <1>1, <2>1 DEF HandInv, Reserved
<1> QED BY <1>24, <1>26, <1>27 DEF IInv

LEMMA ReacquireFinishInv ==
  ASSUME ReclaimFreq = 1, TypeInv, TypeInv', IInv, ReacquireFinish
  PROVE  IInv'
<1> DEFINE left == Left(snap.itasks, snap.asteals)
<1>1. Shape /\ Shape'
  BY ShapeHolds, PTL
<1>2. /\ opc = "reacquire" /\ opc' = "idle" /\ LastEpochOver /\ UNCHANGED <<pc, claim>>
  BY DEF ReacquireFinish, thiefVars
<1>3. CASE Reacquired(left) > 0
  <2>1. ReacquireSome(left)
    BY <1>3 DEF ReacquireFinish
  <2> QED BY <1>1, <1>2, <1>3, <2>1, ReacquireSomeInv
<1>4. CASE ~(Reacquired(left) > 0)
  <2>1. ReacquireNothing
    BY <1>4 DEF ReacquireFinish
  <2>2. left = 0
    <3>1. snap.itasks \in 0..MaxBlock /\ snap.asteals \in Nat
      BY WidthAssumption DEF TypeInv, TypeOK, StealValues
    <3>2. /\ left \in 0..snap.itasks
          /\ Reacquired(left) > 0 <=> left > 0
      BY <3>1, SharesType
    <3> QED BY <1>4, <3>1, <3>2, BlockBounds
  <2> QED BY <1>1, <1>2, <2>1, <2>2, ReacquireNothingInv
<1> QED BY <1>3, <1>4

-----------------------------------------------------------------------------
\* The states of a queue just created or reset.
Blank ==
  /\ tail = 0 /\ split = 0 /\ nlocal = 0 /\ cur = 0
  /\ completed = NoEpochs /\ stealval = NoSteals /\ opc = "idle"
  /\ \A th \in Thieves : pc[th] = "idle" /\ hand[th] = {}

LEMMA BlankInv == Shape /\ Blank => IInv
<1> SUFFICES ASSUME Shape, Blank PROVE IInv
  OBVIOUS
<1>1. /\ InFlight = {} /\ Last = 1 /\ Advertised = NoSteals /\ SharedSize(tail) = 0
      /\ ~Enabled(NoSteals) /\ MaxSize \in Nat /\ 0 \in 0..MaxBlock /\ 0 \in Epochs
      /\ 1 \in Epochs
  BY DEF Blank, InFlight, Last, Advertised, SharedSize, NoSteals, Enabled, Disable,
         Shape, Epochs
<1>2. MaxSteals(0) = 0 /\ Stolen(0, 0) = 0 /\ \A i \in Nat : Left(0, i) = 0
  <2>1. \A i \in Nat : Left(0, i) \in 0..0
    BY <1>1, ShareFacts
  <2>2. MaxSteals(0) \in Nat
    BY <1>1, StealsFit, IndexFacts
  <2>3. 0 < MaxSteals(0) <=> Left(0, 0) > 0
    BY <1>1, ShareFacts
  <2> QED BY <2>1, <2>2, <2>3 DEF Stolen
<1>3. \A i \in Indices : i \in Nat
  BY DEF Indices
<1>4. \A e \in Epochs :
        /\ completed[e].itasks = 0 /\ completed[e].vtail = 0
        /\ completed[e].maxsteals = 0 /\ \A i \in Indices : completed[e].status[i] = 0
  BY DEF Blank, NoEpochs
<1>5. ~completed[0].done /\ completed[1].done
  <2>1. completed[0].done = (0 = 1) /\ completed[1].done = (1 = 1)
    BY <1>1, Zenon DEF Blank, NoEpochs
  <2>2. 0 # 1
    OBVIOUS
  <2> QED BY <2>1, <2>2, Zenon
<1>6. Claimed = 0
  BY <1>1, <1>2, <1>4 DEF Claimed, Blank
<1>7. \A e \in Epochs : RecordInv(completed[e], 0, 0)
  BY <1>2, <1>3, <1>4 DEF RecordInv
<1>8. CurrentInv
  <2>1. Meets(MaxSize, 0 + 0, 0)
    BY DEF Meets
  <2> QED BY <1>1, <1>2, <1>3, <1>4, <1>6, <1>7, <2>1 DEF CurrentInv, Blank
<1>9. LastInv(0)
  BY <1>1, <1>2, <1>4, <1>5, <1>7 DEF LastInv
<1>10. DistinctInv
  BY <1>1 DEF DistinctInv
<1>11. OwnerInv
  BY <1>1, <1>4 DEF OwnerInv, HeadBehindTail, AdvertisedInv, Blank
<1>12. HandInv
  BY DEF HandInv, Blank
<1> QED BY <1>1, <1>8, <1>9, <1>10, <1>11, <1>12 DEF IInv, RingInv

LEMMA InitInv ==
  ASSUME ReclaimFreq = 1, Init
  PROVE  IInv
<1>1. Shape
  BY InitType, ShapeHolds
<1>2. Blank
  BY DEF Init, Blank, Workers
<1> QED BY <1>1, <1>2, BlankInv

LEMMA ResetInv ==
  ASSUME ReclaimFreq = 1, TypeInv', IInv, Reset
  PROVE  IInv'
<1>1. Shape'
  BY ShapeHolds, PTL
<1>2. Blank'
  BY DEF Reset, Blank, IInv, HandInv
<1>3. (Shape /\ Blank => IInv)'
  BY BlankInv, PTL
<1> QED BY <1>1, <1>2, <1>3

-----------------------------------------------------------------------------
\* An attempt on a block that is advertised counts: asteals does not wrap.
LEMMA FetchAddWord ==
  ASSUME TypeInv, AStealsBounded, NEW th \in Thieves, FetchAdd(th)
  PROVE  /\ stealval'.valid = stealval.valid /\ stealval'.itasks = stealval.itasks
         /\ stealval'.tail = stealval.tail /\ stealval.asteals \in Nat
         /\ Enabled(stealval) => stealval'.asteals = stealval.asteals + 1
<1>1. /\ stealval \in StealValues /\ stealval.asteals \in 0..(AStealsMod-1)
      /\ stealval.itasks \in 0..MaxBlock /\ stealval.asteals \in Nat
      /\ AStealsMod \in Nat \ {0}
  BY WidthAssumption DEF TypeInv, TypeOK, StealValues
<1>2. /\ stealval'.asteals = (stealval.asteals + 1) % AStealsMod
      /\ stealval'.valid = stealval.valid /\ stealval'.itasks = stealval.itasks
      /\ stealval'.tail = stealval.tail
  <2>1. stealval' = [stealval EXCEPT !.asteals = (stealval.asteals + 1) % AStealsMod]
    BY DEF FetchAdd
  <2> QED BY <1>1, <2>1 DEF StealValues
<1>3. ASSUME Enabled(stealval) PROVE stealval.asteals + 1 < AStealsMod
  <2> DEFINE M == MaxSteals(stealval.itasks)
  <2>1. M \in Nat /\ M + Cardinality(Thieves) < AStealsMod
    BY <1>1, StealsFit, IndexFacts, WidthAssumption
  <2>2. Cardinality(Discouraged) + 1 <= Cardinality(Thieves)
        /\ Cardinality(Discouraged) \in Nat /\ Cardinality(Thieves) \in Nat
    <3>1. Discouraged \subseteq Thieves \ {th}
      BY DEF Discouraged, FetchAdd
    <3>2. IsFiniteSet(Thieves \ {th})
          /\ Cardinality(Thieves \ {th}) = Cardinality(Thieves) - 1
      BY WorkersAssumption, FS_RemoveElement
    <3>3. Cardinality(Discouraged) <= Cardinality(Thieves \ {th})
          /\ IsFiniteSet(Discouraged)
      BY <3>1, <3>2, FS_Subset
    <3>4. Cardinality(Discouraged) \in Nat /\ Cardinality(Thieves) \in Nat
      BY <3>3, WorkersAssumption, FS_CardinalityType
    <3> QED BY <3>2, <3>3, <3>4
  <2>3. stealval.asteals <= M + Cardinality(Discouraged)
    BY <1>3 DEF AStealsBounded, Discouraged
  <2> HIDE DEF M
  <2> QED BY <1>1, <2>1, <2>2, <2>3
<1> QED BY <1>1, <1>2, <1>3

\* A claim: the share is the next one of the current block.
LEMMA ClaimShareInv ==
  ASSUME Shape, TypeInv, AStealsBounded, IInv, NEW th \in Thieves, FetchAdd(th),
         Enabled(stealval), ~Exhausted(stealval),
         NEW n, n = completed[cur].itasks
  PROVE  IInv'
<1> DEFINE r == completed[cur]
           a == stealval.asteals
           c == Share(stealval)
<1>1. OwnerInv /\ RingInv /\ HandInv /\ CurrentInv /\ DistinctInv
  BY DEF IInv, RingInv
<1>2. /\ n \in 0..MaxBlock /\ r.vtail \in Slots /\ a \in Nat /\ cur \in Epochs
      /\ Last # cur /\ stealval.itasks \in 0..MaxBlock
  BY FetchAddWord DEF Shape, TypeInv, TypeOK, StealValues
<1>3. MaxSteals(n) \in Nat /\ MaxSteals(stealval.itasks) \in Nat
  BY <1>2, StealsFit, IndexFacts
<1>4. opc # "reacquire" /\ Advertised = stealval
  BY <1>1 DEF OwnerInv, HeadBehindTail, AdvertisedInv, Advertised
<1>5. a < MaxSteals(stealval.itasks) /\ stealval.itasks # 0
  <2>1. a < MaxSteals(stealval.itasks)
    BY <1>2, <1>3 DEF Exhausted
  <2>2. Left(stealval.itasks, a) \in 0..stealval.itasks /\ Left(stealval.itasks, a) > 0
    BY <1>2, <2>1, ShareFacts
  <2> QED BY <2>1, <2>2
<1>6. /\ stealval.valid = cur /\ stealval.itasks = n /\ stealval.tail = r.vtail
      /\ a < MaxSteals(n)
  BY <1>1, <1>4, <1>5 DEF OwnerInv, HeadBehindTail, AdvertisedInv
<1>7. Claimed = a
  BY <1>4, <1>6 DEF Claimed
<1>8. /\ UNCHANGED <<ownerVars, completed, q, hand, target>>
      /\ claim' = [claim EXCEPT ![th] = c] /\ pc' = [pc EXCEPT ![th] = "copy"]
      /\ pc[th] \in {"idle", "test"}
  BY DEF FetchAdd
<1>9. /\ stealval'.valid = cur /\ stealval'.itasks = n /\ stealval'.tail = r.vtail
      /\ stealval'.asteals = a + 1
  BY <1>6, FetchAddWord
<1>10. Advertised' = stealval' /\ Enabled(stealval')
  BY <1>4, <1>8, <1>9, <1>6 DEF Advertised, ownerVars, Enabled
<1>11. Claimed' = a + 1
  <2>1. ~(a + 1 < MaxSteals(n)) => MaxSteals(n) = a + 1
    BY <1>2, <1>3, <1>6
  <2>2. cur' = cur /\ completed'[cur].itasks = n
    BY <1>8 DEF ownerVars
  <2>3. Claimed' = IF a + 1 < MaxSteals(n) THEN a + 1 ELSE MaxSteals(n)
    BY <1>9, <1>10, <2>2 DEF Claimed, Enabled
  <2> QED BY <2>1, <2>3
<1>12. c.epoch = cur /\ c.index = a /\ c.start = r.vtail + Stolen(n, a)
       /\ c.n = Take(Left(n, a))
  BY <1>6 DEF Share
<1> HIDE DEF c
<1>13. /\ InFlight' = InFlight \cup {th} /\ th \notin InFlight
       /\ claim'[th] = c /\ \A other \in InFlight : claim'[other] = claim[other]
  BY <1>8 DEF InFlight, TypeInv, TypeOK
<1>14. RecordInv(r, n, a) /\ r.maxsteals = MaxSteals(n)
  BY <1>1, <1>7 DEF CurrentInv
<1>15. \A i \in Indices : i \in Nat
  BY DEF Indices
<1>16. RecordInv(r, n, a + 1)
  <2> HIDE DEF r, a
  <2> QED BY <1>2, <1>3, <1>6, <1>14, <1>15 DEF RecordInv
<1>17. r.status[a] = 0
  <2>1. a \in Indices
    BY <1>2, <1>6, StealsFit, IndexFacts DEF Indices
  <2> QED BY <1>2, <1>14, <2>1 DEF RecordInv
<1>18. ASSUME NEW t \in InFlight', claim'[t].epoch = cur
       PROVE  ClaimInv(claim'[t], r, n, a + 1)
  <2>1. CASE t = th
    BY <1>2, <1>12, <1>13, <1>17, <2>1 DEF ClaimInv
  <2>2. CASE t # th
    <3>1. ClaimInv(claim[t], r, n, a) /\ claim[t].index \in Nat
      BY <1>1, <1>7, <1>13, <1>15, <1>18, <2>2 DEF CurrentInv, Shape, InFlight
    <3> QED BY <1>2, <1>13, <1>18, <2>2, <3>1 DEF ClaimInv
  <2> QED BY <2>1, <2>2
<1>19. /\ SharedSize(tail)' = SharedSize(tail) /\ Last' = Last
       /\ UNCHANGED <<tail, split, nlocal, cur, completed, opc>>
  BY <1>8 DEF SharedSize, Last, ownerVars
<1>20. CurrentInv'
  BY <1>1, <1>11, <1>14, <1>16, <1>18, <1>19 DEF CurrentInv
<1>21. \E m \in 0..MaxBlock : LastInv(m)'
  <2>1. PICK m \in 0..MaxBlock : LastInv(m)
    BY <1>1 DEF RingInv
  <2>2. \A t \in InFlight' : claim'[t].epoch = Last
                          => t \in InFlight /\ claim'[t] = claim[t]
    BY <1>2, <1>12, <1>13
  <2>3. LastInv(m)'
    BY <1>19, <2>1, <2>2 DEF LastInv
  <2> QED BY <2>3
<1>22. DistinctInv'
  <2>1. ASSUME NEW t \in InFlight
        PROVE  claim[t].epoch # cur \/ (claim[t].index # a /\ a # claim[t].index)
    <3>1. claim[t].epoch = cur => claim[t].index < a
      BY <1>1, <1>7 DEF CurrentInv, ClaimInv
    <3>2. claim[t].index \in Nat
      BY <1>15 DEF Shape, InFlight
    <3> QED BY <1>2, <3>1, <3>2
  <2> QED BY <1>1, <1>12, <1>13, <2>1 DEF DistinctInv
<1>23. OwnerInv'
  BY <1>1, <1>4, <1>9, <1>10, <1>19 DEF OwnerInv, HeadBehindTail, AdvertisedInv
<1>24. HandInv'
  BY <1>1, <1>8, <1>13 DEF HandInv, Reserved, TypeInv, TypeOK
<1> QED BY <1>20, <1>21, <1>22, <1>23, <1>24 DEF IInv, RingInv

\* A vain attempt: nothing but the count of attempts changes.
LEMMA VainFetchInv ==
  ASSUME Shape, TypeInv, AStealsBounded, IInv, NEW th \in Thieves, FetchAdd(th),
         ~(Enabled(stealval) /\ ~Exhausted(stealval))
  PROVE  IInv'
<1>1. OwnerInv /\ RingInv /\ HandInv
  BY DEF IInv
<1>2. /\ UNCHANGED <<ownerVars, completed, q, hand, claim>>
      /\ pc' = [pc EXCEPT ![th] = "idle"] /\ pc[th] \in {"idle", "test"}
  BY DEF FetchAdd
<1>3. /\ UNCHANGED <<tail, split, nlocal, cur, opc, snap>> /\ InFlight' = InFlight
      /\ SharedSize(tail)' = SharedSize(tail)
  BY <1>2 DEF ownerVars, InFlight, TypeInv, TypeOK, SharedSize
<1>4. /\ stealval'.valid = stealval.valid /\ stealval'.itasks = stealval.itasks
      /\ stealval'.tail = stealval.tail /\ stealval.asteals \in Nat
      /\ Enabled(stealval) => stealval'.asteals = stealval.asteals + 1
      /\ stealval.itasks \in 0..MaxBlock
      /\ (Enabled(stealval') <=> Enabled(stealval))
  BY FetchAddWord DEF Enabled, TypeInv, TypeOK, StealValues
<1>5. /\ Advertised'.valid = Advertised.valid /\ Advertised'.itasks = Advertised.itasks
      /\ Advertised'.tail = Advertised.tail
  BY <1>3, <1>4 DEF Advertised
<1>6. Claimed' = Claimed
  <2>1. CASE opc = "reacquire"
    BY <1>2, <1>3, <2>1 DEF Claimed, Advertised, Enabled
  <2>2. CASE opc # "reacquire"
    <3>1. Advertised = stealval /\ Advertised' = stealval'
      BY <1>3, <2>2 DEF Advertised
    <3>2. CASE ~Enabled(stealval)
      BY <1>2, <1>3, <1>4, <3>1, <3>2 DEF Claimed, Enabled
    <3>3. CASE Enabled(stealval)
      <4> DEFINE M == MaxSteals(stealval.itasks)
      <4>1. M \in Nat /\ stealval.asteals >= M
        BY <1>4, <3>3, StealsFit, IndexFacts DEF Exhausted
      <4>2. ~(stealval.asteals < M) /\ ~(stealval'.asteals < M)
        <5> HIDE DEF M
        <5> QED BY <1>4, <3>3, <4>1
      <4> QED BY <1>2, <1>3, <1>4, <3>1, <3>3, <4>2 DEF Claimed, Enabled
    <3> QED BY <3>2, <3>3
  <2> QED BY <2>1, <2>2
<1>7. RingInv'
  BY <1>1, <1>2, <1>3, <1>6, RingFrame
<1>8. OwnerInv'
  BY <1>1, <1>2, <1>3, <1>4, <1>5 DEF OwnerInv, HeadBehindTail, AdvertisedInv, Enabled
<1>9. HandInv'
  BY <1>1, <1>2 DEF HandInv, Reserved, TypeInv, TypeOK
<1> QED BY <1>7, <1>8, <1>9 DEF IInv

\* Looking at the queue and copying a share do not touch the invariant, except
\* that the tasks copied are in the thief's hand.
LEMMA FetchCopyInv ==
  ASSUME TypeInv, IInv, NEW th \in Thieves, Fetch(th) \/ Copy(th)
  PROVE  IInv'
<1>1. OwnerInv /\ RingInv /\ HandInv
  BY DEF IInv
<1>2. UNCHANGED <<ownerVars, completed, stealval, claim>>
  BY DEF Fetch, Copy
<1>3. /\ UNCHANGED <<tail, split, nlocal, cur, opc, snap>>
      /\ Advertised' = Advertised /\ SharedSize(tail)' = SharedSize(tail)
  BY <1>2 DEF ownerVars, Advertised, SharedSize
<1>4. InFlight' = InFlight
  BY DEF Fetch, Copy, InFlight, TypeInv, TypeOK
<1>5. RingInv'
  BY <1>1, <1>2, <1>3, <1>4, RingFrame, ClaimedFrame
<1>6. hand'[Owner] = hand[Owner]
  <2>1. Owner # th /\ Owner \in Workers
    BY WorkersAssumption DEF Workers
  <2> QED BY <2>1 DEF Fetch, Copy, TypeInv, TypeOK
<1>7. OwnerInv'
  BY <1>1, <1>2, <1>3, <1>6 DEF OwnerInv, HeadBehindTail, AdvertisedInv, Enabled
<1>8. HandInv'
  <2>1. CASE Fetch(th)
    BY <1>1, <1>2, <2>1 DEF HandInv, Reserved, Fetch, TypeInv, TypeOK
  <2>2. CASE Copy(th)
    <3>1. /\ pc' = [pc EXCEPT ![th] = "complete"]
          /\ hand' = [hand EXCEPT ![th] = Reserved(th)]
      BY <2>2 DEF Copy, Reserved
    <3>2. \A t \in Thieves : Reserved(t)' = Reserved(t) /\ t \in Workers
      BY <1>2 DEF Reserved, Workers
    <3> QED BY <1>1, <3>1, <3>2 DEF HandInv, TypeInv, TypeOK
  <2> QED BY <2>1, <2>2
<1> QED BY <1>5, <1>7, <1>8 DEF IInv

\* A completion: the entry of the share becomes its volume, and the claim is over.
LEMMA CompleteInv ==
  ASSUME Shape, Shape', TypeInv, IInv, NEW th \in Thieves, Complete(th)
  PROVE  IInv'
<1> DEFINE c == claim[th]
           e == claim[th].epoch
           i == claim[th].index
           v == claim[th].n
<1>1. OwnerInv /\ RingInv /\ HandInv /\ CurrentInv /\ DistinctInv
  BY DEF IInv, RingInv
<1>2. PICK m \in 0..MaxBlock : LastInv(m)
  BY <1>1 DEF RingInv
<1>3. /\ UNCHANGED <<ownerVars, stealval, q, target>>
      /\ completed' = [completed EXCEPT ![e].status[i] = @ + v]
      /\ pc' = [pc EXCEPT ![th] = "idle"]
      /\ claim' = [claim EXCEPT ![th] = NoClaim]
      /\ hand' = [hand EXCEPT ![th] = {}] /\ pc[th] = "complete"
  BY DEF Complete
<1>4. /\ th \in InFlight /\ InFlight' = InFlight \ {th}
      /\ \A t \in InFlight' : t \in InFlight /\ t # th /\ claim'[t] = claim[t]
  BY <1>3 DEF InFlight, TypeInv, TypeOK
<1>5. /\ e \in Epochs /\ i \in Indices /\ v \in Nat /\ i \in Nat
      /\ completed \in [Epochs -> Completions] /\ completed[e] \in Completions
      /\ completed[e].status \in [Indices -> Nat]
  <2>1. e \in Epochs /\ i \in Indices /\ v \in Nat
    <3>1. claim[th].n \in 0..MaxBlock /\ MaxBlock \in Nat
      BY DEF Shape
    <3>2. claim[th].n \in Nat
      BY <3>1
    <3> QED BY <3>2 DEF Shape
  <2>2. completed \in [Epochs -> Completions]
        /\ \A f \in Epochs : completed[f].status \in [Indices -> Nat]
    BY DEF Shape
  <2> HIDE DEF e, i, v
  <2> QED BY <2>1, <2>2 DEF Indices
<1> HIDE DEF e, i, v
<1>6. /\ UNCHANGED <<tail, split, nlocal, cur, opc, snap>>
      /\ Last' = Last /\ SharedSize(tail)' = SharedSize(tail)
      /\ Advertised' = Advertised
  BY <1>3 DEF ownerVars, Last, SharedSize, Advertised
\* What changes of the records.
<1>7. completed'[e] =
         [completed[e] EXCEPT !.status =
            [completed[e].status EXCEPT ![i] = completed[e].status[i] + v]]
  <2> QED BY <1>3, <1>5
<1>8. /\ completed'[e].itasks = completed[e].itasks
      /\ completed'[e].vtail = completed[e].vtail
      /\ completed'[e].maxsteals = completed[e].maxsteals
      /\ completed'[e].done = completed[e].done
      /\ completed'[e].status = [completed[e].status EXCEPT ![i] = @ + v]
  <2> QED BY <1>5, <1>7 DEF Completions
<1>9. \A f \in Epochs : f # e => completed'[f] = completed[f]
  <2> QED BY <1>3, <1>5
<1>10. \A f \in Epochs : /\ completed'[f].itasks = completed[f].itasks
                         /\ completed'[f].vtail = completed[f].vtail
                         /\ completed'[f].maxsteals = completed[f].maxsteals
                         /\ completed'[f].done = completed[f].done
  <2> QED BY <1>8, <1>9
<1>11. \A k \in Indices :
         completed'[e].status[k] = IF k = i THEN completed[e].status[i] + v
                                   ELSE completed[e].status[k]
  <2> QED BY <1>5, <1>8
<1>12. Claimed' = Claimed
  <2>1. completed'[cur].itasks = completed[cur].itasks
    BY <1>10 DEF Shape
  <2> QED BY <1>6, <2>1 DEF Claimed, Enabled
\* The record the share belongs to.
<1>13. \A n, k \in Nat :
         /\ n \in 0..MaxBlock
         /\ RecordInv(completed[e], n, k) /\ ClaimInv(c, completed[e], n, k)
         => /\ RecordInv(completed'[e], n, k)
            /\ completed'[e].status[i] # 0
  <2> SUFFICES ASSUME NEW n \in 0..MaxBlock, NEW k \in Nat,
                      RecordInv(completed[e], n, k), ClaimInv(c, completed[e], n, k)
               PROVE  /\ RecordInv(completed'[e], n, k)
                      /\ completed'[e].status[i] # 0
    OBVIOUS
  <2>1. /\ i < k /\ v = Take(Left(n, i)) /\ completed[e].status[i] = 0
    BY DEF ClaimInv, i, v
  <2>2. MaxSteals(n) \in Nat
    BY StealsFit, IndexFacts
  <2>3. v > 0
    BY <1>5, <2>1, <2>2, ShareFacts DEF RecordInv
  <2>4. completed'[e].status[i] = v
    BY <1>5, <1>11, <2>1
  <2>5. ASSUME NEW x \in Indices, completed'[e].status[x] # 0
        PROVE  x < k /\ completed'[e].status[x] = Take(Left(n, x))
    <3>1. CASE x = i
      BY <2>1, <2>4, <3>1
    <3>2. CASE x # i
      BY <1>11, <2>5, <3>2 DEF RecordInv
    <3> QED BY <3>1, <3>2
  <2>6. ASSUME completed'[e].done, NEW x \in Indices, x < completed'[e].maxsteals
        PROVE  completed'[e].status[x] # 0
    BY <1>5, <1>8, <1>11, <2>3, <2>4, <2>6 DEF RecordInv
  <2> QED BY <1>5, <1>8, <2>3, <2>4, <2>5, <2>6 DEF RecordInv
<1>14. \A f \in Epochs, x \in Indices :
         completed'[f].status[x] = 0 => completed[f].status[x] = 0
  <2>1. v \in Nat /\ completed[e].status[i] \in Nat
    BY <1>5
  <2> QED BY <1>9, <1>11, <2>1
\* The other claims on it hold other entries.
<1>15. ASSUME NEW t \in InFlight', NEW n, NEW k,
              ClaimInv(claim[t], completed[claim[t].epoch], n, k)
       PROVE  ClaimInv(claim'[t], completed'[claim[t].epoch], n, k)
  <2>1. claim[t].epoch \in Epochs /\ claim[t].index \in Indices
    BY <1>4 DEF Shape, InFlight
  <2>2. completed'[claim[t].epoch].status[claim[t].index]
          = completed[claim[t].epoch].status[claim[t].index]
    <3>1. CASE claim[t].epoch = e
      <4>1. claim[t].index # i
        BY <1>1, <1>4, <3>1 DEF DistinctInv, e, i
      <4> QED BY <1>11, <2>1, <3>1, <4>1
    <3>2. CASE claim[t].epoch # e
      BY <1>9, <2>1, <3>2
    <3> QED BY <3>1, <3>2
  <2> QED BY <1>4, <1>10, <1>15, <2>1, <2>2 DEF ClaimInv
<1>16. CurrentInv'
  <2> DEFINE r == completed[cur]
  <2>1. /\ r.maxsteals = MaxSteals(r.itasks) /\ RecordInv(r, r.itasks, Claimed)
        /\ \A t \in InFlight :
             claim[t].epoch = cur => ClaimInv(claim[t], r, r.itasks, Claimed)
        /\ Meets(MaxSize, r.vtail + r.itasks, split)
        /\ \A x \in Indices : r.status[x] = 0 => Left(r.itasks, x) <= SharedSize(tail)
    BY <1>1 DEF CurrentInv
  <2>2. r.itasks \in 0..MaxBlock /\ r.itasks \in Nat /\ Claimed \in Nat /\ cur \in Epochs
    BY BlockBounds DEF Shape
  <2>3. RecordInv(completed'[cur], r.itasks, Claimed)
    <3>1. CASE e = cur
      BY <1>4, <1>13, <2>1, <2>2, <3>1 DEF e
    <3>2. CASE e # cur
      BY <1>9, <2>1, <2>2, <3>2
    <3> QED BY <3>1, <3>2
  <2>4. ASSUME NEW t \in InFlight', claim'[t].epoch = cur
        PROVE  ClaimInv(claim'[t], completed'[cur], r.itasks, Claimed)
    <3>1. t \in InFlight /\ claim[t].epoch = cur
      BY <1>4, <2>4
    <3> QED BY <1>15, <2>1, <3>1
  <2>5. completed'[cur].itasks = r.itasks /\ completed'[cur].vtail = r.vtail
        /\ completed'[cur].maxsteals = r.maxsteals /\ cur' = cur
    BY <1>6, <1>10, <2>2
  <2>6. \A x \in Indices : completed'[cur].status[x] = 0
                             => Left(r.itasks, x) <= SharedSize(tail)
    BY <1>14, <2>1, <2>2
  <2> QED BY <1>6, <1>12, <2>1, <2>3, <2>4, <2>5, <2>6 DEF CurrentInv
<1>17. LastInv(m)'
  <2> DEFINE r == completed[Last]
             n == completed[cur].itasks
  <2>1. /\ r.itasks = Stolen(m, r.maxsteals) /\ RecordInv(r, m, r.maxsteals)
        /\ ~r.done => /\ Meets(MaxSize, r.vtail + r.itasks, completed[cur].vtail)
                      /\ n <= SharedSize(tail)
        /\ \A t \in InFlight : claim[t].epoch = Last =>
             /\ ClaimInv(claim[t], r, m, r.maxsteals)
             /\ n + (r.itasks - Stolen(m, claim[t].index)) <= SharedSize(tail)
    BY <1>2 DEF LastInv
  <2>2. r.maxsteals \in Nat /\ m \in Nat /\ Last \in Epochs /\ cur \in Epochs
    BY BlockBounds, IndexFacts DEF Shape
  <2>3. RecordInv(completed'[Last], m, r.maxsteals)
    <3>1. CASE e = Last
      BY <1>4, <1>13, <2>1, <2>2, <3>1 DEF e
    <3>2. CASE e # Last
      BY <1>9, <2>1, <2>2, <3>2
    <3> QED BY <3>1, <3>2
  <2>4. ASSUME NEW t \in InFlight', claim'[t].epoch = Last
        PROVE  /\ ClaimInv(claim'[t], completed'[Last], m, r.maxsteals)
               /\ n + (r.itasks - Stolen(m, claim'[t].index)) <= SharedSize(tail)
    <3>1. t \in InFlight /\ claim[t].epoch = Last /\ claim'[t] = claim[t]
      BY <1>4, <2>4
    <3> QED BY <1>15, <2>1, <3>1
  <2>5. completed'[Last].itasks = r.itasks /\ completed'[Last].vtail = r.vtail
        /\ completed'[Last].maxsteals = r.maxsteals /\ completed'[Last].done = r.done
        /\ completed'[cur].itasks = n /\ completed'[cur].vtail = completed[cur].vtail
        /\ cur' = cur
    BY <1>6, <1>10, <2>2
  <2> HIDE DEF c
  <2> QED BY <1>6, <2>1, <2>3, <2>4, <2>5 DEF LastInv
<1>18. DistinctInv'
  BY <1>1, <1>4 DEF DistinctInv
<1>19. OwnerInv'
  <2>1. completed'[cur].itasks = completed[cur].itasks
        /\ completed'[cur].vtail = completed[cur].vtail
    BY <1>10 DEF Shape
  <2>2. hand'[Owner] = hand[Owner]
    <3>1. Owner # th /\ Owner \in Workers
      BY WorkersAssumption DEF Workers
    <3> QED BY <1>3, <3>1 DEF TypeInv, TypeOK
  <2> QED BY <1>1, <1>3, <1>6, <2>1, <2>2
             DEF OwnerInv, HeadBehindTail, AdvertisedInv, Enabled
<1>20. HandInv'
  <2>1. ASSUME NEW t \in Thieves, t # th
        PROVE  hand'[t] = IF pc'[t] = "complete" THEN Reserved(t)' ELSE {}
    <3>1. hand'[t] = hand[t] /\ pc'[t] = pc[t] /\ claim'[t] = claim[t]
      BY <1>3, <2>1 DEF TypeInv, TypeOK, Workers
    <3> QED BY <1>1, <3>1 DEF HandInv, Reserved
  <2>2. hand'[th] = {} /\ pc'[th] = "idle"
    BY <1>3 DEF TypeInv, TypeOK, Workers
  <2> QED BY <2>1, <2>2 DEF HandInv
<1> QED BY <1>16, <1>17, <1>18, <1>19, <1>20 DEF IInv, RingInv

\* The invariant is inductive.
LEMMA NextInv ==
  ASSUME ReclaimFreq = 1, TypeInv, TypeInv', AStealsBounded, IInv, [Next]_vars
  PROVE  IInv'
<1>1. Shape /\ Shape'
  BY ShapeHolds, PTL
<1>2. CASE OwnerNext
  BY <1>2, PushInv, PopExecuteInv, ProgressInv, ProgressReclaimInv, ReacquireBeginInv,
     ReacquireFinishInv DEF OwnerNext
<1>3. CASE Reset
  BY <1>3, ResetInv
<1>4. ASSUME NEW th \in Thieves, Steal(th) PROVE IInv'
  <2>1. CASE FetchAdd(th)
    <3>1. CASE Enabled(stealval) /\ ~Exhausted(stealval)
      BY <1>1, <2>1, <3>1, ClaimShareInv
    <3>2. CASE ~(Enabled(stealval) /\ ~Exhausted(stealval))
      BY <1>1, <2>1, <3>2, VainFetchInv
    <3> QED BY <3>1, <3>2
  <2>2. CASE Fetch(th) \/ Copy(th)
    BY <2>2, FetchCopyInv
  <2>3. CASE Complete(th)
    BY <1>1, <2>3, CompleteInv
  <2> QED BY <1>4, <2>1, <2>2, <2>3 DEF Steal
<1>5. CASE UNCHANGED vars
  <2>1. Advertised' = Advertised /\ InFlight' = InFlight
        /\ SharedSize(tail)' = SharedSize(tail)
        /\ UNCHANGED <<tail, split, nlocal, cur, completed, stealval, opc, snap, pc,
                       claim, hand>>
    BY <1>5 DEF vars, ownerVars, thiefVars, Advertised, InFlight, SharedSize
  <2>2. RingInv'
    BY <2>1, RingFrame, ClaimedFrame DEF IInv
  <2> QED BY <2>1, <2>2
             DEF IInv, OwnerInv, HeadBehindTail, AdvertisedInv, HandInv, Reserved, Enabled
<1> QED BY <1>2, <1>3, <1>4, <1>5 DEF Next

LEMMA InvCorrect ==
  ASSUME ReclaimFreq = 1
  PROVE  Spec => [](Shape /\ IInv)
<1>1. Init => IInv
  BY InitInv
<1>2. TypeInv /\ TypeInv' /\ AStealsBounded /\ IInv /\ [Next]_vars => IInv'
  BY NextInv
<1>3. TypeInv => Shape
  BY ShapeHolds
<1>4. Init => AStealsBounded /\ TypeInv
  BY InitType DEF Init, NoSteals, AStealsBounded, Enabled, Disable
<1>5. TypeInv /\ [Next]_vars => TypeInv'
  BY NextType
<1>6. TypeInv /\ TypeInv' /\ AStealsBounded /\ [Next]_vars => AStealsBounded'
  BY NextDamped
<1> QED BY <1>1, <1>2, <1>3, <1>4, <1>5, <1>6, PTL DEF Spec

-----------------------------------------------------------------------------
\* Between the head and the tail there is only free space: pushed tasks never reach
\* the tail, wherever claims and completions have left it.
THEOREM HeadStaysBehindTail ==
  ASSUME ReclaimFreq = 1
  PROVE  Spec => []HeadBehindTail
<1>1. Shape /\ IInv => HeadBehindTail
  BY DEF IInv, OwnerInv
<1> QED BY <1>1, InvCorrect, PTL

\* Local tasks, unclaimed tasks and all the claims in flight, of whatever epochs,
\* are in different slots of the ring.
THEOREM RegionsNeverOverlap ==
  ASSUME ReclaimFreq = 1
  PROVE  Spec => []RegionsDisjoint
<1>1. Shape /\ IInv => RegionsDisjoint
  BY RegionsApart DEF IInv
<1> QED BY <1>1, InvCorrect, PTL

\* The owner never frees a slot of a claim that is not completed.
THEOREM ClaimsStayReserved ==
  ASSUME ReclaimFreq = 1
  PROVE  Spec => []ReservedBehindTail
<1>1. Shape /\ IInv => ReservedBehindTail
  BY ReservedBehind DEF IInv
<1> QED BY <1>1, InvCorrect, PTL

\* A thief reports to the record of the block it claimed from, in an entry that is
\* its own and that the owner has not counted yet.
THEOREM CompletionsUnambiguous ==
  ASSUME ReclaimFreq = 1
  PROVE  Spec => []ClaimsUnambiguous
<1>1. Shape /\ IInv => ClaimsUnambiguous
  BY Unambiguous DEF IInv
<1> QED BY <1>1, InvCorrect, PTL

-----------------------------------------------------------------------------
(***************************************************************************)
(* No task of a SAWS queue is lost or appears from nowhere, and the queue  *)
(* implements the pool of TaskPool.                                        *)
(*                                                                         *)
(* Each step moves a block of slots from one region to another: what is    *)
(* left to prove, now that the regions are known not to overlap, is how    *)
(* blocks of slots are put together.                                       *)
(***************************************************************************)
-----------------------------------------------------------------------------
(***************************************************************************)
(* Blocks.                                                                 *)
(***************************************************************************)
\* The same of the blocks of the queue.
LEMMA BlockRegion == \A s, n : Block(s, n) = Region(MaxSize, s, n)
BY DEF Block, Region

LEMMA BlockAppend ==
  ASSUME NEW s \in Nat, NEW a \in Nat, NEW b \in Nat
  PROVE  Block(s, a + b) = Block(s, a) \cup Block(s + a, b)
<1>1. MaxSize \in Nat \ {0}
  BY SizeAssumption
<1>2. Region(MaxSize, s, a + b) = Region(MaxSize, s, a) \cup Region(MaxSize, s + a, b)
  BY <1>1, RegionAppend
<1> QED BY <1>2, BlockRegion

LEMMA BlockSplit ==
  ASSUME NEW s \in Nat, NEW c \in Nat, NEW a \in 0..c
  PROVE  Block(s, c) = Block(s, a) \cup Block(s + a, c - a)
<1>1. Region(MaxSize, s, c) = Region(MaxSize, s, a) \cup Region(MaxSize, s + a, c - a)
  BY SizeAssumption, RegionSplit
<1> QED BY <1>1, BlockRegion

LEMMA BlocksApart ==
  ASSUME NEW s \in Nat, s < 2 * MaxSize, NEW a \in Nat, NEW b \in Nat, a + b <= MaxSize,
         NEW u, u = s + a
  PROVE  Block(s, a) \cap Block(u, b) = {}
<1>1. Region(MaxSize, s, a) \cap Region(MaxSize, u, b) = {}
  BY SizeAssumption, RegionNextApart
<1> QED BY <1>1, BlockRegion

LEMMA BlockMeets ==
  ASSUME NEW s \in Nat, s < 2 * MaxSize, NEW t \in Slots, Meets(MaxSize, s, t),
         NEW n \in 0..MaxSize
  PROVE  Block(s, n) = Block(t, n)
<1>1. Region(MaxSize, s, n) = Region(MaxSize, t, n)
  BY SizeAssumption, RegionMeets DEF Slots
<1> QED BY <1>1, BlockRegion

LEMMA SmallBlocks ==
  ASSUME NEW s \in Nat
  PROVE  Block(s, 0) = {} /\ Block(s, 1) = {s % MaxSize}
BY SizeAssumption, SmallRegions, BlockRegion

LEMMA NonemptyBlock ==
  ASSUME NEW s \in Nat, NEW n \in Nat \ {0}
  PROVE  s % MaxSize \in Block(s, n)
BY SizeAssumption, NonemptyRegion, BlockRegion

-----------------------------------------------------------------------------
(***************************************************************************)
(* The steps.                                                              *)
(***************************************************************************)
\* What is known before every step.
Sound == Shape /\ TypeInv /\ AStealsBounded /\ IInv /\ NothingLost

\* What is shown of every step.
PoolStep == NothingLost' /\ [Pool!Next]_(Pool!vars)

LEMMA HeldFrame ==
  ASSUME NothingLost, UNCHANGED <<split, nlocal, q>>, Advertised' = Advertised,
         Copying' = Copying, \A th \in Copying : claim'[th] = claim[th]
  PROVE  NothingLost'
<1>1. Local' = Local /\ Unclaimed' = Unclaimed
  BY DEF Local, Unclaimed, NUnclaimed, Enabled
<1>2. \A th \in Copying : Reserved(th)' = Reserved(th)
  BY DEF Reserved
<1> QED BY <1>1, <1>2 DEF NothingLost

\* A step that moves no task and claims none is a stutter of the pool.
LEMMA PoolFrame ==
  ASSUME NothingLost, UNCHANGED <<split, nlocal, q, hand, claim, pc>>,
         Advertised' = Advertised
  PROVE  PoolStep
<1>1. Copying' = Copying
  BY DEF Copying
<1>2. NothingLost'
  BY <1>1, HeldFrame
<1> QED BY <1>2 DEF PoolStep, Pool!vars

\* The steps of the owner that move no task.
LEMMA QuietPool ==
  ASSUME Sound, ProgressReclaim \/ ReacquireBegin
  PROVE  PoolStep
<1>1. UNCHANGED <<split, nlocal, q, hand, claim, pc>>
  BY DEF ProgressReclaim, ReacquireBegin, thiefVars
<1>2. Advertised' = Advertised
  BY DEF ProgressReclaim, ReacquireBegin, Advertised
<1> QED BY <1>1, <1>2, PoolFrame DEF Sound

\* A push puts tasks into slots that held none, or the queue gives up.
LEMMA PushPool ==
  ASSUME Sound, ReclaimFreq = 1, TypeInv', IInv', Push
  PROVE  PoolStep
<1>1. Shape /\ Shape' /\ TypeInv /\ NothingLost
  BY ShapeHolds, PTL DEF Sound
<1>2. PICK n \in Nat \ {0} :
        PushEnsured(n) /\ UNCHANGED <<split, cur, stealval, snap, thiefVars, hand>>
  <2>1. CASE PushHead
    <3>1. ccPush = 0
      BY <1>1 DEF TypeInv, TypeOK
    <3>2. PushEnsured(1) /\ UNCHANGED <<split, cur, stealval, snap, thiefVars, hand>>
      BY <2>1, <3>1 DEF PushHead
    <3> QED BY <3>2
  <2>2. ASSUME NEW n \in 1..MaxPush, PushNHead(n)
        PROVE  PushEnsured(n) /\ UNCHANGED <<split, cur, stealval, snap, thiefVars, hand>>
    BY <2>2 DEF PushNHead
  <2>3. \A n \in 1..MaxPush : n \in Nat \ {0}
    BY SizeAssumption
  <2> QED BY <2>1, <2>2, <2>3 DEF Push
<1>3. /\ opc = "idle" /\ opc' \in {"idle", "aborted"}
      /\ \/ Store(n)
         \/ UNCHANGED <<q, nlocal>>
  BY <1>2 DEF PushEnsured
<1>4. /\ UNCHANGED <<split, claim, pc, hand>> /\ Advertised' = Advertised
      /\ Copying' = Copying /\ InFlight' = InFlight
  BY <1>2, <1>3 DEF thiefVars, Advertised, Copying, InFlight
<1>5. CASE UNCHANGED <<q, nlocal>>
  BY <1>1, <1>4, <1>5, PoolFrame
<1>6. CASE Store(n)
  <2> DEFINE new == Block(split + nlocal, n)
             cp  == UNION {Reserved(th) : th \in Copying}
  <2>1. q' = q \cup new /\ nlocal' = nlocal + n
    BY <1>6 DEF Store
  <2>2. split \in Nat /\ nlocal \in Nat /\ split + nlocal \in Nat
    BY <1>1 DEF Shape, Slots
  <2>3. Local' = Local \cup new
    BY <1>4, <2>1, <2>2, BlockAppend DEF Local
  <2>4. Unclaimed' = Unclaimed
    BY <1>4 DEF Unclaimed, NUnclaimed, Enabled
  <2>5. \A th \in Thieves : Reserved(th)' = Reserved(th)
    BY <1>4 DEF Reserved
  <2>6. q = Local \cup Unclaimed \cup cp
    BY <1>1 DEF NothingLost
  <2>7. UNION {Reserved(th) : th \in Copying}' = cp
    BY <1>4, <2>5 DEF Copying
  <2>8. NothingLost'
    <3> HIDE DEF new, cp
    <3> QED BY <2>1, <2>3, <2>4, <2>6, <2>7 DEF NothingLost
  <2>9. RegionsDisjoint'
    <3>1. Shape /\ OwnerInv /\ RingInv => RegionsDisjoint
      BY RegionsApart
    <3>2. Shape' /\ OwnerInv' /\ RingInv' => RegionsDisjoint'
      BY <3>1, RegionsApart, PTL
    <3> QED BY <1>1, <3>2 DEF IInv
  <2>10. new # {} /\ new \cap Local = {}
    <3>1. nlocal + n <= MaxSize
      BY <2>1, <2>9 DEF RegionsDisjoint
    <3>2. split < 2 * MaxSize
      BY <1>1, SizeAssumption DEF Shape, Slots
    <3>3. new \cap Local = {}
      BY <2>2, <3>1, <3>2, BlocksApart DEF Local
    <3>4. new # {}
      BY <2>2, NonemptyBlock
    <3> QED BY <3>3, <3>4
  <2>11. new \cap Unclaimed = {}
    BY <2>3, <2>4, <2>9 DEF RegionsDisjoint
  <2>12. new \cap cp = {}
    <3>1. \A th \in Copying : th \in InFlight /\ th \in Thieves
      BY DEF Copying, InFlight
    <3>2. \A th \in Copying : Reserved(th)' \cap Local' = {}
      BY <1>4, <2>9, <3>1 DEF RegionsDisjoint
    <3> QED BY <2>3, <2>5, <3>1, <3>2
  <2>13. q' # q
    <3> HIDE DEF new, cp
    <3> QED BY <2>1, <2>6, <2>10, <2>11, <2>12
  <2>14. q' \subseteq Slots
    BY DEF TypeInv, TypeOK
  <2>15. Pool!Put
    BY <1>4, <2>1, <2>13, <2>14 DEF Pool!Put
  <2> QED BY <2>8, <2>15 DEF PoolStep, Pool!Next
<1> QED BY <1>3, <1>5, <1>6

\* A pop moves the newest local task to the hand of the owner.
LEMMA PopPool ==
  ASSUME Sound, PopHead
  PROVE  PoolStep
<1>1. Shape /\ TypeInv /\ NothingLost /\ RegionsDisjoint
  BY RegionsApart DEF Sound, IInv
<1>2. /\ UNCHANGED <<split, claim, pc>> /\ Advertised' = Advertised
      /\ Copying' = Copying /\ nlocal' = nlocal - 1 /\ nlocal > 0
      /\ hand' = [hand EXCEPT ![Owner] = {Head}] /\ hand[Owner] = {}
      /\ q' = q \ {Head}
  BY DEF PopHead, thiefVars, Advertised, Copying
<1>3. /\ split \in Nat /\ nlocal \in Nat /\ nlocal - 1 \in Nat /\ split < 2 * MaxSize
      /\ split + (nlocal - 1) \in Nat /\ (nlocal - 1) + 1 = nlocal
      /\ (split + nlocal) - 1 = split + (nlocal - 1) /\ nlocal <= MaxSize
  BY <1>1, <1>2 DEF Shape, Slots, RegionsDisjoint
<1>4. /\ Local = Local' \cup {Head} /\ Head \notin Local'
  <2>1. Block(split + (nlocal - 1), 1) = {Head}
    BY <1>3, SmallBlocks DEF Head
  <2>2. /\ Block(split, nlocal) = Block(split, nlocal - 1) \cup {Head}
        /\ Block(split, nlocal - 1) \cap {Head} = {}
    <3>1. 1 \in Nat /\ (nlocal - 1) + 1 <= MaxSize /\ nlocal = (nlocal - 1) + 1
      BY <1>3
    <3>2. Block(split, nlocal)
            = Block(split, nlocal - 1) \cup Block(split + (nlocal - 1), 1)
      <4>1. nlocal - 1 \in 0..nlocal /\ nlocal - (nlocal - 1) = 1
        BY <1>3
      <4>2. Block(split, nlocal) = Block(split, nlocal - 1)
              \cup Block(split + (nlocal - 1), nlocal - (nlocal - 1))
        BY <1>3, <4>1, BlockSplit
      <4> QED BY <4>1, <4>2
    <3>3. Block(split, nlocal - 1) \cap Block(split + (nlocal - 1), 1) = {}
      BY <1>3, <3>1, BlocksApart, Zenon
    <3> QED BY <2>1, <3>2, <3>3
  <2>3. Local' = Block(split, nlocal - 1)
    BY <1>2 DEF Local
  <2> QED BY <2>2, <2>3 DEF Local
<1>5. Unclaimed' = Unclaimed /\ \A th \in Copying : Reserved(th)' = Reserved(th)
  BY <1>2 DEF Unclaimed, NUnclaimed, Enabled, Reserved
<1>6. Head \notin Unclaimed /\ \A th \in Copying : Head \notin Reserved(th)
  <2>1. \A th \in Copying : th \in InFlight
    BY DEF Copying, InFlight
  <2> QED BY <1>1, <1>4, <2>1 DEF RegionsDisjoint
<1>7. NothingLost'
  BY <1>1, <1>2, <1>4, <1>5, <1>6 DEF NothingLost
<1>8. Pool!Take(Owner)
  <2>1. hand'[Owner] = {Head}
    BY <1>1, <1>2 DEF TypeInv, TypeOK, Workers
  <2>2. Head \in q
    BY <1>1, <1>4 DEF NothingLost
  <2> QED BY <1>2, <2>1, <2>2 DEF Pool!Take
<1>9. Owner \in Workers
  BY DEF Workers
<1> QED BY <1>7, <1>8, <1>9 DEF PoolStep, Pool!Next

LEMMA ExecutePool ==
  ASSUME Sound, Execute
  PROVE  PoolStep
<1>1. /\ UNCHANGED <<split, nlocal, q, claim, pc>> /\ Advertised' = Advertised
      /\ Copying' = Copying
  BY DEF Execute, ownerVars, thiefVars, Advertised, Copying
<1>2. NothingLost'
  BY <1>1, HeldFrame DEF Sound
<1>3. Pool!Finish(Owner) /\ Owner \in Workers
  BY <1>1 DEF Execute, Pool!Finish, Workers
<1> QED BY <1>2, <1>3 DEF PoolStep, Pool!Next

\* A release turns the first of the local tasks into the unclaimed block.
LEMMA ProgressPool ==
  ASSUME Sound, Progress
  PROVE  PoolStep
<1>1. Shape /\ TypeInv /\ NothingLost /\ RegionsDisjoint /\ OwnerInv /\ RingInv
  BY RegionsApart DEF Sound, IInv
<1>2. /\ UNCHANGED <<tail, q, hand, claim, pc>> /\ opc = "idle" /\ opc' # "reacquire"
      /\ Advertised = stealval /\ Advertised' = stealval' /\ Copying' = Copying
  BY DEF Progress, thiefVars, Advertised, Copying
<1>3. CASE UNCHANGED <<nlocal, split, completed, stealval>>
  BY <1>1, <1>2, <1>3, PoolFrame
<1>4. CASE ~UNCHANGED <<nlocal, split, completed, stealval>>
  <2> DEFINE n == Released(nlocal)
  <2>1. /\ nlocal > 0 /\ SharedSize(tail) = 0
        /\ nlocal' = nlocal - n /\ split' = (split + n) % MaxSize
        /\ stealval' = [asteals |-> 0, valid |-> cur, itasks |-> n, tail |-> tail]
    BY <1>4 DEF Progress, Release
  <2>2. InFlight = {} /\ tail = split /\ Copying = {}
    BY <1>1, <2>1, NoneInFlight DEF Copying, InFlight
  <2>3. Unclaimed = {}
    <3>1. RegionFacts
      BY <1>1, RegionsHold
    <3>2. NUnclaimed = 0
      BY <2>1, <3>1 DEF RegionFacts
    <3>3. 0..(0-1) = {}
      OBVIOUS
    <3> QED BY <3>2, <3>3 DEF Unclaimed, Block
  <2>4. /\ nlocal \in 0..MaxLocal /\ split \in Slots /\ n \in 0..MaxBlock /\ n <= nlocal
        /\ n \in Nat /\ n <= MaxSize /\ nlocal <= MaxSize /\ nlocal \in Nat
        /\ MaxSize \in Nat \ {0}
    BY <1>1, BlockBounds, SizeAssumption DEF TypeInv, TypeOK, RegionsDisjoint
  <2>5. /\ split \in Nat /\ split + n \in Nat /\ split + n < 2 * MaxSize
        /\ split + n < 3 * MaxSize /\ nlocal - n \in 0..MaxSize /\ nlocal - n \in Nat
        /\ n + (nlocal - n) = nlocal
    <3> HIDE DEF n
    <3> QED BY <2>4 DEF Slots
  <2>6. Local = Block(split, n) \cup Block(split + n, nlocal - n)
    <3>1. nlocal \in Nat /\ n \in 0..nlocal
      BY <2>4, <2>5
    <3> HIDE DEF n
    <3> QED BY <2>5, <3>1, BlockSplit DEF Local
  <2>7. Local' = Block(split + n, nlocal - n)
    <3>1. split' \in Slots /\ Meets(MaxSize, split + n, split')
      BY <2>1, <2>4, <2>5, ModCases DEF Slots
    <3> QED BY <2>1, <2>5, <3>1, BlockMeets DEF Local
  <2>8. Unclaimed' = Block(split, n)
    <3>1. cur \in Epochs
      BY <1>1 DEF Shape
    <3>2. Enabled(stealval')
      BY <2>1, <3>1 DEF Enabled, Disable, Epochs
    <3>3. Left(n, 0) = n /\ Stolen(n, 0) = 0
      BY <2>4, ShareFacts DEF Stolen
    <3>4. NUnclaimed' = n
      BY <1>2, <2>1, <3>2, <3>3 DEF NUnclaimed, Enabled
    <3>5. split + 0 = split
      BY <2>5
    <3> QED BY <1>2, <2>1, <2>2, <3>3, <3>4, <3>5 DEF Unclaimed
  <2>9. NothingLost'
    BY <1>1, <1>2, <2>2, <2>3, <2>6, <2>7, <2>8 DEF NothingLost
  <2> QED BY <1>2, <2>9 DEF PoolStep, Pool!vars
<1> QED BY <1>3, <1>4

-----------------------------------------------------------------------------
\* A claim moves the share from the unclaimed tasks to the thief's reservation;
\* a vain attempt moves nothing.
LEMMA FetchAddPool ==
  ASSUME Sound, NEW th \in Thieves, FetchAdd(th)
  PROVE  PoolStep
<1>1. Shape /\ TypeInv /\ NothingLost /\ OwnerInv /\ AStealsBounded
  BY DEF Sound, IInv
<1>2. /\ UNCHANGED <<ownerVars, q, hand>> /\ pc[th] \in {"idle", "test"}
      /\ stealval'.valid = stealval.valid /\ stealval'.itasks = stealval.itasks
      /\ stealval'.tail = stealval.tail /\ stealval.asteals \in Nat
      /\ Enabled(stealval) => stealval'.asteals = stealval.asteals + 1
      /\ stealval.itasks \in 0..MaxBlock /\ stealval.tail \in Slots
  BY <1>1, FetchAddWord DEF FetchAdd, TypeInv, TypeOK, StealValues
<1>3. UNCHANGED <<split, nlocal, opc, snap>> /\ Local' = Local
  BY <1>2 DEF ownerVars, Local
<1> DEFINE n == stealval.itasks
           a == stealval.asteals
<1>4. n \in 0..MaxBlock /\ a \in Nat /\ MaxSteals(n) \in Nat
  BY <1>2, StealsFit, IndexFacts
<1>5. CASE Enabled(stealval) /\ ~Exhausted(stealval)
  <2>1. Advertised = stealval /\ Advertised' = stealval'
    BY <1>1, <1>3, <1>5 DEF Advertised, OwnerInv, AdvertisedInv
  <2>2. /\ claim' = [claim EXCEPT ![th] = Share(stealval)]
        /\ pc' = [pc EXCEPT ![th] = "copy"]
    BY <1>5 DEF FetchAdd
  <2>3. /\ Copying' = Copying \cup {th} /\ th \notin Copying
        /\ claim'[th] = Share(stealval)
        /\ \A t \in Copying : claim'[t] = claim[t]
    BY <1>1, <1>2, <2>2 DEF Copying, TypeInv, TypeOK
  <2>4. /\ Stolen(n, a) \in Nat /\ Left(n, a + 1) \in Nat /\ Take(Left(n, a)) \in Nat
        /\ Left(n, a) = Take(Left(n, a)) + Left(n, a + 1)
        /\ Stolen(n, a + 1) = Stolen(n, a) + Take(Left(n, a))
    <3>1. /\ Left(n, a) \in 0..n /\ Left(n, a + 1) \in 0..n
          /\ Stolen(n, a) = n - Left(n, a) /\ Take(Left(n, a)) \in 0..Left(n, a)
          /\ Left(n, a + 1) = Left(n, a) - Take(Left(n, a))
      BY <1>4, ShareFacts
    <3>2. Stolen(n, a + 1) = n - Left(n, a + 1) /\ n \in Nat
      BY <1>4, BlockBounds DEF Stolen
    <3> HIDE DEF n, a
    <3> QED BY <3>1, <3>2
  <2>5. Unclaimed = Block(stealval.tail + Stolen(n, a), Left(n, a))
    BY <1>5, <2>1 DEF Unclaimed, NUnclaimed
  <2>6. Unclaimed' = Block(stealval.tail + Stolen(n, a + 1), Left(n, a + 1))
    BY <1>2, <1>5, <2>1 DEF Unclaimed, NUnclaimed, Enabled
  <2>7. Reserved(th)' = Block(stealval.tail + Stolen(n, a), Take(Left(n, a)))
    BY <2>3 DEF Reserved, Share
  <2>8. Unclaimed = Reserved(th)' \cup Unclaimed'
    <3> DEFINE s == stealval.tail + Stolen(n, a)
    <3>1. s \in Nat /\ s + Take(Left(n, a)) = stealval.tail + Stolen(n, a + 1)
      <4>1. stealval.tail \in Nat
        BY <1>2, SizeAssumption DEF Slots
      <4> HIDE DEF n, a
      <4> QED BY <2>4, <4>1
    <3> HIDE DEF s, n, a
    <3>2. Left(n, a) \in Nat /\ Take(Left(n, a)) \in 0..Left(n, a)
          /\ Left(n, a) - Take(Left(n, a)) = Left(n, a + 1)
      BY <2>4
    <3>3. Block(s, Left(n, a)) = Block(s, Take(Left(n, a)))
            \cup Block(s + Take(Left(n, a)), Left(n, a) - Take(Left(n, a)))
      BY <3>1, <3>2, BlockSplit
    <3> QED BY <2>4, <2>5, <2>6, <2>7, <3>1, <3>2, <3>3 DEF s
  <2>9. \A t \in Copying : Reserved(t)' = Reserved(t)
    BY <2>3 DEF Reserved
  <2>10. NothingLost'
    BY <1>1, <1>2, <1>3, <2>3, <2>8, <2>9 DEF NothingLost
  <2> QED BY <1>2, <2>10 DEF PoolStep, Pool!vars
<1>6. CASE ~(Enabled(stealval) /\ ~Exhausted(stealval))
  <2>1. /\ claim' = claim /\ Copying' = Copying
    BY <1>1, <1>2, <1>6 DEF FetchAdd, Copying, TypeInv, TypeOK
  <2>2. CASE opc = "reacquire"
    <3>1. Advertised' = Advertised
      BY <1>3, <2>2 DEF Advertised
    <3>2. NothingLost'
      BY <1>1, <1>2, <1>3, <2>1, <3>1, HeldFrame
    <3> QED BY <1>2, <3>2 DEF PoolStep, Pool!vars
  <2>3. CASE opc # "reacquire"
    <3>1. Advertised = stealval /\ Advertised' = stealval'
      BY <1>3, <2>3 DEF Advertised
    <3>2. NUnclaimed = 0 /\ NUnclaimed' = 0
      <4>1. CASE ~Enabled(stealval)
        BY <1>2, <3>1, <4>1 DEF NUnclaimed, Enabled
      <4>2. CASE Enabled(stealval)
        <5>1. a >= MaxSteals(n) /\ a + 1 \in Nat
          BY <1>4, <1>6, <4>2 DEF Exhausted
        <5>2. \A k \in Nat : k >= MaxSteals(n) => Left(n, k) = 0
          <6> SUFFICES ASSUME NEW k \in Nat, k >= MaxSteals(n) PROVE Left(n, k) = 0
            OBVIOUS
          <6>1. Left(n, k) \in 0..n /\ (k < MaxSteals(n) <=> Left(n, k) > 0)
            BY <1>4, ShareFacts
          <6> HIDE DEF n
          <6> QED BY <1>4, <6>1
        <5>3. a + 1 >= MaxSteals(n)
          BY <1>4, <5>1
        <5>4. Left(n, a) = 0 /\ Left(n, a + 1) = 0
          BY <1>4, <5>1, <5>2, <5>3
        <5> QED BY <1>2, <3>1, <4>2, <5>4 DEF NUnclaimed, Enabled
      <4> QED BY <4>1, <4>2
    <3>3. Unclaimed = {} /\ Unclaimed' = {}
      <4>1. 0..(0-1) = {}
        OBVIOUS
      <4> QED BY <3>2, <4>1 DEF Unclaimed, Block
    <3>4. \A t \in Copying : Reserved(t)' = Reserved(t)
      BY <2>1 DEF Reserved
    <3>5. NothingLost'
      BY <1>1, <1>2, <1>3, <2>1, <3>3, <3>4 DEF NothingLost
    <3> QED BY <1>2, <3>5 DEF PoolStep, Pool!vars
  <2> QED BY <2>2, <2>3
<1> QED BY <1>5, <1>6

LEMMA FetchPool ==
  ASSUME Sound, NEW th \in Thieves, Fetch(th)
  PROVE  PoolStep
<1>1. /\ UNCHANGED <<split, nlocal, q, hand, claim>> /\ Advertised' = Advertised
      /\ Copying' = Copying
  BY DEF Sound, Fetch, ownerVars, Advertised, Copying, TypeInv, TypeOK
<1>2. NothingLost'
  BY <1>1, HeldFrame DEF Sound
<1> QED BY <1>1, <1>2 DEF PoolStep, Pool!vars

\* The copy takes the share, which is nobody else's.
LEMMA CopyPool ==
  ASSUME Sound, NEW th \in Thieves, Copy(th)
  PROVE  PoolStep
<1>1. Shape /\ TypeInv /\ NothingLost /\ RegionsDisjoint /\ RegionFacts /\ HandInv
  BY RegionsApart, RegionsHold DEF Sound, IInv
<1>2. /\ UNCHANGED <<split, nlocal, claim>> /\ Advertised' = Advertised
      /\ q' = q \ Reserved(th) /\ hand' = [hand EXCEPT ![th] = Reserved(th)]
      /\ pc[th] = "copy" /\ pc' = [pc EXCEPT ![th] = "complete"]
  BY DEF Copy, ownerVars, Advertised, Reserved
<1>3. /\ Copying' = Copying \ {th} /\ th \in Copying
      /\ th \in InFlight /\ Copying \subseteq InFlight
  BY <1>1, <1>2 DEF Copying, InFlight, TypeInv, TypeOK
<1>4. /\ Local' = Local /\ Unclaimed' = Unclaimed
      /\ \A t \in Thieves : Reserved(t)' = Reserved(t)
  BY <1>2 DEF Local, Unclaimed, NUnclaimed, Enabled, Reserved
<1>5. /\ Reserved(th) \cap (Local \cup Unclaimed) = {}
      /\ \A t \in Copying \ {th} : Reserved(t) \cap Reserved(th) = {}
  BY <1>1, <1>3 DEF RegionsDisjoint
<1>6. NothingLost'
  <2>1. q = Local \cup Unclaimed \cup UNION {Reserved(t) : t \in Copying}
    BY <1>1 DEF NothingLost
  <2>2. \A t \in Copying : t \in Thieves
    BY DEF Copying
  <2>3. q' = Local \cup Unclaimed \cup UNION {Reserved(t) : t \in Copying \ {th}}
    BY <1>2, <1>3, <1>5, <2>1
  <2>4. UNION {Reserved(t) : t \in Copying}' = UNION {Reserved(t) : t \in Copying \ {th}}
    BY <1>3, <1>4, <2>2
  <2> QED BY <1>4, <2>3, <2>4 DEF NothingLost
<1>7. Pool!Take(th)
  <2>1. hand'[th] = Reserved(th) /\ hand[th] = {}
    BY <1>1, <1>2 DEF HandInv, TypeInv, TypeOK, Workers
  <2>2. Reserved(th) # {}
    <3>1. claim[th].n \in Nat \ {0} /\ claim[th].start \in Nat
      BY <1>1, <1>3 DEF RegionFacts, Shape
    <3> QED BY <3>1, NonemptyBlock DEF Reserved
  <2>3. Reserved(th) \subseteq q
    BY <1>1, <1>3 DEF NothingLost
  <2> QED BY <1>2, <2>1, <2>2, <2>3 DEF Pool!Take
<1>8. th \in Workers
  BY DEF Workers
<1> QED BY <1>6, <1>7, <1>8 DEF PoolStep, Pool!Next

\* The completion ends what the thief has in hand.
LEMMA CompletePool ==
  ASSUME Sound, NEW th \in Thieves, Complete(th)
  PROVE  PoolStep
<1>1. Shape /\ TypeInv /\ NothingLost /\ RegionFacts /\ HandInv
  BY RegionsHold DEF Sound, IInv
<1>2. /\ UNCHANGED <<split, nlocal, q>> /\ Advertised' = Advertised
      /\ hand' = [hand EXCEPT ![th] = {}] /\ pc[th] = "complete"
      /\ pc' = [pc EXCEPT ![th] = "idle"] /\ claim' = [claim EXCEPT ![th] = NoClaim]
  BY DEF Complete, ownerVars, Advertised
<1>3. /\ Copying' = Copying /\ \A t \in Copying : claim'[t] = claim[t]
      /\ th \in InFlight
  BY <1>1, <1>2 DEF Copying, InFlight, TypeInv, TypeOK
<1>4. NothingLost'
  BY <1>1, <1>2, <1>3, HeldFrame
<1>5. hand[th] # {}
  <2>1. claim[th].n \in Nat \ {0} /\ claim[th].start \in Nat
    BY <1>1, <1>3 DEF RegionFacts, Shape
  <2> QED BY <1>1, <1>2, <2>1, NonemptyBlock DEF Reserved, HandInv
<1>6. Pool!Finish(th) /\ th \in Workers
  BY <1>2, <1>5 DEF Pool!Finish, Workers
<1> QED BY <1>4, <1>6 DEF PoolStep, Pool!Next

-----------------------------------------------------------------------------
\* A reacquire that finds nothing to take back.
LEMMA ReacquireNothingPool ==
  ASSUME Sound, opc = "reacquire", opc' = "idle", UNCHANGED <<pc, claim>>,
         Left(snap.itasks, snap.asteals) = 0, ReacquireNothing
  PROVE  PoolStep
<1>1. Shape /\ TypeInv /\ NothingLost /\ Enabled(snap)
  BY DEF Sound, IInv, OwnerInv, AdvertisedInv
<1>2. /\ Advertised = snap /\ Advertised' = stealval'
      /\ stealval'.itasks = 0 /\ stealval'.asteals = 0
      /\ UNCHANGED <<split, nlocal, q, hand>> /\ Copying' = Copying
  BY DEF Advertised, ReacquireNothing, Copying
<1>3. Left(0, 0) = 0
  <2>1. 0 \in 0..MaxBlock
    BY <1>1 DEF Shape
  <2> QED BY <2>1, ShareFacts
<1>4. NUnclaimed = 0 /\ NUnclaimed' = 0
  BY <1>1, <1>2, <1>3 DEF NUnclaimed, Enabled
<1>5. Unclaimed = {} /\ Unclaimed' = {}
  <2>1. 0..(0-1) = {}
    OBVIOUS
  <2> QED BY <1>4, <2>1 DEF Unclaimed, Block
<1>6. Local' = Local /\ \A th \in Copying : Reserved(th)' = Reserved(th)
  BY <1>2 DEF Local, Reserved
<1>7. NothingLost'
  BY <1>1, <1>2, <1>5, <1>6 DEF NothingLost
<1> QED BY <1>2, <1>7 DEF PoolStep, Pool!vars

\* A reacquire that takes back the end of the unclaimed part: it becomes local, but
\* for its last task, which the owner pops.
LEMMA ReacquireSomePool ==
  ASSUME Sound, Shape', IInv', opc = "reacquire", opc' = "idle", UNCHANGED <<pc, claim>>,
         NEW left, left = Left(snap.itasks, snap.asteals),
         NEW amount, amount = Reacquired(left), amount > 0, ReacquireSome(left)
  PROVE  PoolStep
<1> DEFINE r      == completed[cur]
           stolen == snap.itasks - left
           n2     == left - amount
           vtail2 == (r.vtail + stolen) % MaxSize
           head   == (split' + amount - 1) % MaxSize
           cp     == UNION {Reserved(th) : th \in Copying}
<1>1. /\ Shape /\ TypeInv /\ NothingLost /\ RegionsDisjoint /\ Enabled(snap)
      /\ OwnerInv /\ nlocal = 0 /\ hand[Owner] = {}
  BY RegionsApart DEF Sound, IInv, OwnerInv, AdvertisedInv
<1>2. /\ snap.itasks \in 0..MaxBlock /\ snap.asteals \in Nat /\ snap.tail \in Slots
      /\ snap.itasks \in Nat /\ snap.itasks < MaxSize
  BY <1>1, WidthAssumption DEF TypeInv, TypeOK, StealValues, Shape
<1>3. /\ left \in Nat /\ left <= snap.itasks /\ amount \in Nat /\ amount <= left
      /\ left > 0 /\ stolen = Stolen(snap.itasks, snap.asteals)
  <2>1. left \in 0..snap.itasks /\ amount \in 0..left
    BY <1>2, SharesType
  <2>2. stolen = Stolen(snap.itasks, snap.asteals)
    BY DEF Stolen
  <2> QED BY <1>2, <2>1, <2>2
<1>4. snap.tail = r.vtail /\ r.vtail \in Slots
  <2>1. CurrentInv /\ RingInv
    BY DEF Sound, IInv, RingInv
  <2>2. Left(snap.itasks, snap.asteals) > 0
    BY <1>3
  <2>3. snap.tail = r.vtail
    BY <1>1, <2>1, <2>2, ReacquiredBlock
  <2> QED BY <1>1, <2>3 DEF Shape
<1>5. /\ nlocal' = amount - 1 /\ q' = q \ {head}
      /\ hand' = [hand EXCEPT ![Owner] = {head}]
      /\ stealval' = [asteals |-> 0, valid |-> Last, itasks |-> Epoch(n2, vtail2).itasks,
                      tail |-> Epoch(n2, vtail2).vtail]
      /\ completed' = [completed EXCEPT ![cur].itasks = stolen,
                                        ![cur].maxsteals = snap.asteals,
                                        ![Last] = Epoch(n2, vtail2)]
      /\ cur' = Last
  BY DEF ReacquireSome
<1>6. /\ n2 \in Nat /\ n2 <= MaxSize /\ n2 + amount = left /\ left <= MaxSize
      /\ stolen \in Nat /\ MaxSize \in Nat \ {0}
      /\ split' \in Slots /\ split' \in Nat
      /\ n2 \in 0..MaxBlock
  BY <1>1, <1>2, <1>3, SizeAssumption DEF Shape, Slots
<1>7. vtail2 \in Slots /\ r.vtail + stolen \in Nat /\ r.vtail + stolen < 2 * MaxSize
      /\ Meets(MaxSize, r.vtail + stolen, vtail2) /\ vtail2 \in Nat
  <2>1. /\ r.vtail + stolen \in Nat /\ r.vtail + stolen < 2 * MaxSize
        /\ r.vtail + stolen < 3 * MaxSize
    BY <1>2, <1>3, <1>4, <1>6 DEF Slots
  <2> QED BY <1>6, <2>1, ModCases DEF Slots
<1> HIDE DEF n2, vtail2, head, stolen
<1>8. /\ completed'[cur'].itasks = n2 /\ completed'[cur'].vtail = vtail2
      /\ stealval'.itasks = n2 /\ stealval'.tail = vtail2 /\ stealval'.asteals = 0
      /\ stealval'.valid = cur'
  <2>1. Epoch(n2, vtail2).itasks = n2 /\ Epoch(n2, vtail2).vtail = vtail2
    BY DEF Epoch
  <2>2. completed \in [Epochs -> Completions] /\ Last \in Epochs
    BY <1>1 DEF Shape
  <2> QED BY <1>5, <2>1, <2>2
\* The unclaimed block before the step.
<1>9. Local = {} /\ Unclaimed = Block(vtail2, left)
  <2>1. Local = {}
    BY <1>1, SmallBlocks DEF Local, Shape, Slots
  <2>2. Unclaimed = Block(r.vtail + stolen, left)
    BY <1>1, <1>3, <1>4 DEF Unclaimed, NUnclaimed, Advertised
  <2>3. Block(r.vtail + stolen, left) = Block(vtail2, left)
    <3>1. left \in 0..MaxSize
      BY <1>3, <1>6
    <3> QED BY <1>7, <3>1, BlockMeets
  <2> QED BY <2>1, <2>2, <2>3
\* Its parts after it.
<1>10. /\ Block(vtail2, left) = Block(vtail2, n2) \cup Block(vtail2 + n2, amount)
       /\ Block(vtail2, n2) \cap Block(vtail2 + n2, amount) = {}
  <2>1. Block(vtail2, left) = Block(vtail2, n2) \cup Block(vtail2 + n2, amount)
    <3>1. left \in Nat /\ n2 \in 0..left /\ left - n2 = amount
      BY <1>3, <1>6
    <3>2. Block(vtail2, left) = Block(vtail2, n2) \cup Block(vtail2 + n2, left - n2)
      BY <1>7, <3>1, BlockSplit
    <3> QED BY <3>1, <3>2
  <2>2. vtail2 < 2 * MaxSize
    BY <1>6, <1>7 DEF Slots
  <2>3. Block(vtail2, n2) \cap Block(vtail2 + n2, amount) = {}
    BY <1>3, <1>6, <1>7, <2>2, BlocksApart
  <2> QED BY <1>6, <2>1, <2>3
<1>11. Block(vtail2 + n2, amount) = Block(split', amount)
  <2>1. Meets(MaxSize, vtail2 + n2, split')
    BY <1>8 DEF IInv, RingInv, CurrentInv
  <2>2. vtail2 + n2 \in Nat /\ vtail2 + n2 < 2 * MaxSize /\ amount \in 0..MaxSize
    BY <1>3, <1>6, <1>7 DEF Slots
  <2> QED BY <1>6, <2>1, <2>2, BlockMeets
<1>12. /\ Block(split', amount) = Local' \cup {head}
       /\ Local' \cap {head} = {}
  <2> DEFINE k == amount - 1
  <2>1. /\ k \in Nat /\ k \in 0..amount /\ amount - k = 1 /\ k + 1 <= MaxSize
        /\ split' + k \in Nat /\ (split' + amount) - 1 = split' + k
        /\ split' < 2 * MaxSize
    BY <1>3, <1>6 DEF Slots
  <2>2. Local' = Block(split', k)
    BY <1>5 DEF Local
  <2>3. Block(split' + k, 1) = {head}
    BY <2>1, SmallBlocks DEF head
  <2> HIDE DEF k
  <2>4. Block(split', amount) = Block(split', k) \cup Block(split' + k, amount - k)
    BY <1>3, <1>6, <2>1, BlockSplit
  <2>5. Block(split', k) \cap Block(split' + k, 1) = {}
    BY <1>6, <2>1, BlocksApart
  <2> QED BY <2>1, <2>2, <2>3, <2>4, <2>5
<1>13. Unclaimed' = Block(vtail2, n2)
  <2>1. Advertised' = stealval' /\ Enabled(stealval')
    <3>1. Last \in Epochs
      BY <1>1 DEF Shape
    <3> QED BY <1>5, <1>8, <3>1 DEF Advertised, Enabled, Disable, Epochs
  <2>2. Left(n2, 0) = n2 /\ Stolen(n2, 0) = 0
    BY <1>6, ShareFacts DEF Stolen
  <2>3. NUnclaimed' = n2
    BY <1>8, <2>1, <2>2 DEF NUnclaimed, Enabled
  <2>4. vtail2 + 0 = vtail2
    BY <1>7
  <2> QED BY <1>8, <2>1, <2>2, <2>3, <2>4 DEF Unclaimed
<1>14. /\ Copying' = Copying /\ \A th \in Copying : Reserved(th)' = Reserved(th)
       /\ \A th \in Copying : Reserved(th) \cap Unclaimed = {}
  <2>1. \A th \in Copying : th \in InFlight
    BY DEF Copying, InFlight
  <2> QED BY <1>1, <2>1 DEF Copying, Reserved, RegionsDisjoint
<1>15. Unclaimed = Unclaimed' \cup Local' \cup {head}
       /\ head \notin Unclaimed' \cup Local'
  BY <1>9, <1>10, <1>11, <1>12, <1>13
<1>16. NothingLost'
  <2>1. q = Unclaimed \cup cp
    BY <1>1, <1>9 DEF NothingLost
  <2>2. head \notin cp
    BY <1>14, <1>15
  <2>3. UNION {Reserved(th) : th \in Copying}' = cp
    BY <1>14
  <2>4. q' = Local' \cup Unclaimed' \cup cp
    <3> HIDE DEF cp
    <3> QED BY <1>5, <1>15, <2>1, <2>2
  <2> HIDE DEF cp
  <2> QED BY <2>3, <2>4 DEF NothingLost
<1>17. Pool!Take(Owner)
  <2>1. hand'[Owner] = {head}
    BY <1>1, <1>5 DEF TypeInv, TypeOK, Workers
  <2>2. head \in q
    BY <1>1, <1>15 DEF NothingLost
  <2> QED BY <1>1, <1>5, <2>1, <2>2 DEF Pool!Take
<1>18. Owner \in Workers
  BY DEF Workers
<1> QED BY <1>16, <1>17, <1>18 DEF PoolStep, Pool!Next

LEMMA ReacquireFinishPool ==
  ASSUME Sound, ReclaimFreq = 1, TypeInv', IInv', ReacquireFinish
  PROVE  PoolStep
<1> DEFINE left == Left(snap.itasks, snap.asteals)
<1>1. Shape /\ Shape'
  BY ShapeHolds, PTL DEF Sound
<1>2. opc = "reacquire" /\ opc' = "idle" /\ UNCHANGED <<pc, claim>>
  BY DEF ReacquireFinish, thiefVars
<1>3. CASE Reacquired(left) > 0
  <2>1. ReacquireSome(left)
    BY <1>3 DEF ReacquireFinish
  <2> QED BY <1>1, <1>2, <1>3, <2>1, ReacquireSomePool
<1>4. CASE ~(Reacquired(left) > 0)
  <2>1. ReacquireNothing
    BY <1>4 DEF ReacquireFinish
  <2>2. left = 0
    <3>1. snap.itasks \in 0..MaxBlock /\ snap.asteals \in Nat
      BY WidthAssumption DEF TypeInv, TypeOK, StealValues, Sound
    <3>2. /\ left \in 0..snap.itasks
          /\ Reacquired(left) > 0 <=> left > 0
      BY <3>1, SharesType
    <3> QED BY <1>4, <3>1, <3>2, BlockBounds
  <2> QED BY <1>2, <2>1, <2>2, ReacquireNothingPool
<1> QED BY <1>3, <1>4

-----------------------------------------------------------------------------
\* The blank queue holds nothing.
LEMMA BlankHolds == Blank /\ q = {} => NothingLost
<1> SUFFICES ASSUME Blank, q = {} PROVE NothingLost
  OBVIOUS
<1>1. 0..(0-1) = {}
  OBVIOUS
<1>2. Local = {} /\ Copying = {}
  BY <1>1 DEF Blank, Local, Block, Copying
<1>3. NUnclaimed = 0
  BY DEF Blank, NUnclaimed, Advertised, NoSteals, Enabled, Disable
<1>4. Unclaimed = {}
  BY <1>1, <1>3 DEF Unclaimed, Block
<1> QED BY <1>2, <1>4 DEF NothingLost

\* A reset happens only when no worker has a task in hand.
LEMMA ResetPool ==
  ASSUME Sound, Reset
  PROVE  PoolStep
<1>1. HandInv /\ TypeInv
  BY DEF Sound, IInv
<1>2. Blank' /\ q' = {}
  BY <1>1 DEF Reset, Blank, HandInv
<1>3. NothingLost'
  <2>1. (Blank /\ q = {} => NothingLost)'
    BY BlankHolds, PTL
  <2> QED BY <1>2, <2>1
<1>4. \A w \in Workers : hand[w] = {}
  BY <1>1 DEF Reset, HandInv, Workers
<1>5. hand = Pool!Nothing
  BY <1>1, <1>4 DEF TypeInv, TypeOK, Pool!Nothing
<1>6. Pool!Clear
  BY <1>2, <1>5 DEF Pool!Clear, Reset
<1> QED BY <1>3, <1>6 DEF PoolStep, Pool!Next

LEMMA NextPool ==
  ASSUME Sound, ReclaimFreq = 1, TypeInv', IInv', [Next]_vars
  PROVE  PoolStep
<1>1. CASE OwnerNext
  BY <1>1, PushPool, PopPool, ExecutePool, ProgressPool, QuietPool, ReacquireFinishPool
     DEF OwnerNext
<1>2. CASE Reset
  BY <1>2, ResetPool
<1>3. ASSUME NEW th \in Thieves, Steal(th) PROVE PoolStep
  BY <1>3, FetchAddPool, FetchPool, CopyPool, CompletePool DEF Steal
<1>4. CASE UNCHANGED vars
  <2>1. UNCHANGED <<split, nlocal, q, hand, claim, pc>> /\ Advertised' = Advertised
    BY <1>4 DEF vars, ownerVars, thiefVars, Advertised
  <2> QED BY <2>1, PoolFrame DEF Sound
<1> QED BY <1>1, <1>2, <1>3, <1>4 DEF Next

LEMMA SoundCorrect ==
  ASSUME ReclaimFreq = 1
  PROVE  Spec => [](Sound /\ TypeInv)
<1>1. Init => NothingLost
  <2>1. Init => Blank /\ q = {}
    BY DEF Init, Blank, Workers
  <2> QED BY <2>1, BlankHolds
<1>2. Sound /\ TypeInv' /\ IInv' /\ [Next]_vars => NothingLost'
  BY NextPool DEF PoolStep
<1>3. Sound <=> Shape /\ TypeInv /\ AStealsBounded /\ IInv /\ NothingLost
  BY DEF Sound
<1>4. TypeInv => TypeOK
  BY DEF TypeInv
<1>5. Init => TypeInv
  BY InitType
<1>6. TypeInv /\ [Next]_vars => TypeInv'
  BY NextType
<1> QED BY <1>1, <1>2, <1>3, <1>5, <1>6, InvCorrect, Damping, PTL DEF Spec

\* The slots that hold a task nobody has taken are at every moment the local ones,
\* the unclaimed ones and those of the claims not copied yet: no task is lost, none
\* appears, whatever order claims are made, copied and completed in.
THEOREM NoTaskLost ==
  ASSUME ReclaimFreq = 1
  PROVE  Spec => []NothingLost
<1>1. Sound => NothingLost
  BY DEF Sound
<1> QED BY <1>1, SoundCorrect, PTL

\* The queue is a pool of tasks: every push puts new tasks in, every pop and every
\* steal takes tasks that are in the pool and in nobody's hand, a reset finds all
\* hands empty, and no other step moves a task.
THEOREM QueueImplementsPool ==
  ASSUME ReclaimFreq = 1
  PROVE  Spec => ImplementsPool
<1>1. Init => Pool!Init
  BY DEF Init, Pool!Init, Pool!Nothing
<1>2. Sound /\ TypeInv' /\ IInv' /\ [Next]_vars => [Pool!Next]_(Pool!vars)
  BY NextPool DEF PoolStep
<1>3. Sound => IInv
  BY DEF Sound
<1> QED BY <1>1, <1>2, <1>3, SoundCorrect, PTL DEF Spec, ImplementsPool, Pool!Spec
=============================================================================
