------------------------- MODULE ApplicationsProofs -------------------------
(***************************************************************************)
(* The programs of Applications as paths.  The library prescribes in which *)
(* order its operations may be called: a process is at a place, a step     *)
(* moves it to another place, and the moves that the library permits make  *)
(* a relation, the protocol.  The steps of a call are a path of the        *)
(* protocol from where the call may be made to where it leaves the         *)
(* process.  What is proved here is that each main program is a path from  *)
(* the beginning to an end, that each task's body leads back to where it   *)
(* began, and that the programs of all processes have the same collectives *)
(* in the same order.                                                      *)
(***************************************************************************)
EXTENDS Applications, Lemmas, SequenceTheorems

-----------------------------------------------------------------------------
(***************************************************************************)
(* Sequences.                                                              *)
(***************************************************************************)
\* Concatenation, as an operator the provers take for nothing more than that.
Cat(s, t) == s \o t

LEMMA CatAssociative ==
  ASSUME NEW S, NEW s \in Seq(S), NEW t \in Seq(S), NEW u \in Seq(S)
  PROVE  Cat(Cat(s, t), u) = Cat(s, Cat(t, u))
BY ConcatAssociative DEF Cat

LEMMA CatType ==
  ASSUME NEW S, NEW s \in Seq(S), NEW t \in Seq(S)
  PROVE  Cat(s, t) \in Seq(S)
BY ConcatProperties DEF Cat

LEMMA CatEmpty ==
  ASSUME NEW S, NEW s \in Seq(S)
  PROVE  Cat(s, <<>>) = s /\ Cat(<<>>, s) = s
BY ConcatEmptySeq DEF Cat

\* The first step of a call's steps and what is left of them.
LEMMA HeadOfConcat ==
  ASSUME NEW S, NEW s \in Seq(S), NEW t \in Seq(S), s # <<>>
  PROVE  /\ s \o t \in Seq(S) /\ s \o t # <<>>
         /\ Head(s \o t) = Head(s) /\ Head(s) \in S
         /\ Tail(s) \in Seq(S) /\ Tail(s \o t) = Tail(s) \o t
<1>1. s \o t \in Seq(S) /\ Len(s \o t) = Len(s) + Len(t) /\ Len(s) \in Nat /\ Len(s) > 0 /\ Len(t) \in Nat
  BY ConcatProperties, LenProperties, EmptySeq
<1>2. s \o t # <<>>
  BY <1>1
<1>3. Head(s \o t) = Head(s)
  BY <1>1, ConcatProperties
<1>4. /\ Tail(s) \in Seq(S) /\ Len(Tail(s)) = Len(s) - 1
      /\ \A i \in 1..Len(Tail(s)) : Tail(s)[i] = s[i+1]
      /\ Head(s) \in S
  BY HeadTailProperties
<1>5. /\ Tail(s \o t) \in Seq(S) /\ Len(Tail(s \o t)) = Len(s \o t) - 1
      /\ \A i \in 1..Len(Tail(s \o t)) : Tail(s \o t)[i] = (s \o t)[i+1]
  BY <1>1, <1>2, HeadTailProperties
<1>6. /\ Tail(s) \o t \in Seq(S) /\ Len(Tail(s) \o t) = Len(Tail(s)) + Len(t)
      /\ \A i \in 1..(Len(Tail(s)) + Len(t)) :
           (Tail(s) \o t)[i] = IF i <= Len(Tail(s)) THEN Tail(s)[i] ELSE t[i - Len(Tail(s))]
  BY <1>4, ConcatProperties
<1>7. \A i \in 1..(Len(s) + Len(t)) :
           (s \o t)[i] = IF i <= Len(s) THEN s[i] ELSE t[i - Len(s)]
  BY ConcatProperties
<1>8. Tail(s \o t) = Tail(s) \o t
  <2>1. Len(Tail(s \o t)) = Len(Tail(s) \o t)
    BY <1>1, <1>4, <1>5, <1>6
  <2>2. ASSUME NEW i \in 1..Len(Tail(s \o t)) PROVE Tail(s \o t)[i] = (Tail(s) \o t)[i]
    <3>1. i + 1 \in 1..(Len(s) + Len(t)) /\ i \in 1..(Len(Tail(s)) + Len(t)) /\ i \in Int
      BY <1>1, <1>4, <1>5
    <3>2. Tail(s \o t)[i] = IF i + 1 <= Len(s) THEN s[i+1] ELSE t[(i+1) - Len(s)]
      BY <3>1, <1>5, <1>7
    <3>3. (Tail(s) \o t)[i] = IF i <= Len(s) - 1 THEN Tail(s)[i] ELSE t[i - (Len(s) - 1)]
      BY <3>1, <1>6, <1>4
    <3>4. (i + 1) - Len(s) = i - (Len(s) - 1) /\ (i + 1 <= Len(s) <=> i <= Len(s) - 1)
      BY <3>1, <1>1
    <3>5. i <= Len(s) - 1 => Tail(s)[i] = s[i+1]
      BY <3>1, <1>4
    <3> QED BY <3>2, <3>3, <3>4, <3>5
  <2> QED BY <2>1, <2>2, <1>5, <1>6, SeqEqual
<1> QED BY <1>1, <1>2, <1>3, <1>4, <1>8

LEMMA CatHead ==
  ASSUME NEW S, NEW s \in Seq(S), NEW t \in Seq(S), s # <<>>
  PROVE  /\ Cat(s, t) # <<>> /\ Head(Cat(s, t)) = Head(s) /\ Tail(Cat(s, t)) = Cat(Tail(s), t)
         /\ Head(s) \in S /\ Tail(s) \in Seq(S)
BY HeadOfConcat DEF Cat

LEMMA SingleSeq ==
  ASSUME NEW S, NEW x \in S
  PROVE  <<x>> \in Seq(S) /\ <<x>> # <<>> /\ Head(<<x>>) = x /\ Tail(<<x>>) = <<>> /\ Len(<<x>>) = 1
OBVIOUS

\* The members of a concatenation.
LEMMA MemberOfConcat ==
  ASSUME NEW S, NEW s \in Seq(S), NEW t \in Seq(S)
  PROVE  /\ \A i \in DOMAIN (s \o t) : \/ i \in DOMAIN s /\ (s \o t)[i] = s[i]
                                       \/ \E j \in DOMAIN t : i = Len(s) + j /\ (s \o t)[i] = t[j]
         /\ \A i \in DOMAIN s : i \in DOMAIN (s \o t) /\ (s \o t)[i] = s[i]
         /\ \A j \in DOMAIN t : Len(s) + j \in DOMAIN (s \o t) /\ (s \o t)[Len(s) + j] = t[j]
<1>1. /\ s \o t \in Seq(S) /\ Len(s \o t) = Len(s) + Len(t)
      /\ \A i \in 1..(Len(s) + Len(t)) :
           (s \o t)[i] = IF i <= Len(s) THEN s[i] ELSE t[i - Len(s)]
  BY ConcatProperties
<1>2. Len(s) \in Nat /\ Len(t) \in Nat /\ DOMAIN s = 1..Len(s) /\ DOMAIN t = 1..Len(t)
      /\ DOMAIN (s \o t) = 1..(Len(s) + Len(t))
  BY <1>1, LenProperties
<1>3. ASSUME NEW i \in DOMAIN (s \o t)
      PROVE  \/ i \in DOMAIN s /\ (s \o t)[i] = s[i]
             \/ \E j \in DOMAIN t : i = Len(s) + j /\ (s \o t)[i] = t[j]
  <2>1. CASE i <= Len(s)
    BY <2>1, <1>1, <1>2
  <2>2. CASE i > Len(s)
    <3>1. i - Len(s) \in 1..Len(t) /\ i = Len(s) + (i - Len(s))
      BY <2>2, <1>2
    <3>2. (s \o t)[i] = t[i - Len(s)]
      BY <2>2, <1>1, <1>2
    <3> QED BY <3>1, <3>2, <1>2
  <2> QED BY <2>1, <2>2, <1>2
<1>4. ASSUME NEW i \in DOMAIN s PROVE i \in DOMAIN (s \o t) /\ (s \o t)[i] = s[i]
  BY <1>1, <1>2
<1>5. ASSUME NEW j \in DOMAIN t PROVE Len(s) + j \in DOMAIN (s \o t) /\ (s \o t)[Len(s) + j] = t[j]
  <2>1. Len(s) + j \in 1..(Len(s) + Len(t)) /\ ~(Len(s) + j <= Len(s)) /\ (Len(s) + j) - Len(s) = j
    BY <1>2
  <2> QED BY <2>1, <1>1, <1>2
<1> QED BY <1>3, <1>4, <1>5

\* A sequence is its first member and the others.
LEMMA HeadAndTail ==
  ASSUME NEW S, NEW s \in Seq(S), s # <<>>
  PROVE  s = <<Head(s)>> \o Tail(s) /\ Head(s) \in S /\ Tail(s) \in Seq(S)
<1>1. /\ Head(s) \in S /\ Tail(s) \in Seq(S) /\ Len(Tail(s)) = Len(s) - 1
      /\ \A i \in 1..Len(Tail(s)) : Tail(s)[i] = s[i+1]
  BY HeadTailProperties
<1>2. <<Head(s)>> \in Seq(S) /\ Len(<<Head(s)>>) = 1 /\ <<Head(s)>>[1] = s[1]
  BY <1>1
<1>3. /\ <<Head(s)>> \o Tail(s) \in Seq(S) /\ Len(<<Head(s)>> \o Tail(s)) = 1 + Len(Tail(s))
      /\ \A i \in 1..(1 + Len(Tail(s))) :
           (<<Head(s)>> \o Tail(s))[i] = IF i <= 1 THEN <<Head(s)>>[i] ELSE Tail(s)[i - 1]
  BY <1>1, <1>2, ConcatProperties
<1>4. Len(s) \in Nat /\ 1 + Len(Tail(s)) = Len(s)
  BY <1>1, LenProperties
<1>5. ASSUME NEW i \in 1..Len(s) PROVE (<<Head(s)>> \o Tail(s))[i] = s[i]
  <2>1. CASE i = 1
    BY <2>1, <1>2, <1>3, <1>4
  <2>2. CASE i # 1
    <3>1. i - 1 \in 1..Len(Tail(s)) /\ (i - 1) + 1 = i /\ ~(i <= 1) /\ i \in 1..(1 + Len(Tail(s)))
      BY <2>2, <1>4
    <3> QED BY <3>1, <1>1, <1>3
  <2> QED BY <2>1, <2>2
<1>6. Len(<<Head(s)>> \o Tail(s)) = Len(s) /\ \A i \in 1..Len(s) : s[i] = (<<Head(s)>> \o Tail(s))[i]
  BY <1>3, <1>4, <1>5
<1>7. s = <<Head(s)>> \o Tail(s)
  BY <1>6, <1>3, SeqEqual
<1> QED BY <1>1, <1>7

-----------------------------------------------------------------------------
\* The first n of the sequences g, one after another.
Joined(g, n) == FlattenSeq([i \in 1..n |-> g[i]])

\* FlattenSeq satisfies the recurrence one expects of it.
LEMMA JoinedUnfolds ==
  ASSUME NEW S, NEW m \in Nat, NEW g \in [1..m -> Seq(S)]
  PROVE  /\ Joined(g, 0) = <<>>
         /\ \A n \in 0..m : Joined(g, n) \in Seq(S)
         /\ \A n \in 0..(m-1) : Joined(g, n+1) = Joined(g, n) \o g[n+1]
<1> DEFINE F == [i \in Nat |-> [x \in Seq(S) |-> IF i < m THEN x \o g[i+1] ELSE x]]
<1>1. F \in [Nat -> [Seq(S) -> Seq(S)]]
  <2> SUFFICES ASSUME NEW i \in Nat, NEW x \in Seq(S), i < m PROVE x \o g[i+1] \in Seq(S)
    OBVIOUS
  <2>1. g[i+1] \in Seq(S)
    OBVIOUS
  <2> QED BY <2>1, ConcatProperties
<1>2. <<>> \in Seq(S)
  OBVIOUS
<1>3. PICK h : Recursive(h, Seq(S), <<>>, F)
  <2> HIDE DEF F
  <2> QED BY <1>1, <1>2, PrimitiveRecursion
<1>4. h[0] = <<>> /\ \A n \in Nat : h[n] \in Seq(S)
  BY <1>3 DEF Recursive
<1>5. \A n \in 0..(m-1) : h[n+1] = h[n] \o g[n+1]
  <2> TAKE n \in 0..(m-1)
  <2>2. n \in Nat /\ n < m /\ h[n] \in Seq(S)
    BY <1>4
  <2>1. h[n+1] = F[n][h[n]]
    <3> HIDE DEF F
    <3> QED BY <1>3, <2>2 DEF Recursive
  <2>3. F[n][h[n]] = h[n] \o g[n+1]
    BY <2>2
  <2> QED BY <2>1, <2>3
<1> HIDE DEF F
<1>6. \A n \in 0..m : Joined(g, n) = h[n]
  <2> TAKE n \in 0..m
  <2> DEFINE seqs == [i \in 1..n |-> g[i]]
             flatten[i \in 1..Len(seqs)] == IF i = 1 THEN seqs[i] ELSE flatten[i-1] \o seqs[i]
             k == [i \in 1..n |-> h[i]]
  <2>1. seqs \in Seq(Seq(S)) /\ Len(seqs) = n /\ \A i \in 1..n : seqs[i] = g[i]
    <3>1. seqs \in [1..n -> Seq(S)]
      OBVIOUS
    <3>2. \A f : f \in [1..n -> Seq(S)] => f \in Seq(Seq(S)) /\ Len(f) = n
      OBVIOUS
    <3> QED BY <3>1, <3>2
  <2>2. CASE n = 0
    <3>1. seqs = <<>>
      BY <2>1, <2>2
    <3>2. Joined(g, n) = seqs
      BY <2>1, <2>2 DEF Joined, FlattenSeq
    <3> QED BY <3>1, <3>2, <1>4, <2>2
  <2>3. CASE n # 0
    <3>1. Joined(g, n) = flatten[n]
      <4>1. Joined(g, n) = FlattenSeq(seqs)
        BY DEF Joined
      <4>2. FlattenSeq(seqs) = flatten[Len(seqs)]
        <5>1. Len(seqs) # 0
          BY <2>1, <2>3
        <5> QED BY <5>1 DEF FlattenSeq
      <4> QED BY <4>1, <4>2, <2>1
    <3> HIDE DEF seqs
    <3>2. k = [i \in 1..Len(seqs) |-> IF i = 1 THEN seqs[i] ELSE k[i-1] \o seqs[i]]
      <4>1. ASSUME NEW i \in 1..n PROVE h[i] = IF i = 1 THEN seqs[i] ELSE k[i-1] \o seqs[i]
        <5>1. CASE i = 1
          <6>0. 0 \in 0..(m-1)
            OBVIOUS
          <6>1. h[0+1] = h[0] \o g[0+1]
            BY <1>5, <6>0
          <6>2. g[1] \in Seq(S) /\ seqs[1] = g[1]
            BY <2>1, <5>1
          <6>3. <<>> \o g[1] = g[1]
            BY <6>2, ConcatEmptySeq
          <6> QED BY <6>1, <6>2, <6>3, <5>1, <1>4
        <5>2. CASE i # 1
          <6>1. i - 1 \in 0..(m-1) /\ (i - 1) + 1 = i /\ i - 1 \in 1..n
            BY <5>2
          <6>2. h[(i-1)+1] = h[i-1] \o g[(i-1)+1]
            BY <6>1, <1>5
          <6> QED BY <6>1, <6>2, <5>2, <2>1
        <5> QED BY <5>1, <5>2
      <4> QED BY <4>1, <2>1
    <3>3. flatten = [i \in 1..Len(seqs) |-> IF i = 1 THEN seqs[i] ELSE flatten[i-1] \o seqs[i]]
      BY <3>2, Zenon
    <3> HIDE DEF flatten, k
    <3> DEFINE A == {j \in Nat : j \in 1..n => flatten[j] = h[j]}
    <3>4. 0 \in A
      OBVIOUS
    <3>5. ASSUME NEW j \in Nat, j \in A PROVE j + 1 \in A
      <4> SUFFICES ASSUME j + 1 \in 1..n PROVE flatten[j+1] = h[j+1]
        OBVIOUS
      <4>1. flatten[j+1] = IF j + 1 = 1 THEN seqs[j+1] ELSE flatten[(j+1)-1] \o seqs[j+1]
        BY <3>3, <2>1
      <4>2. (j + 1) - 1 = j /\ j \in 0..(m-1) /\ seqs[j+1] = g[j+1] /\ g[j+1] \in Seq(S)
        BY <2>1
      <4>3. h[j+1] = h[j] \o g[j+1]
        BY <4>2, <1>5
      <4>4. CASE j = 0
        BY <4>1, <4>2, <4>3, <4>4, <1>4, ConcatEmptySeq
      <4>5. CASE j # 0
        <5>1. flatten[j] = h[j]
          BY <4>5, <3>5
        <5>2. j + 1 # 1
          BY <4>5
        <5>3. flatten[j+1] = flatten[j] \o g[j+1]
          BY <4>1, <4>2, <5>2
        <5> HIDE DEF A
        <5> QED BY <5>1, <5>3, <4>3
      <4> QED BY <4>4, <4>5
    <3> HIDE DEF A
    <3>6. Nat \subseteq A
      BY <3>4, <3>5, SetInduction
    <3>7. n \in Nat /\ n \in 1..n
      BY <2>3
    <3>8. flatten[n] = h[n]
      BY <3>6, <3>7 DEF A
    <3> QED BY <3>1, <3>8
  <2> QED BY <2>2, <2>3
<1>7. ASSUME NEW n \in 0..(m-1) PROVE n \in 0..m /\ n + 1 \in 0..m
  OBVIOUS
<1>8. 0 \in 0..m /\ \A n \in 0..m : n \in Nat
  OBVIOUS
<1> QED BY <1>4, <1>5, <1>6, <1>7, <1>8

\* Sequences of one kind that may follow one another: so may any number of them.
Joinable(Q, S) == Q \subseteq Seq(S) /\ <<>> \in Q /\ \A s, t \in Q : s \o t \in Q

LEMMA JoinedIn ==
  ASSUME NEW S, NEW Q, Joinable(Q, S), NEW m \in Nat, NEW g \in [1..m -> Q]
  PROVE  FlattenSeq(g) \in Q
<1>1. g \in [1..m -> Seq(S)]
  BY DEF Joinable
<1> DEFINE A == {n \in Nat : n <= m => Joined(g, n) \in Q}
<1>2. 0 \in A
  BY <1>1, JoinedUnfolds DEF Joinable
<1>3. ASSUME NEW n \in Nat, n \in A PROVE n + 1 \in A
  <2> SUFFICES ASSUME n + 1 <= m PROVE Joined(g, n+1) \in Q
    OBVIOUS
  <2>1. n \in 0..(m-1) /\ n + 1 \in 1..m /\ Joined(g, n) \in Q
    BY <1>3
  <2>2. Joined(g, n+1) = Joined(g, n) \o g[n+1]
    BY <2>1, <1>1, JoinedUnfolds
  <2> QED BY <2>1, <2>2 DEF Joinable
<1> HIDE DEF A
<1>4. m \in A
  BY <1>2, <1>3, SetInduction
<1>5. Joined(g, m) \in Q
  BY <1>4 DEF A
<1>6. [i \in 1..m |-> g[i]] = g
  OBVIOUS
<1> QED BY <1>5, <1>6 DEF Joined

-----------------------------------------------------------------------------
(***************************************************************************)
(* The steps of s whose names are among ops.                               *)
(***************************************************************************)
Picked(s, ops) ==
  LET f[i \in 0..Len(s)] == IF i = 0 THEN <<>>
                            ELSE IF s[i].op \in ops THEN f[i-1] \o <<s[i]>> ELSE f[i-1]
  IN  f[Len(s)]

\* h has what is picked from each initial segment of s.
Picking(h, s, S, ops) ==
  /\ h[0] = <<>> /\ \A n \in 0..Len(s) : h[n] \in Seq(S)
  /\ \A n \in 0..(Len(s)-1) :
       h[n+1] = IF s[n+1].op \in ops THEN h[n] \o <<s[n+1]>> ELSE h[n]
  /\ Picked(s, ops) = h[Len(s)]

LEMMA PickedUnfolds ==
  ASSUME NEW S, NEW s \in Seq(S), NEW ops
  PROVE  \E h : Picking(h, s, S, ops)
<1> DEFINE m == Len(s)
           F == [i \in Nat |-> [x \in Seq(S) |->
                   IF i < m THEN (IF s[i+1].op \in ops THEN x \o <<s[i+1]>> ELSE x) ELSE x]]
           f[i \in 0..m] == IF i = 0 THEN <<>>
                            ELSE IF s[i].op \in ops THEN f[i-1] \o <<s[i]>> ELSE f[i-1]
<1>0. m \in Nat /\ \A i \in 1..m : s[i] \in S
  OBVIOUS
<1>1. F \in [Nat -> [Seq(S) -> Seq(S)]]
  <2> HIDE DEF m
  <2> SUFFICES ASSUME NEW i \in Nat, NEW x \in Seq(S), i < m PROVE x \o <<s[i+1]>> \in Seq(S)
    OBVIOUS
  <2>1. s[i+1] \in S
    BY <1>0
  <2> QED BY <2>1
<1>2. PICK h : Recursive(h, Seq(S), <<>>, F)
  <2>1. <<>> \in Seq(S)
    OBVIOUS
  <2> HIDE DEF F
  <2> QED BY <1>1, <2>1, PrimitiveRecursion
<1>3. h[0] = <<>> /\ \A n \in Nat : h[n] \in Seq(S)
  <2> HIDE DEF F
  <2> QED BY <1>2 DEF Recursive
<1>4. \A n \in 0..(m-1) : h[n+1] = IF s[n+1].op \in ops THEN h[n] \o <<s[n+1]>> ELSE h[n]
  <2> HIDE DEF m
  <2> TAKE n \in 0..(m-1)
  <2>1. n \in Nat /\ n < m /\ h[n] \in Seq(S)
    BY <1>0, <1>3
  <2>2. h[n+1] = F[n][h[n]]
    <3> HIDE DEF F
    <3> QED BY <1>2, <2>1 DEF Recursive
  <2>3. F[n][h[n]] = IF s[n+1].op \in ops THEN h[n] \o <<s[n+1]>> ELSE h[n]
    BY <2>1
  <2> QED BY <2>2, <2>3
<1> HIDE DEF F
<1> DEFINE k == [i \in 0..m |-> h[i]]
<1>5. k = [i \in 0..m |-> IF i = 0 THEN <<>>
                          ELSE IF s[i].op \in ops THEN k[i-1] \o <<s[i]>> ELSE k[i-1]]
  <2> HIDE DEF m
  <2>1. ASSUME NEW i \in 0..m, i # 0
        PROVE  h[i] = IF s[i].op \in ops THEN k[i-1] \o <<s[i]>> ELSE k[i-1]
    <3>1. i - 1 \in 0..(m-1) /\ (i - 1) + 1 = i /\ i - 1 \in 0..m
      BY <1>0, <2>1
    <3>2. h[(i-1)+1] = IF s[(i-1)+1].op \in ops THEN h[i-1] \o <<s[(i-1)+1]>> ELSE h[i-1]
      BY <3>1, <1>4
    <3> QED BY <3>1, <3>2
  <2> QED BY <2>1, <1>3
<1>6. f = [i \in 0..m |-> IF i = 0 THEN <<>>
                          ELSE IF s[i].op \in ops THEN f[i-1] \o <<s[i]>> ELSE f[i-1]]
  BY <1>5, Zenon
<1>7. Picked(s, ops) = f[m]
  BY DEF Picked
<1> HIDE DEF f, k, m
<1>8. f[0] = <<>>
  BY <1>6, <1>0
<1>9. \A n \in 0..(m-1) : f[n+1] = IF s[n+1].op \in ops THEN f[n] \o <<s[n+1]>> ELSE f[n]
  <2> TAKE n \in 0..(m-1)
  <2>1. n + 1 \in 0..m /\ n + 1 # 0 /\ (n + 1) - 1 = n
    BY <1>0
  <2> QED BY <2>1, <1>6
<1>10. \A n \in 0..m : f[n] \in Seq(S)
  <2> DEFINE A == {n \in Nat : n <= m => f[n] \in Seq(S)}
  <2>1. 0 \in A
    <3>1. f[0] \in Seq(S)
      BY <1>8
    <3> QED BY <3>1
  <2>2. ASSUME NEW n \in Nat, n \in A PROVE n + 1 \in A
    <3> SUFFICES ASSUME n + 1 <= m PROVE f[n+1] \in Seq(S)
      OBVIOUS
    <3>1. n \in 0..(m-1) /\ f[n] \in Seq(S) /\ s[n+1] \in S
      BY <2>2, <1>0
    <3>2. f[n] \o <<s[n+1]>> \in Seq(S)
      BY <3>1
    <3> HIDE DEF A
    <3> QED BY <3>1, <3>2, <1>9
  <2> HIDE DEF A
  <2>3. Nat \subseteq A
    BY <2>1, <2>2, SetInduction
  <2> QED BY <2>3 DEF A
<1>11. Picking(f, s, S, ops)
  BY <1>7, <1>8, <1>9, <1>10 DEF m, Picking
<1> QED BY <1>11

LEMMA PickedBasic ==
  ASSUME NEW S, NEW s \in Seq(S), NEW ops, NEW x \in S
  PROVE  /\ Picked(s, ops) \in Seq(S)
         /\ Picked(<<>>, ops) = <<>>
         /\ Picked(<<x>>, ops) = IF x.op \in ops THEN <<x>> ELSE <<>>
<1>1. Picked(s, ops) \in Seq(S)
  <2>1. PICK h : Picking(h, s, S, ops)
    BY PickedUnfolds
  <2>2. Len(s) \in 0..Len(s)
    BY LenProperties
  <2> QED BY <2>1, <2>2 DEF Picking
<1>2. Picked(<<>>, ops) = <<>>
  <2> DEFINE e == <<>>
  <2>1. e \in Seq(S) /\ Len(e) = 0
    OBVIOUS
  <2> HIDE DEF e
  <2>2. PICK h : Picking(h, e, S, ops)
    BY <2>1, PickedUnfolds
  <2>3. Picked(e, ops) = <<>>
    BY <2>1, <2>2 DEF Picking
  <2> QED BY <2>3 DEF e
<1>3. Picked(<<x>>, ops) = IF x.op \in ops THEN <<x>> ELSE <<>>
  <2> DEFINE t == <<x>>
  <2>1. t \in Seq(S) /\ Len(t) = 1 /\ t[1] = x
    OBVIOUS
  <2> HIDE DEF t
  <2>2. PICK h : Picking(h, t, S, ops)
    BY <2>1, PickedUnfolds
  <2>3. h[0+1] = IF t[0+1].op \in ops THEN h[0] \o <<t[0+1]>> ELSE h[0]
    <3>1. 0 \in 0..(Len(t)-1)
      BY <2>1
    <3> QED BY <3>1, <2>2 DEF Picking
  <2>4. <<>> \o <<x>> = <<x>>
    OBVIOUS
  <2>5. Picked(t, ops) = IF x.op \in ops THEN <<x>> ELSE <<>>
    BY <2>1, <2>2, <2>3, <2>4 DEF Picking
  <2> QED BY <2>5 DEF t
<1> QED BY <1>1, <1>2, <1>3

LEMMA PickedConcat ==
  ASSUME NEW S, NEW s \in Seq(S), NEW t \in Seq(S), NEW ops
  PROVE  Picked(s \o t, ops) = Picked(s, ops) \o Picked(t, ops)
<1> DEFINE u == s \o t  m == Len(s)  k == Len(t)
<1>1. /\ u \in Seq(S) /\ Len(u) = m + k /\ m \in Nat /\ k \in Nat
      /\ \A i \in 1..(m + k) : u[i] = IF i <= m THEN s[i] ELSE t[i - m]
  BY ConcatProperties, LenProperties
<1>s. (\A i \in 1..m : s[i] \in S) /\ (\A i \in 1..k : t[i] \in S)
  OBVIOUS
<1> HIDE DEF u
<1>2. PICK hs : Picking(hs, s, S, ops)
  BY PickedUnfolds
<1>3. PICK ht : Picking(ht, t, S, ops)
  BY PickedUnfolds
<1>4. PICK hu : Picking(hu, u, S, ops)
  BY <1>1, PickedUnfolds
<1>a. /\ hs[0] = <<>> /\ \A n \in 0..m : hs[n] \in Seq(S)
      /\ \A n \in 0..(m-1) : hs[n+1] = IF s[n+1].op \in ops THEN hs[n] \o <<s[n+1]>> ELSE hs[n]
      /\ Picked(s, ops) = hs[m]
  BY <1>2 DEF Picking
<1>b. /\ ht[0] = <<>> /\ \A n \in 0..k : ht[n] \in Seq(S)
      /\ \A n \in 0..(k-1) : ht[n+1] = IF t[n+1].op \in ops THEN ht[n] \o <<t[n+1]>> ELSE ht[n]
      /\ Picked(t, ops) = ht[k]
  BY <1>3 DEF Picking
<1> HIDE DEF m, k
<1>c. /\ hu[0] = <<>>
      /\ \A n \in 0..(m+k-1) :
           hu[n+1] = IF u[n+1].op \in ops THEN hu[n] \o <<u[n+1]>> ELSE hu[n]
      /\ Picked(u, ops) = hu[m+k]
  BY <1>1, <1>4 DEF Picking
<1> DEFINE A == {n \in Nat : n <= m => hu[n] = hs[n]}
           P(n) == n <= k => hu[m+n] = hs[m] \o ht[n]
           B == {n \in Nat : P(n)}
<1>5. m \in A
  <2>1. 0 \in A
    BY <1>a, <1>c
  <2>2. ASSUME NEW n \in Nat, n \in A PROVE n + 1 \in A
    <3> SUFFICES ASSUME n + 1 <= m PROVE hu[n+1] = hs[n+1]
      OBVIOUS
    <3>1. /\ n \in 0..(m-1) /\ n \in 0..(m+k-1) /\ n + 1 \in 1..(m+k) /\ n + 1 <= m
      BY <1>1
    <3>2. u[n+1] = s[n+1] /\ hu[n] = hs[n]
      BY <3>1, <1>1, <2>2
    <3> HIDE DEF A
    <3> QED BY <3>1, <3>2, <1>a, <1>c
  <2> HIDE DEF A
  <2> QED BY <2>1, <2>2, <1>1, SetInduction
<1>6. k \in B
  <2>1. 0 \in B
    <3>1. m + 0 = m /\ hu[m] = hs[m] /\ hs[m] \in Seq(S)
      BY <1>1, <1>a, <1>5
    <3>2. hs[m] \o <<>> = hs[m]
      BY <3>1, ConcatEmptySeq
    <3> HIDE DEF A
    <3> QED BY <3>1, <3>2, <1>b
  <2>2. ASSUME NEW n \in Nat, n \in B PROVE n + 1 \in B
    <3> HIDE DEF A
    <3> SUFFICES ASSUME n + 1 <= k PROVE hu[m+(n+1)] = hs[m] \o ht[n+1]
      <4>1. P(n+1) <=> (n + 1 <= k => hu[m+(n+1)] = hs[m] \o ht[n+1])
        OBVIOUS
      <4>2. n + 1 \in Nat
        OBVIOUS
      <4> HIDE DEF P
      <4> QED BY <4>1, <4>2, Zenon
    <3>0. hu[m+n] = hs[m] \o ht[n]
      <4>1. n <= k
        BY <1>1
      <4> QED BY <4>1, <2>2
    <3> HIDE DEF B
    <3>1. /\ n \in 0..(k-1) /\ n \in 0..k /\ m + n \in 0..(m+k-1) /\ (m + n) + 1 = m + (n + 1)
          /\ (m + n) + 1 \in 1..(m+k) /\ ~((m + n) + 1 <= m) /\ ((m + n) + 1) - m = n + 1
          /\ n + 1 \in 1..k /\ m \in 0..m
      BY <1>1
    <3>2. u[(m+n)+1] = t[n+1]
      <4>1. u[(m+n)+1] = IF (m+n)+1 <= m THEN s[(m+n)+1] ELSE t[((m+n)+1) - m]
        BY <3>1, <1>1
      <4> QED BY <4>1, <3>1
    <3>3. hu[(m+n)+1] = IF t[n+1].op \in ops THEN (hs[m] \o ht[n]) \o <<t[n+1]>> ELSE hs[m] \o ht[n]
      BY <3>0, <3>1, <3>2, <1>c
    <3>4. ht[n+1] = IF t[n+1].op \in ops THEN ht[n] \o <<t[n+1]>> ELSE ht[n]
      BY <3>1, <1>b
    <3>5. hs[m] \in Seq(S) /\ ht[n] \in Seq(S) /\ t[n+1] \in S
      BY <3>1, <1>a, <1>b, <1>s
    <3>6. (hs[m] \o ht[n]) \o <<t[n+1]>> = hs[m] \o (ht[n] \o <<t[n+1]>>)
      <4> DEFINE a == hs[m]  b == ht[n]  c == <<t[n+1]>>
      <4>1. a \in Seq(S) /\ b \in Seq(S) /\ c \in Seq(S)
        BY <3>5
      <4> HIDE DEF a, b, c
      <4>2. Cat(Cat(a, b), c) = Cat(a, Cat(b, c))
        BY <4>1, CatAssociative
      <4> QED BY <4>2, Zenon DEF a, b, c, Cat
    <3> QED BY <3>1, <3>3, <3>4, <3>6
  <2> HIDE DEF B
  <2> QED BY <2>1, <2>2, <1>1, SetInduction
<1>7. Picked(u, ops) = hs[m] \o ht[k]
  <2> HIDE DEF A
  <2>1. k <= k
    BY <1>1
  <2>2. hu[m+k] = hs[m] \o ht[k]
    BY <2>1, <1>6
  <2> QED BY <2>2, <1>c
<1> QED BY <1>7, <1>a, <1>b DEF u

LEMMA PickedCat ==
  ASSUME NEW S, NEW s \in Seq(S), NEW t \in Seq(S), NEW ops
  PROVE  Picked(Cat(s, t), ops) = Cat(Picked(s, ops), Picked(t, ops))
BY PickedConcat DEF Cat

\* What is picked from a call's steps after the first is taken.
LEMMA PickedTail ==
  ASSUME NEW S, NEW s \in Seq(S), s # <<>>, NEW ops
  PROVE  /\ Head(s).op \in ops => Picked(s, ops) = <<Head(s)>> \o Picked(Tail(s), ops)
         /\ Head(s).op \notin ops => Picked(s, ops) = Picked(Tail(s), ops)
<1> DEFINE h == <<Head(s)>>  t == Tail(s)
<1>1. s = h \o t /\ Head(s) \in S /\ t \in Seq(S) /\ h \in Seq(S)
  BY HeadAndTail
<1>2. Picked(s, ops) = Picked(h, ops) \o Picked(t, ops)
  <2> HIDE DEF h, t
  <2>1. Picked(h \o t, ops) = Picked(h, ops) \o Picked(t, ops)
    BY <1>1, PickedConcat
  <2> QED BY <2>1, <1>1
<1>3. Picked(<<Head(s)>>, ops) = IF Head(s).op \in ops THEN <<Head(s)>> ELSE <<>>
  BY <1>1, PickedBasic
<1>4. Picked(Tail(s), ops) \in Seq(S)
  BY <1>1, PickedBasic
<1>5. <<>> \o Picked(Tail(s), ops) = Picked(Tail(s), ops)
  BY <1>4, ConcatEmptySeq
<1> QED BY <1>2, <1>3, <1>5

\* No step has one of the names.
LEMMA PickedNone ==
  ASSUME NEW S, NEW s \in Seq(S), NEW ops, \A i \in DOMAIN s : s[i].op \notin ops
  PROVE  Picked(s, ops) = <<>>
<1>0. PICK h : Picking(h, s, S, ops)
  BY PickedUnfolds
<1>1. /\ h[0] = <<>>
      /\ \A n \in 0..(Len(s)-1) :
           h[n+1] = IF s[n+1].op \in ops THEN h[n] \o <<s[n+1]>> ELSE h[n]
      /\ Picked(s, ops) = h[Len(s)]
  BY <1>0 DEF Picking
<1> DEFINE A == {n \in Nat : n <= Len(s) => h[n] = <<>>}
<1>2. 0 \in A
  BY <1>1
<1>3. ASSUME NEW n \in Nat, n \in A PROVE n + 1 \in A
  <2> SUFFICES ASSUME n + 1 <= Len(s) PROVE h[n+1] = <<>>
    OBVIOUS
  <2>1. n \in 0..(Len(s)-1) /\ n + 1 \in DOMAIN s /\ h[n] = <<>>
    BY <1>3
  <2> HIDE DEF A
  <2> QED BY <2>1, <1>1
<1> HIDE DEF A
<1>4. Len(s) \in A /\ Len(s) \in Nat
  BY <1>2, <1>3, SetInduction
<1> QED BY <1>1, <1>4 DEF A

LEMMA PickedEmpty ==
  ASSUME NEW ops
  PROVE  Picked(<<>>, ops) = <<>>
<1>1. <<>> \in Seq({}) /\ \A i \in DOMAIN <<>> : <<>>[i].op \notin ops
  OBVIOUS
<1> DEFINE s == <<>>
<1>2. s \in Seq({}) /\ \A i \in DOMAIN s : s[i].op \notin ops
  BY <1>1
<1> HIDE DEF s
<1>3. Picked(s, ops) = <<>>
  BY <1>2, PickedNone
<1> QED BY <1>3 DEF s

PicksEach(g, e, m, S, ops) ==
  /\ g \in [1..m -> Seq(S)] /\ e \in [1..m -> Seq(S)]
  /\ \A i \in 1..m : Picked(g[i], ops) = e[i]

\* The steps picked from calls one after another are those picked from each.
LEMMA PickedJoined ==
  ASSUME NEW S, NEW m \in Nat, NEW g, NEW e, NEW ops, PicksEach(g, e, m, S, ops)
  PROVE  Picked(FlattenSeq(g), ops) = FlattenSeq(e)
<1>g. /\ g \in [1..m -> Seq(S)] /\ e \in [1..m -> Seq(S)]
      /\ \A i \in 1..m : Picked(g[i], ops) = e[i]
  BY DEF PicksEach
<1> DEFINE A == {n \in Nat : n <= m => Picked(Joined(g, n), ops) = Joined(e, n)}
<1>0. <<>> \in Seq(S) /\ 0 \in 0..m
  OBVIOUS
<1>1. 0 \in A
  <2>1. Joined(g, 0) = <<>> /\ Joined(e, 0) = <<>>
    BY <1>g, JoinedUnfolds
  <2> QED BY <2>1, PickedEmpty
<1>2. ASSUME NEW n \in Nat, n \in A PROVE n + 1 \in A
  <2> SUFFICES ASSUME n + 1 <= m PROVE Picked(Joined(g, n+1), ops) = Joined(e, n+1)
    OBVIOUS
  <2>1. n \in 0..(m-1) /\ n \in 0..m /\ n + 1 \in 1..m /\ Picked(Joined(g, n), ops) = Joined(e, n)
    BY <1>2
  <2>p. Picked(g[n+1], ops) = e[n+1]
    BY <2>1, <1>g
  <2>2. Joined(g, n+1) = Joined(g, n) \o g[n+1] /\ Joined(g, n) \in Seq(S) /\ g[n+1] \in Seq(S)
    BY <2>1, <1>g, JoinedUnfolds
  <2>3. Joined(e, n+1) = Joined(e, n) \o e[n+1]
    BY <2>1, <1>g, JoinedUnfolds
  <2> HIDE DEF A
  <2> DEFINE j == Joined(g, n)  l == g[n+1]
  <2>4. Picked(Joined(g, n+1), ops) = Picked(j, ops) \o Picked(l, ops)
    <3>1. j \in Seq(S) /\ l \in Seq(S)
      BY <2>2
    <3>2. Joined(g, n+1) = j \o l
      BY <2>2
    <3> HIDE DEF j, l
    <3>3. Picked(j \o l, ops) = Picked(j, ops) \o Picked(l, ops)
      BY <3>1, PickedConcat
    <3> QED BY <3>2, <3>3
  <2> QED BY <2>1, <2>3, <2>4, <2>p
<1> HIDE DEF A
<1>3. m \in A
  BY <1>1, <1>2, SetInduction
<1>4. Picked(Joined(g, m), ops) = Joined(e, m)
  BY <1>3 DEF A
<1>5. [i \in 1..m |-> g[i]] = g /\ [i \in 1..m |-> e[i]] = e
  BY <1>g
<1> QED BY <1>4, <1>5 DEF Joined

-----------------------------------------------------------------------------
(***************************************************************************)
(* The programs.                                                           *)
(***************************************************************************)
\* 2^n is a positive natural number.
LEMMA PowersType ==
  ASSUME NEW n \in Nat
  PROVE  Pow2[n] \in Nat /\ Pow2[n] > 0
BY PowersDouble

\* What a program with its arguments, its tree and its function comes to.
WellFormed(a) ==
  /\ a.prog \in {"bpc", "uts", "mad3d", "tasks"} /\ a.kind \in Kinds
  /\ a.prog = "bpc" => /\ a.initial \in Nat /\ a.nchildren \in Nat /\ a.maxdepth \in Nat
                       /\ a.bouncing \in BOOLEAN
  /\ a.prog = "uts" =>
       /\ a.strict \in BOOLEAN /\ a.inplace \in BOOLEAN
       /\ <<>> \in DOMAIN a.tree
       /\ \A s \in DOMAIN a.tree :
            /\ s \in Seq(Nat) /\ a.tree[s] \in Nat
            /\ \A c \in 0..(a.tree[s] - 1) : s \o <<c>> \in DOMAIN a.tree
  /\ a.prog = "mad3d" => /\ a.dims \in Nat \ {0} /\ a.initial_level \in Nat
                         /\ a.max_level \in Nat /\ a.test_eval \in BOOLEAN
  /\ a.prog = "tasks" => a.tasks \in Nat

\* A function on 1..k is a sequence.
LEMMA FunctionIsSeq ==
  ASSUME NEW S, NEW k \in Nat, NEW f \in [1..k -> S]
  PROVE  f \in Seq(S) /\ Len(f) = k
OBVIOUS

\* A sequence over some values is one over more.
LEMMA SeqOfMore ==
  ASSUME NEW S, NEW T, S \subseteq T, NEW s \in Seq(S)
  PROVE  s \in Seq(T)
<1> DEFINE k == Len(s)
<1>1. k \in Nat /\ s \in [1..k -> S]
  BY LenProperties
<1> HIDE DEF k
<1>2. s \in [1..k -> T]
  BY <1>1
<1> QED BY <1>1, <1>2, FunctionIsSeq

\* The trees UTS counts have a root, and every child of a node that has it.
LEMMA TreesAreTrees ==
  ASSUME NEW a, NEW h \in Nat, a.b_0 \in Nat, a.maxChildren \in Nat,
         NEW t \in Trees(a, h)
  PROVE  /\ <<>> \in DOMAIN t
         /\ \A s \in DOMAIN t : /\ s \in Seq(Nat) /\ t[s] \in Nat
                                /\ \A c \in 0..(t[s] - 1) : s \o <<c>> \in DOMAIN t
<1> DEFINE Most  == IF a.b_0 > a.maxChildren THEN a.b_0 ELSE a.maxChildren
           Digits == 0..(Most - 1)
           Paths == UNION {[1..k -> Digits] : k \in 0..h}
           In(g) == {s \in Paths : \A k \in 1..Len(s) : s[k] < g[SubSeq(s, 1, k - 1)]}
<1>1. PICK g \in [Paths -> 0..Most] :
        /\ \A s \in Paths : Len(s) = h => g[s] = 0
        /\ t = [s \in In(g) |-> g[s]]
  BY DEF Trees
<1>2. Most \in Nat /\ Digits \subseteq Nat /\ \A c \in Digits : c < Most
  OBVIOUS
<1>d. \A n \in 0..Most : \A c \in 0..(n - 1) : c \in Digits /\ n # 0
  BY <1>2
<1> HIDE DEF Most, Digits
<1>3. ASSUME NEW s \in Paths
      PROVE  s \in Seq(Digits) /\ Len(s) \in 0..h
  <2>1. PICK k \in 0..h : s \in [1..k -> Digits]
    OBVIOUS
  <2>2. k \in Nat
    OBVIOUS
  <2>3. s \in Seq(Digits) /\ Len(s) = k
    BY <2>1, <2>2, FunctionIsSeq
  <2> QED BY <2>1, <2>3
<1>4. ASSUME NEW s \in Seq(Digits), Len(s) <= h PROVE s \in Paths
  <2>1. s \in [1..Len(s) -> Digits] /\ Len(s) \in Nat
    BY LenProperties
  <2>2. Len(s) \in 0..h
    BY <2>1, <1>4
  <2> QED BY <2>1, <2>2
<1>5. \A s : s \in In(g) <=> s \in Paths /\ \A k \in 1..Len(s) : s[k] < g[SubSeq(s, 1, k - 1)]
  OBVIOUS
<1> HIDE DEF Paths, In
<1>6. DOMAIN t = In(g) /\ \A s \in In(g) : t[s] = g[s]
  BY <1>1
<1>7. <<>> \in In(g)
  <2> DEFINE e == <<>>
  <2>1. e \in Seq(Digits) /\ Len(e) = 0
    OBVIOUS
  <2>2. 0 <= h
    OBVIOUS
  <2> HIDE DEF e
  <2>3. e \in Paths
    BY <2>1, <2>2, <1>4
  <2> QED BY <2>1, <2>3, <1>5 DEF e
<1>8. ASSUME NEW s \in In(g), NEW c \in 0..(g[s] - 1) PROVE s \o <<c>> \in In(g)
  <2>1. s \in Paths /\ s \in Seq(Digits) /\ Len(s) \in 0..h /\ g[s] \in 0..Most
        /\ \A k \in 1..Len(s) : s[k] < g[SubSeq(s, 1, k - 1)]
    BY <1>1, <1>3, <1>5
  <2>2. c \in Digits /\ g[s] # 0 /\ c < g[s]
    <3>1. c < g[s]
      BY <2>1, <1>2
    <3> QED BY <3>1, <2>1, <1>d
  <2>3. Len(s) < h
    BY <2>1, <2>2, <1>1
  <2> DEFINE u == s \o <<c>>
  <2>4. <<c>> \in Seq(Digits) /\ Len(<<c>>) = 1 /\ <<c>>[1] = c
    BY <2>1, <2>2
  <2>5. /\ u \in Seq(Digits) /\ Len(u) = Len(s) + 1
        /\ \A i \in 1..Len(s) : u[i] = s[i]
        /\ u[Len(s) + 1] = c
    BY <2>1, <2>4, ConcatProperties
  <2> HIDE DEF u
  <2>6. u \in Paths
    BY <2>3, <2>5, <2>1, <1>4
  <2>7. ASSUME NEW k \in 1..Len(u) PROVE u[k] < g[SubSeq(u, 1, k - 1)]
    <3>0. k - 1 \in 0..Len(s) /\ k \in 1..(Len(s) + 1) /\ Len(s) \in Nat
      BY <2>5, <2>1
    <3>1. SubSeq(u, 1, k - 1) = SubSeq(s, 1, k - 1)
      <4>1. \A i \in 1..(k - 1) : u[i] = s[i]
        BY <3>0, <2>5
      <4> DEFINE m == k - 1
      <4>2. m \in Nat /\ (\A i \in 1..m : u[i] = s[i]) /\ m <= Len(s) /\ m <= Len(u)
        BY <4>1, <3>0, <2>5
      <4> HIDE DEF m
      <4>3. SubSeq(u, 1, m) = SubSeq(s, 1, m)
        BY <4>2, <2>1, <2>5
      <4> QED BY <4>3 DEF m
    <3>2. CASE k <= Len(s)
      <4>1. k \in 1..Len(s)
        BY <3>2, <3>0
      <4>2. u[k] = s[k] /\ s[k] < g[SubSeq(s, 1, k - 1)]
        BY <4>1, <2>5, <2>1
      <4> QED BY <4>2, <3>1
    <3>3. CASE k = Len(s) + 1
      <4>1. u[k] = c
        BY <3>3, <2>5
      <4>2. k - 1 = Len(s)
        BY <3>3, <3>0
      <4>3. SubSeq(s, 1, Len(s)) = s
        BY <2>1, SubSeqFull
      <4>4. SubSeq(u, 1, k - 1) = s
        BY <4>2, <4>3, <3>1
      <4> QED BY <4>1, <4>4, <2>2
    <3> QED BY <3>2, <3>3, <3>0
  <2> QED BY <2>6, <2>7, <1>5 DEF u
<1>9. ASSUME NEW s \in In(g) PROVE s \in Seq(Nat) /\ g[s] \in Nat
  <2>1. s \in Paths /\ s \in Seq(Digits)
    BY <1>3, <1>5
  <2>2. s \in Seq(Nat)
    BY <2>1, <1>2, SeqOfMore
  <2> QED BY <2>1, <2>2, <1>1, <1>2
<1> QED BY <1>6, <1>7, <1>8, <1>9

\* What may run is well-formed.
LEMMA ProgramsWellFormed ==
  ASSUME NEW a \in Apps, NEW b \in Programs(a)
  PROVE  WellFormed(b)
<1>1. CASE a \in BpcPrograms
  BY <1>1 DEF BpcPrograms, Programs, WellFormed
<1>2. CASE a \in UtsPrograms
  <2>1. /\ a.prog = "uts" /\ a.kind \in Kinds /\ a.b_0 \in Nat /\ a.maxChildren \in Nat
        /\ a.strict \in BOOLEAN /\ a.inplace \in BOOLEAN
    BY <1>2 DEF UtsPrograms
  <2>2. PICK t \in Trees(a, TreeHeight) : b = [a EXCEPT !.tree = t]
    BY <2>1 DEF Programs
  <2>3. /\ b.prog = "uts" /\ b.kind = a.kind /\ b.strict = a.strict /\ b.inplace = a.inplace
        /\ b.tree = t
    BY <1>2, <2>1, <2>2 DEF UtsPrograms
  <2>4. /\ <<>> \in DOMAIN t
        /\ \A s \in DOMAIN t : /\ s \in Seq(Nat) /\ t[s] \in Nat
                               /\ \A c \in 0..(t[s] - 1) : s \o <<c>> \in DOMAIN t
    BY <2>1, TreesAreTrees, TreeHeightAssumption
  <2> QED BY <2>1, <2>3, <2>4, Zenon DEF WellFormed
<1>3. CASE a \in MadPrograms
  <2>1. PICK f : b = [a EXCEPT !.fine = f]
    BY <1>3 DEF MadPrograms, Programs
  <2> QED BY <1>3, <2>1 DEF MadPrograms, WellFormed
<1>4. CASE a \in TasksPrograms
  BY <1>4 DEF TasksPrograms, Programs, WellFormed
<1> QED BY <1>1, <1>2, <1>3, <1>4, AppsAssumption

-----------------------------------------------------------------------------
(***************************************************************************)
(* Steps.                                                                  *)
(***************************************************************************)
CollectiveOps == {"barrier", "alloc", "free", "reduce", "finalize"}

\* gtc_process is in one of these; the last is what `start` comes to.
LoopOps  == {"start", "get", "pop", "search", "copy"}
InitOps  == {"init", "implicit_init"}
SetupOps == InitOps \cup {"register", "clod_create", "configure", "associate", "class"}

\* What a task's body consists of, and what tasks are added by besides.
WorkOps  == {"create", "destroy", "inplace", "add", "fill", "progress", "sleep", "bump",
             "visit", "refine", "wipe"}
SeedOps  == WorkOps \cup {"seed", "create_tree"}
EndOps   == {"destroy", "evaluate", "print", "clod_destroy", "release"}

\* What the steps are about.
KeyList     == <<0, 1, 2>>
Classes(a)  == IF a.prog = "bpc" THEN {1, 2} ELSE {1}
NodeSet(a)  == IF a.prog = "uts" THEN DOMAIN a.tree ELSE {}
BoxSet(a)   == IF a.prog = "mad3d" THEN [level : Nat, at : [1..a.dims -> Nat]] ELSE {}
Bodies(a)   == CASE a.prog = "bpc"   -> [level : Nat, keys : {KeyList}]
                 [] a.prog = "uts"   -> [node : NodeSet(a), current_child : Nat]
                 [] a.prog = "mad3d" -> BoxSet(a)
                 [] a.prog = "tasks" -> Nat
Blocks      == {TdBlock, RingBlock, LockBlock, TcBlock, StatBlocks("queue"), StatBlocks("common")}

PlainSteps  == [op : LoopOps \cup InitOps
                     \cup {"register", "clod_create", "clod_destroy", "evaluate", "release",
                           "seed", "create_tree", "executed", "barrier", "finalize",
                           "progress", "sleep"}]
WorkSteps(a) == [op : {"create", "destroy"}, class : Classes(a)]
                \cup [op : {"inplace"}, class : {c \in Classes(a) : a.prog = "uts"}]
                \cup [op : {"add"}, class : Classes(a), body : Bodies(a)]
                \cup [op : {"fill"}, body : Bodies(a)]
                \cup [op : {"bump"}, keys : {k \in {<<0, 1>>, <<0, 2>>} : a.prog = "bpc"}]
                \cup [op : {"visit"}, node : NodeSet(a)]
                \cup [op : {"refine"}, kept : BOOLEAN, node : Seq(Nat), box : BoxSet(a)]
                \cup [op : {"wipe"}, node : Seq(Nat)]
FcnNames    == {"producer_task_fcn", "consumer_task_fcn", "strict_dfs_task_fcn", "task_fcn",
                "refine_task_wrapper"}
ObjectSet   == {"ntasks", "nproducers", "nconsumers"}
ReduceVars  == {<<>>, <<"tasks_completed">>, <<"ntasks", "nproducers", "nconsumers">>,
                <<"nNodes", "nLeaves">>, <<"maxDepth">>, <<"sleep_time">>}

OtherSteps  == [op : {"configure"}, cfg : {CfgInit}]
               \cup [op : {"associate"}, object : ObjectSet]
               \cup [op : {"class"}, fcn : FcnNames]
               \cup [op : {"alloc", "free"}, blocks : Blocks]
               \cup [op : {"reduce"}, fn : {"min", "max", "sum"}, vars : ReduceVars]
               \cup [op : {"print"}, what : {"my stats", "totals"}]

Steps(a)    == PlainSteps \cup WorkSteps(a) \cup OtherSteps

\* What a step is, by its name.
LEMMA StepFacts ==
  ASSUME NEW a, NEW x \in Steps(a)
  PROVE  /\ x.op \in {"create", "destroy", "inplace", "add"} => x.class \in Classes(a)
         /\ x.op = "inplace" => a.prog = "uts"
         /\ x.op \in {"add", "fill"} => x.body \in Bodies(a)
         /\ x.op = "bump" => a.prog = "bpc" /\ x.keys \in {<<0, 1>>, <<0, 2>>}
         /\ x.op = "visit" => x.node \in NodeSet(a)
         /\ x.op = "refine" => x.kept \in BOOLEAN /\ x.node \in Seq(Nat) /\ x.box \in BoxSet(a)
         /\ x.op = "wipe" => x.node \in Seq(Nat)
         /\ x.op = "configure" => x.cfg = CfgInit
         /\ x.op \in {"alloc", "free"} => x.blocks \in Blocks
         /\ x.op = "print" => x.what \in {"my stats", "totals"}
<1> HIDE DEF Classes, NodeSet, BoxSet, Bodies, Blocks
<1>1. CASE x \in PlainSteps
  BY <1>1 DEF PlainSteps, LoopOps, InitOps
<1>2. CASE x \in WorkSteps(a)
  BY <1>2 DEF WorkSteps
<1>3. CASE x \in OtherSteps
  BY <1>3 DEF OtherSteps
<1> QED BY <1>1, <1>2, <1>3 DEF Steps

-----------------------------------------------------------------------------
\* The names of the steps of s.
Ops(s) == {s[i].op : i \in DOMAIN s}

LEMMA OpsCat ==
  ASSUME NEW S, NEW s \in Seq(S), NEW t \in Seq(S)
  PROVE  Ops(Cat(s, t)) = Ops(s) \cup Ops(t)
<1> DEFINE u == s \o t
<1>1. /\ \A i \in DOMAIN u : \/ i \in DOMAIN s /\ u[i] = s[i]
                             \/ \E j \in DOMAIN t : i = Len(s) + j /\ u[i] = t[j]
      /\ \A i \in DOMAIN s : i \in DOMAIN u /\ u[i] = s[i]
      /\ \A j \in DOMAIN t : Len(s) + j \in DOMAIN u /\ u[Len(s) + j] = t[j]
  BY MemberOfConcat
<1> HIDE DEF u
<1>2. ASSUME NEW o \in Ops(u) PROVE o \in Ops(s) \cup Ops(t)
  BY <1>1 DEF Ops
<1>3. ASSUME NEW o \in Ops(s) PROVE o \in Ops(u)
  BY <1>1 DEF Ops
<1>4. ASSUME NEW o \in Ops(t) PROVE o \in Ops(u)
  BY <1>1 DEF Ops
<1> QED BY <1>2, <1>3, <1>4 DEF u, Cat

LEMMA OpsHead ==
  ASSUME NEW S, NEW s \in Seq(S), s # <<>>
  PROVE  Ops(s) = {Head(s).op} \cup Ops(Tail(s))
<1>1. /\ Tail(s) \in Seq(S) /\ Len(Tail(s)) = Len(s) - 1 /\ Len(s) \in Nat /\ Len(s) > 0
      /\ \A i \in 1..Len(Tail(s)) : Tail(s)[i] = s[i+1]
      /\ Head(s) = s[1]
  BY HeadTailProperties, LenProperties, EmptySeq
<1>2. DOMAIN s = 1..Len(s) /\ DOMAIN Tail(s) = 1..Len(Tail(s))
  BY <1>1, LenProperties
<1> DEFINE t == Tail(s)
<1> HIDE DEF t
<1>3. ASSUME NEW o \in Ops(s) PROVE o \in {Head(s).op} \cup Ops(t)
  <2>1. PICK i \in DOMAIN s : o = s[i].op
    BY DEF Ops
  <2>2. CASE i = 1
    BY <2>1, <2>2, <1>1
  <2>3. CASE i # 1
    <3>1. i - 1 \in DOMAIN t /\ t[i-1] = s[i]
      BY <2>3, <1>1, <1>2 DEF t
    <3> QED BY <3>1, <2>1 DEF Ops
  <2> QED BY <2>2, <2>3
<1>4. ASSUME NEW o \in Ops(t) PROVE o \in Ops(s)
  <2>1. PICK i \in DOMAIN t : o = t[i].op
    BY DEF Ops
  <2>2. i + 1 \in DOMAIN s /\ t[i] = s[i+1]
    BY <1>1, <1>2 DEF t
  <2> QED BY <2>1, <2>2 DEF Ops
<1>5. Head(s).op \in Ops(s)
  BY <1>1, <1>2 DEF Ops
<1> QED BY <1>3, <1>4, <1>5 DEF t

LEMMA OpsOfNothing ==
  Ops(<<>>) = {}
BY DEF Ops

LEMMA OpsJoined ==
  ASSUME NEW S, NEW O, NEW m \in Nat, NEW g \in [1..m -> Seq(S)],
         \A i \in 1..m : Ops(g[i]) \subseteq O
  PROVE  FlattenSeq(g) \in Seq(S) /\ Ops(FlattenSeq(g)) \subseteq O
<1> DEFINE Q == {s \in Seq(S) : Ops(s) \subseteq O}
<1>1. Joinable(Q, S)
  <2>1. <<>> \in Q
    <3>1. <<>> \in Seq(S)
      OBVIOUS
    <3> QED BY <3>1, OpsOfNothing
  <2>2. ASSUME NEW s \in Q, NEW t \in Q PROVE s \o t \in Q
    <3>1. s \in Seq(S) /\ t \in Seq(S) /\ Ops(s) \subseteq O /\ Ops(t) \subseteq O
      OBVIOUS
    <3>2. Cat(s, t) \in Seq(S) /\ Ops(Cat(s, t)) = Ops(s) \cup Ops(t)
      BY <3>1, CatType, OpsCat
    <3>3. Cat(s, t) \in Q
      BY <3>1, <3>2
    <3> QED BY <3>3, Zenon DEF Cat
  <2>3. Q \subseteq Seq(S)
    OBVIOUS
  <2> HIDE DEF Q
  <2> QED BY <2>1, <2>2, <2>3 DEF Joinable
<1>2. g \in [1..m -> Q]
  OBVIOUS
<1> HIDE DEF Q
<1>3. FlattenSeq(g) \in Q
  BY <1>1, <1>2, JoinedIn
<1> QED BY <1>3 DEF Q

\* Nothing is picked of the steps with other names.
LEMMA PickedOthers ==
  ASSUME NEW S, NEW s \in Seq(S), NEW ops, Ops(s) \cap ops = {}
  PROVE  Picked(s, ops) = <<>>
<1>1. \A i \in DOMAIN s : s[i].op \notin ops
  BY DEF Ops
<1> QED BY <1>1, PickedNone
-----------------------------------------------------------------------------
(***************************************************************************)
(* What may be said of the order of the steps in a sequence: each property *)
(* for what is left after the first, and for one call's steps followed by  *)
(* another's.                                                              *)
(***************************************************************************)
\* The members of a concatenation c and of a tail by their positions.
Concatenated(c, s, t) ==
  /\ Len(s) \in Nat /\ Len(t) \in Nat /\ Len(c) = Len(s) + Len(t)
  /\ DOMAIN s = 1..Len(s) /\ DOMAIN t = 1..Len(t) /\ DOMAIN c = 1..(Len(s) + Len(t))
  /\ \A i \in 1..Len(s) : c[i] = s[i]
  /\ \A i \in 1..Len(t) : c[Len(s) + i] = t[i]

LEMMA CatMembers ==
  ASSUME NEW S, NEW s \in Seq(S), NEW t \in Seq(S)
  PROVE  Cat(s, t) \in Seq(S) /\ Concatenated(Cat(s, t), s, t)
<1>1. /\ s \o t \in Seq(S) /\ Len(s \o t) = Len(s) + Len(t)
      /\ \A i \in 1..(Len(s) + Len(t)) :
           (s \o t)[i] = IF i <= Len(s) THEN s[i] ELSE t[i - Len(s)]
  BY ConcatProperties
<1> DEFINE u == s \o t  k == Len(s)  m == Len(t)
<1>2. k \in Nat /\ m \in Nat /\ DOMAIN s = 1..k /\ DOMAIN t = 1..m /\ DOMAIN u = 1..(k + m)
  BY <1>1, LenProperties
<1>3. /\ u \in Seq(S) /\ Len(u) = k + m
      /\ \A i \in 1..(k + m) : u[i] = IF i <= k THEN s[i] ELSE t[i - k]
  BY <1>1
<1> HIDE DEF u, k, m
<1>4. (\A i \in 1..k : u[i] = s[i]) /\ \A i \in 1..m : u[k + i] = t[i]
  <2>1. ASSUME NEW i \in 1..m PROVE u[k + i] = t[i]
    <3>1. k + i \in 1..(k + m) /\ ~(k + i <= k) /\ (k + i) - k = i
      BY <1>2
    <3> QED BY <3>1, <1>3
  <2> QED BY <2>1, <1>2, <1>3
<1>5. Concatenated(u, s, t)
  BY <1>2, <1>3, <1>4 DEF k, m, Concatenated
<1> QED BY <1>3, <1>5 DEF u, Cat

LEMMA TailMembers ==
  ASSUME NEW S, NEW s \in Seq(S), s # <<>>
  PROVE  /\ Len(s) \in Nat \ {0} /\ Tail(s) \in Seq(S) /\ Len(Tail(s)) = Len(s) - 1
         /\ DOMAIN s = 1..Len(s) /\ DOMAIN Tail(s) = 1..(Len(s) - 1)
         /\ Head(s) = s[1] /\ \A i \in 1..(Len(s) - 1) : Tail(s)[i] = s[i+1]
BY HeadTailProperties, LenProperties, EmptySeq

-----------------------------------------------------------------------------
(***************************************************************************)
(* Runs: s takes what it is a run of from g to h by steps in D.            *)
(***************************************************************************)
Runs(D, s, f) == \A i \in 1..Len(s) : <<f[i-1], s[i], f[i]>> \in D

Path(D, s, g, h) == \E f : f[0] = g /\ f[Len(s)] = h /\ Runs(D, s, f)

LEMMA PathNothing ==
  ASSUME NEW D, NEW g
  PROVE  Path(D, <<>>, g, g) /\ \A h : Path(D, <<>>, g, h) => g = h
<1>1. Len(<<>>) = 0
  OBVIOUS
<1>2. Runs(D, <<>>, [i \in {0} |-> g])
  BY DEF Runs
<1>3. [i \in {0} |-> g][0] = g
  OBVIOUS
<1> QED BY <1>1, <1>2, <1>3 DEF Path

LEMMA PathCat ==
  ASSUME NEW S, NEW s \in Seq(S), NEW t \in Seq(S), NEW D, NEW g, NEW h, NEW k,
         Path(D, s, g, h), Path(D, t, h, k)
  PROVE  Path(D, Cat(s, t), g, k)
<1>1. PICK e : e[0] = g /\ e[Len(s)] = h /\ Runs(D, s, e)
  BY DEF Path
<1>2. PICK f : f[0] = h /\ f[Len(t)] = k /\ Runs(D, t, f)
  BY DEF Path
<1> DEFINE c == Cat(s, t)  m == Len(s)  n == Len(t)
           u == [i \in 0..(m + n) |-> IF i <= m THEN e[i] ELSE f[i - m]]
<1>3. c \in Seq(S) /\ Concatenated(c, s, t)
  BY CatMembers
<1>4. /\ m \in Nat /\ n \in Nat /\ Len(c) = m + n
      /\ \A i \in 1..m : c[i] = s[i]
      /\ \A i \in 1..n : c[m + i] = t[i]
  <2> HIDE DEF c
  <2> QED BY <1>3 DEF Concatenated
<1>5. \A i \in 0..m : u[i] = e[i]
  <2> HIDE DEF c, m, n
  <2> QED BY <1>4
<1>6. \A i \in 0..n : u[m + i] = f[i]
  <2> HIDE DEF c, m, n
  <2> TAKE i \in 0..n
  <2>1. m + i \in 0..(m + n) /\ (m + i) - m = i /\ (m + i <= m => i = 0)
    BY <1>4
  <2>2. i = 0 => e[m + i] = f[i]
    BY <1>1, <1>2, <1>4 DEF m
  <2> QED BY <2>1, <2>2
<1>7. Runs(D, s, e) <=> \A i \in 1..m : <<e[i-1], s[i], e[i]>> \in D
  BY DEF Runs
<1>8. Runs(D, t, f) <=> \A i \in 1..n : <<f[i-1], t[i], f[i]>> \in D
  BY DEF Runs
<1>9. Runs(D, c, u) <=> \A i \in 1..Len(c) : <<u[i-1], c[i], u[i]>> \in D
  BY DEF Runs
<1>h. e[m] = h /\ f[n] = k
  BY <1>1, <1>2
<1> HIDE DEF c, m, n, u
<1>10. Runs(D, c, u)
  <2> SUFFICES ASSUME NEW i \in 1..(m + n) PROVE <<u[i-1], c[i], u[i]>> \in D
    BY <1>9, <1>4
  <2>1. CASE i <= m
    <3>1. i \in 1..m /\ i - 1 \in 0..m /\ i \in 0..m
      BY <2>1, <1>4
    <3> QED BY <3>1, <1>1, <1>7, <1>4, <1>5
  <2>2. CASE i > m
    <3>1. i - m \in 1..n /\ m + (i - m) = i /\ i - m \in 0..n /\ (i - m) - 1 \in 0..n
          /\ m + ((i - m) - 1) = i - 1
      BY <2>2, <1>4
    <3>2. u[m + (i - m)] = f[i - m] /\ u[m + ((i - m) - 1)] = f[(i - m) - 1] /\ c[m + (i - m)] = t[i - m]
      BY <3>1, <1>4, <1>6
    <3>3. u[i] = f[i - m] /\ u[i - 1] = f[(i - m) - 1] /\ c[i] = t[i - m]
      BY <3>1, <3>2
    <3>4. <<f[(i - m) - 1], t[i - m], f[i - m]>> \in D
      BY <3>1, <1>2, <1>8
    <3> QED BY <3>3, <3>4
  <2> QED BY <2>1, <2>2, <1>4
<1>11. u[0] = g /\ u[Len(c)] = k
  <2>1. 0 \in 0..m /\ n \in 0..n
    BY <1>4
  <2>2. u[0] = e[0] /\ u[m + n] = f[n]
    BY <2>1, <1>5, <1>6
  <2> QED BY <2>2, <1>1, <1>h, <1>4
<1> QED BY <1>10, <1>11 DEF Path, c

\* The first step of a run and the rest of it.
LEMMA PathHead ==
  ASSUME NEW S, NEW s \in Seq(S), s # <<>>, NEW D, NEW g, NEW h, Path(D, s, g, h)
  PROVE  \E k : <<g, Head(s), k>> \in D /\ Path(D, Tail(s), k, h)
<1>1. PICK f : f[0] = g /\ f[Len(s)] = h /\ Runs(D, s, f)
  BY DEF Path
<1> DEFINE t == Tail(s)  m == Len(s)  e == [i \in 0..(m - 1) |-> f[i + 1]]
<1>2. /\ m \in Nat \ {0} /\ Len(t) = m - 1 /\ s[1] = Head(s)
      /\ \A i \in 1..(m - 1) : t[i] = s[i+1]
  BY TailMembers
<1>3. \A i \in 1..m : <<f[i-1], s[i], f[i]>> \in D
  BY <1>1 DEF Runs
<1>m. f[m] = h
  BY <1>1
<1> HIDE DEF t, m
<1>4. <<g, Head(s), f[1]>> \in D
  <2>1. 1 \in 1..m /\ 1 - 1 = 0
    BY <1>2
  <2>2. <<f[1-1], s[1], f[1]>> \in D
    BY <2>1, <1>3
  <2> QED BY <2>1, <2>2, <1>1, <1>2
<1>5. e[0] = f[1] /\ e[Len(t)] = h
  <2>1. 0 \in 0..(m-1) /\ m - 1 \in 0..(m-1) /\ (m - 1) + 1 = m /\ 0 + 1 = 1
    BY <1>2
  <2> QED BY <2>1, <1>2, <1>m
<1>6. Runs(D, t, e)
  <2> SUFFICES ASSUME NEW i \in 1..(m-1) PROVE <<e[i-1], t[i], e[i]>> \in D
    BY <1>2 DEF Runs
  <2>1. i + 1 \in 1..m /\ (i + 1) - 1 = i /\ i - 1 \in 0..(m-1) /\ (i - 1) + 1 = i /\ i \in 0..(m-1)
    BY <1>2
  <2>2. e[i-1] = f[i] /\ e[i] = f[i+1] /\ t[i] = s[i+1]
    BY <2>1, <1>2
  <2>3. <<f[(i+1)-1], s[i+1], f[i+1]>> \in D
    BY <2>1, <1>3
  <2> QED BY <2>1, <2>2, <2>3
<1> HIDE DEF e
<1>7. Path(D, t, f[1], h)
  BY <1>5, <1>6 DEF Path
<1> QED BY <1>4, <1>7 DEF t

LEMMA PathOne ==
  ASSUME NEW D, NEW x, NEW g, NEW h, <<g, x, h>> \in D
  PROVE  Path(D, <<x>>, g, h)
<1> DEFINE f == [i \in 0..1 |-> IF i = 0 THEN g ELSE h]
<1>1. f[0] = g /\ f[1] = h /\ Len(<<x>>) = 1 /\ <<x>>[1] = x
  OBVIOUS
<1> HIDE DEF f
<1>2. Runs(D, <<x>>, f)
  <2> SUFFICES ASSUME NEW i \in 1..1 PROVE <<f[i-1], <<x>>[i], f[i]>> \in D
    BY <1>1 DEF Runs
  <2>1. i = 1 /\ i - 1 = 0
    OBVIOUS
  <2> QED BY <2>1, <1>1
<1> QED BY <1>1, <1>2 DEF Path

LEMMA CatTwo ==
  ASSUME NEW x, NEW y
  PROVE  Cat(<<x>>, <<y>>) = <<x, y>>
<1> DEFINE S == {x, y}  u == <<x>>  v == <<y>>  w == <<x, y>>
<1>1. u \in Seq(S) /\ v \in Seq(S)
  OBVIOUS
<1>2. Cat(u, v) \in Seq(S) /\ Concatenated(Cat(u, v), u, v)
  <2> HIDE DEF u, v, S
  <2> QED BY <1>1, CatMembers
<1>3. w \in Seq(S) /\ Len(u) = 1 /\ Len(v) = 1 /\ Len(w) = 2 /\ w[1] = u[1] /\ w[2] = v[1]
  OBVIOUS
<1> DEFINE c == Cat(u, v)
<1> HIDE DEF u, v, w, c, S
<1>4. Len(c) = 2 /\ c[1] = u[1] /\ c[1 + 1] = v[1]
  BY <1>2, <1>3 DEF c, Concatenated
<1>5. \A i \in 1..2 : c[i] = w[i]
  BY <1>3, <1>4
<1>6. c = w
  BY <1>2, <1>3, <1>4, <1>5, SeqEqual DEF c
<1> QED BY <1>6 DEF u, v, w, c

LEMMA CatThree ==
  ASSUME NEW x, NEW y, NEW z
  PROVE  Cat(<<x>>, <<y, z>>) = <<x, y, z>>
<1> DEFINE S == {x, y, z}  u == <<x>>  v == <<y, z>>  w == <<x, y, z>>
<1>1. u \in Seq(S) /\ v \in Seq(S)
  OBVIOUS
<1>2. Cat(u, v) \in Seq(S) /\ Concatenated(Cat(u, v), u, v)
  <2> HIDE DEF u, v, S
  <2> QED BY <1>1, CatMembers
<1>3. /\ w \in Seq(S) /\ Len(u) = 1 /\ Len(v) = 2 /\ Len(w) = 3
      /\ w[1] = u[1] /\ w[2] = v[1] /\ w[3] = v[2]
  OBVIOUS
<1> DEFINE c == Cat(u, v)
<1> HIDE DEF u, v, w, c, S
<1>4. Len(c) = 3 /\ c[1] = u[1] /\ c[1 + 1] = v[1] /\ c[1 + 2] = v[2]
  BY <1>2, <1>3 DEF c, Concatenated
<1>5. \A i \in 1..3 : c[i] = w[i]
  BY <1>3, <1>4
<1>6. c = w
  BY <1>2, <1>3, <1>4, <1>5, SeqEqual DEF c
<1> QED BY <1>6 DEF u, v, w, c

LEMMA CatFour ==
  ASSUME NEW x, NEW y, NEW z, NEW o
  PROVE  Cat(<<x, y, z>>, <<o>>) = <<x, y, z, o>>
<1> DEFINE S == {x, y, z, o}  u == <<x, y, z>>  v == <<o>>  w == <<x, y, z, o>>
<1>1. u \in Seq(S) /\ v \in Seq(S)
  OBVIOUS
<1>2. Cat(u, v) \in Seq(S) /\ Concatenated(Cat(u, v), u, v)
  <2> HIDE DEF u, v, S
  <2> QED BY <1>1, CatMembers
<1>3. /\ w \in Seq(S) /\ Len(u) = 3 /\ Len(v) = 1 /\ Len(w) = 4
      /\ w[1] = u[1] /\ w[2] = u[2] /\ w[3] = u[3] /\ w[4] = v[1]
  OBVIOUS
<1> DEFINE c == Cat(u, v)
<1> HIDE DEF u, v, w, c, S
<1>4. Len(c) = 4 /\ c[1] = u[1] /\ c[2] = u[2] /\ c[3] = u[3] /\ c[3 + 1] = v[1]
  BY <1>2, <1>3 DEF c, Concatenated
<1>5. \A i \in 1..4 : c[i] = w[i]
  BY <1>3, <1>4
<1>6. c = w
  BY <1>2, <1>3, <1>4, <1>5, SeqEqual DEF c
<1> QED BY <1>6 DEF u, v, w, c

LEMMA PathTwo ==
  ASSUME NEW D, NEW x, NEW y, NEW g, NEW h, NEW k, <<g, x, h>> \in D, <<h, y, k>> \in D
  PROVE  Path(D, <<x, y>>, g, k)
<1> DEFINE S == {x, y}
<1>1. Path(D, <<x>>, g, h) /\ Path(D, <<y>>, h, k)
  BY PathOne
<1>2. <<x>> \in Seq(S) /\ <<y>> \in Seq(S)
  OBVIOUS
<1> HIDE DEF S
<1>3. Path(D, Cat(<<x>>, <<y>>), g, k)
  BY <1>1, <1>2, PathCat
<1>4. <<x, y>> = Cat(<<x>>, <<y>>)
  BY CatTwo
<1> QED BY <1>3, <1>4

LEMMA PathThree ==
  ASSUME NEW D, NEW x, NEW y, NEW z, NEW g, NEW h, NEW k, NEW l,
         <<g, x, h>> \in D, <<h, y, k>> \in D, <<k, z, l>> \in D
  PROVE  Path(D, <<x, y, z>>, g, l)
<1> DEFINE S == {x, y, z}
<1>1. Path(D, <<x>>, g, h) /\ Path(D, <<y, z>>, h, l)
  BY PathOne, PathTwo
<1>2. <<x>> \in Seq(S) /\ <<y, z>> \in Seq(S)
  OBVIOUS
<1> HIDE DEF S
<1>3. Path(D, Cat(<<x>>, <<y, z>>), g, l)
  BY <1>1, <1>2, PathCat
<1>4. <<x, y, z>> = Cat(<<x>>, <<y, z>>)
  BY CatThree
<1> QED BY <1>3, <1>4

LEMMA PathFour ==
  ASSUME NEW D, NEW w, NEW x, NEW y, NEW z, NEW f, NEW g, NEW h, NEW k, NEW l,
         <<f, w, g>> \in D, <<g, x, h>> \in D, <<h, y, k>> \in D, <<k, z, l>> \in D
  PROVE  Path(D, <<w, x, y, z>>, f, l)
<1> DEFINE S == {w, x, y, z}
<1>1. Path(D, <<w>>, f, g) /\ Path(D, <<x, y, z>>, g, l)
  BY PathOne, PathThree
<1>2. <<w>> \in Seq(S) /\ <<x, y, z>> \in Seq(S)
  OBVIOUS
<1> HIDE DEF S
<1>3. Path(D, Cat(<<w>>, <<x, y, z>>), f, l)
  BY <1>1, <1>2, PathCat
<1>4. <<w, x, y, z>> = Cat(<<w>>, <<x, y, z>>)
  BY DEF Cat
<1> QED BY <1>3, <1>4

\* What leads back to where it began may be repeated.
LEMMA PathJoined ==
  ASSUME NEW S, NEW D, NEW h, NEW m \in Nat, NEW g \in [1..m -> Seq(S)],
         \A i \in 1..m : Path(D, g[i], h, h)
  PROVE  FlattenSeq(g) \in Seq(S) /\ Path(D, FlattenSeq(g), h, h)
<1> DEFINE Q == {s \in Seq(S) : Path(D, s, h, h)}
<1>1. Joinable(Q, S)
  <2>1. <<>> \in Q
    <3>1. <<>> \in Seq(S)
      OBVIOUS
    <3> QED BY <3>1, PathNothing
  <2>2. ASSUME NEW s \in Q, NEW t \in Q PROVE s \o t \in Q
    <3>1. s \in Seq(S) /\ t \in Seq(S) /\ Path(D, s, h, h) /\ Path(D, t, h, h)
      OBVIOUS
    <3>2. Cat(s, t) \in Seq(S) /\ Path(D, Cat(s, t), h, h)
      BY <3>1, CatType, PathCat
    <3>3. Cat(s, t) \in Q
      BY <3>2
    <3> QED BY <3>3, Zenon DEF Cat
  <2>3. Q \subseteq Seq(S)
    OBVIOUS
  <2> HIDE DEF Q
  <2> QED BY <2>1, <2>2, <2>3 DEF Joinable
<1>2. g \in [1..m -> Q]
  OBVIOUS
<1> HIDE DEF Q
<1>3. FlattenSeq(g) \in Q
  BY <1>1, <1>2, JoinedIn
<1> QED BY <1>3 DEF Q
-----------------------------------------------------------------------------
(***************************************************************************)
(* What the library asks of a program: the order of a process's calls, as  *)
(* the places in the program that they lead through.  A place's phase is   *)
(*   0  before gtc_init                    5  executing a task             *)
(*   1  initialised                        6  in gtc_process, between tasks*)
(*   2  in gtc_create                      7  gtc_process has returned     *)
(*   3  the collection has its handle      8  the clod is destroyed        *)
(*   4  the collection is there: classes   9  the handle is released       *)
(*      and objects are registered, tasks 10  finalised                    *)
(*      are seeded                                                         *)
(* and besides it has the numbers of classes and objects registered, of    *)
(* descriptors in use and of collectives done, whether the head of the     *)
(* queue is blank, the blocks of symmetric memory in use, what statistics  *)
(* the process has printed, and whether it has planted Madness's tree.     *)
(***************************************************************************)
Places == [ph : 0..10, classes : Nat, objects : Nat, depth : Nat, count : Nat,
           blank : BOOLEAN, blocks : SUBSET Blocks, mine : BOOLEAN, totals : BOOLEAN,
           planted : BOOLEAN]

ClassNames(a) == CASE a.prog = "bpc"   -> <<"producer_task_fcn", "consumer_task_fcn">>
                   [] a.prog = "uts"   -> <<IF a.strict THEN "strict_dfs_task_fcn" ELSE "task_fcn">>
                   [] a.prog = "mad3d" -> <<"refine_task_wrapper">>
                   [] a.prog = "tasks" -> <<"task_fcn">>

ObjectNames(a) == IF a.prog = "bpc" THEN <<"ntasks", "nproducers", "nconsumers">> ELSE <<>>

\* Everything is registered.
Complete(a, g) == g.classes = Len(ClassNames(a)) /\ g.objects = Len(ObjectNames(a))

\* How many collectives come before gtc_process begins, and before the first of the
\* barriers between which processes print their statistics.
Entry(a) == IF a.prog \in {"bpc", "tasks"} THEN 9 ELSE 11
Turns(a) == Entry(a) + 2

Mine(x)       == x.op = "print" /\ x.what = "my stats"
TotalsStep(x) == x.op = "print" /\ x.what = "totals"

\* May process p take step x at place g?
Permits(a, p, g, x) ==
  LET o == x.op IN
  /\ g.blank <=> o = "fill"
  /\ o = "init"          => g.ph = 0 /\ a.prog # "tasks"
  /\ o = "implicit_init" => g.ph = IF a.prog = "tasks" THEN 0 ELSE 1
  /\ o = "register"      => g.ph = 2
  /\ o = "clod_create"   => g.ph = 3
  /\ o = "configure"     => g.ph = 4
  /\ o = "associate" => /\ g.ph = 4 /\ g.objects < Len(ObjectNames(a))
                        /\ x.object = ObjectNames(a)[g.objects + 1]
  /\ o = "class" => /\ g.ph \in 1..4 /\ g.classes < Len(ClassNames(a))
                    /\ x.fcn = ClassNames(a)[g.classes + 1]
  /\ o \in SeedOps => \/ g.ph = 4 /\ Complete(a, g) /\ g.count < Entry(a)
                      \/ g.ph = 5 /\ o \in WorkOps
                      \/ g.ph = 7 /\ o = "destroy"
  /\ o = "destroy"  => g.depth > 0
  /\ o = "seed"              => a.prog = "bpc"
  /\ o = "create_tree"       => ~g.planted
  /\ o = "refine" /\ x.kept  => g.planted
  /\ o = "executed" => g.ph = 5
  /\ o = "start"    => g.ph = 4 /\ Complete(a, g) /\ g.count = Entry(a)
  /\ o \in LoopOps \ {"start"}      => g.ph = 6
  /\ o \in {"evaluate", "print"}    => g.ph = 7
  /\ Mine(x)       => a.prog = "tasks" /\ ~g.mine /\ g.count = Turns(a) + p
  /\ TotalsStep(x) => p = 0 /\ ~g.totals /\ (a.prog = "tasks" => g.count > Turns(a) + N)
  /\ o = "clod_destroy" => g.ph = 7 /\ g.count > Entry(a)
  /\ o = "release"      => g.ph = 8
  /\ o = "finalize"     => g.ph = 9
  /\ o \in CollectiveOps => g.ph \in {1, 2, 3, 4, 7, 8, 9} /\ (g.ph < 5 => g.count < Entry(a))

PhaseAfter(ph, o) == CASE o = "init"          -> 1
                       [] o = "implicit_init" -> 2
                       [] o = "register"      -> 3
                       [] o = "clod_create"   -> 4
                       [] o = "executed"      -> 6
                       [] o \in LoopOps       -> 7
                       [] o = "clod_destroy"  -> 8
                       [] o = "release"       -> 9
                       [] o = "finalize"      -> 10
                       [] OTHER               -> ph

\* Step x takes process p from place g to place h.
Moves(a, p, g, x, h) ==
  /\ Permits(a, p, g, x)
  /\ h.ph      = PhaseAfter(g.ph, x.op)
  /\ h.classes = IF x.op = "class" THEN g.classes + 1 ELSE g.classes
  /\ h.objects = IF x.op = "associate" THEN g.objects + 1 ELSE g.objects
  /\ h.depth   = CASE x.op = "create" -> g.depth + 1 [] x.op = "destroy" -> g.depth - 1
                   [] OTHER -> g.depth
  /\ h.count   = IF x.op \in CollectiveOps THEN g.count + 1 ELSE g.count
  /\ h.blank   <=> x.op = "inplace"
  /\ h.blocks  = CASE x.op = "alloc" -> g.blocks \cup {x.blocks}
                   [] x.op = "free" -> g.blocks \ {x.blocks}
                   [] OTHER -> g.blocks
  /\ h.mine    <=> g.mine \/ Mine(x)
  /\ h.totals  <=> g.totals \/ TotalsStep(x)
  /\ h.planted <=> g.planted \/ x.op = "create_tree"

Protocol(a, p) ==
  {m \in Places \X Steps(a) \X Places : Moves(a, p, m[1], m[2], m[3])}

Beginning == [ph |-> 0, classes |-> 0, objects |-> 0, depth |-> 0, count |-> 0,
              blank |-> FALSE, blocks |-> {}, mine |-> FALSE, totals |-> FALSE,
              planted |-> FALSE]

\* At the end nothing is in use any more but the array of the ring's lock.
Ending(h) == h.ph = 10 /\ h.depth = 0 /\ h.blocks = {LockBlock}

\* Where tasks are added: in another, or by the program beforehand.
Working(a, g) == /\ g \in Places /\ ~g.blank
                 /\ \/ g.ph = 5
                    \/ g.ph = 4 /\ Complete(a, g) /\ g.count < Entry(a)
-----------------------------------------------------------------------------
(***************************************************************************)
(* Single steps.                                                           *)
(***************************************************************************)
\* Where a collective may be called.
AtCollective(a, g) == /\ g \in Places /\ ~g.blank /\ g.ph \in {1, 2, 3, 4, 7, 8, 9}
                      /\ g.ph < 5 => g.count < Entry(a)

LEMMA BarrierMove ==
  ASSUME NEW a, NEW p, NEW g, AtCollective(a, g), NEW x \in Steps(a),
         x.op \in {"barrier", "reduce"}
  PROVE  /\ <<g, x, [g EXCEPT !.count = @ + 1]>> \in Protocol(a, p)
         /\ [g EXCEPT !.count = @ + 1] \in Places
<1> DEFINE h == [g EXCEPT !.count = @ + 1]
<1>1. g \in Places /\ h \in Places
  BY DEF AtCollective, Places
<1>2. Permits(a, p, g, x)
  BY DEF AtCollective, Permits, Mine, TotalsStep, SeedOps, WorkOps, LoopOps, CollectiveOps
<1>3. /\ h.ph = g.ph /\ h.classes = g.classes /\ h.objects = g.objects /\ h.depth = g.depth
      /\ h.count = g.count + 1 /\ h.blank = FALSE /\ h.blocks = g.blocks
      /\ h.mine = g.mine /\ h.totals = g.totals /\ h.planted = g.planted
  BY DEF AtCollective, Places
<1>4. g.mine \in BOOLEAN /\ g.totals \in BOOLEAN /\ g.planted \in BOOLEAN
  BY <1>1 DEF Places
<1> HIDE DEF h
<1>5. Moves(a, p, g, x, h)
  BY <1>2, <1>3, <1>4 DEF Moves, PhaseAfter, LoopOps, CollectiveOps, Mine, TotalsStep
<1> QED BY <1>1, <1>5 DEF Protocol, h

LEMMA AllocMove ==
  ASSUME NEW a, NEW p, NEW g, AtCollective(a, g), NEW b \in Blocks
  PROVE  LET h == [g EXCEPT !.count = @ + 1, !.blocks = @ \cup {b}]
         IN  <<g, Alloc(b), h>> \in Protocol(a, p) /\ h \in Places
<1> DEFINE h == [g EXCEPT !.count = @ + 1, !.blocks = @ \cup {b}]  x == Alloc(b)
<1>1. g \in Places /\ h \in Places
  <2> HIDE DEF x
  <2>1. g \in Places /\ g.count + 1 \in Nat
    BY DEF AtCollective, Places
  <2>2. g.blocks \cup {b} \in SUBSET Blocks
    BY <2>1 DEF Places
  <2>3. [g EXCEPT !.count = @ + 1] \in Places
    BY <2>1 DEF Places
  <2> DEFINE k == [g EXCEPT !.count = @ + 1]  bs == g.blocks \cup {b}
  <2>4. h = [k EXCEPT !.blocks = bs]
    BY <2>1 DEF Places
  <2> HIDE DEF k, bs, h
  <2>5. h \in Places
    BY <2>2, <2>3, <2>4 DEF Places, k, bs
  <2> QED BY <2>1, <2>5
<1>x. x \in Steps(a) /\ x.op = "alloc" /\ x.blocks = b
  BY DEF Alloc, Steps, OtherSteps
<1> HIDE DEF x
<1>2. Permits(a, p, g, x)
  BY <1>x DEF AtCollective, Permits, Mine, TotalsStep, SeedOps, WorkOps, LoopOps, CollectiveOps
<1>3. /\ h.ph = g.ph /\ h.classes = g.classes /\ h.objects = g.objects /\ h.depth = g.depth
      /\ h.count = g.count + 1 /\ h.blank = FALSE /\ h.blocks = g.blocks \cup {b}
      /\ h.mine = g.mine /\ h.totals = g.totals /\ h.planted = g.planted
  BY DEF AtCollective, Places
<1>4. g.mine \in BOOLEAN /\ g.totals \in BOOLEAN /\ g.planted \in BOOLEAN
  BY <1>1 DEF Places
<1> HIDE DEF h
<1>5. Moves(a, p, g, x, h)
  BY <1>2, <1>3, <1>4, <1>x DEF Moves, PhaseAfter, LoopOps, CollectiveOps, Mine, TotalsStep
<1> QED BY <1>1, <1>5, <1>x DEF Protocol, h, x

LEMMA FreeMove ==
  ASSUME NEW a, NEW p, NEW g, AtCollective(a, g), NEW b \in Blocks
  PROVE  LET h == [g EXCEPT !.count = @ + 1, !.blocks = @ \ {b}]
         IN  <<g, Free(b), h>> \in Protocol(a, p) /\ h \in Places
<1> DEFINE h == [g EXCEPT !.count = @ + 1, !.blocks = @ \ {b}]  x == Free(b)
<1>1. g \in Places /\ h \in Places
  <2> HIDE DEF x
  <2>1. g \in Places /\ g.count + 1 \in Nat
    BY DEF AtCollective, Places
  <2>2. g.blocks \ {b} \in SUBSET Blocks
    BY <2>1 DEF Places
  <2>3. [g EXCEPT !.count = @ + 1] \in Places
    BY <2>1 DEF Places
  <2> DEFINE k == [g EXCEPT !.count = @ + 1]  bs == g.blocks \ {b}
  <2>4. h = [k EXCEPT !.blocks = bs]
    BY <2>1 DEF Places
  <2> HIDE DEF k, bs, h
  <2>5. h \in Places
    BY <2>2, <2>3, <2>4 DEF Places, k, bs
  <2> QED BY <2>1, <2>5
<1>x. x \in Steps(a) /\ x.op = "free" /\ x.blocks = b
  BY DEF Free, Steps, OtherSteps
<1> HIDE DEF x
<1>2. Permits(a, p, g, x)
  BY <1>x DEF AtCollective, Permits, Mine, TotalsStep, SeedOps, WorkOps, LoopOps, CollectiveOps
<1>3. /\ h.ph = g.ph /\ h.classes = g.classes /\ h.objects = g.objects /\ h.depth = g.depth
      /\ h.count = g.count + 1 /\ h.blank = FALSE /\ h.blocks = g.blocks \ {b}
      /\ h.mine = g.mine /\ h.totals = g.totals /\ h.planted = g.planted
  BY DEF AtCollective, Places
<1>4. g.mine \in BOOLEAN /\ g.totals \in BOOLEAN /\ g.planted \in BOOLEAN
  BY <1>1 DEF Places
<1> HIDE DEF h
<1>5. Moves(a, p, g, x, h)
  BY <1>2, <1>3, <1>4, <1>x DEF Moves, PhaseAfter, LoopOps, CollectiveOps, Mine, TotalsStep
<1> QED BY <1>1, <1>5, <1>x DEF Protocol, h, x

\* A step that leads to another phase and changes nothing besides.
PhaseOps == InitOps \cup LoopOps
            \cup {"register", "clod_create", "configure", "evaluate", "executed",
                  "clod_destroy", "release"}

LEMMA PhaseMove ==
  ASSUME NEW a, NEW p, NEW g \in Places, NEW x \in Steps(a), x.op \in PhaseOps,
         Permits(a, p, g, x)
  PROVE  LET h == [g EXCEPT !.ph = PhaseAfter(@, x.op)]
         IN  <<g, x, h>> \in Protocol(a, p) /\ h \in Places
<1> DEFINE h == [g EXCEPT !.ph = PhaseAfter(@, x.op)]
<1>0. g.ph \in 0..10 /\ g.mine \in BOOLEAN /\ g.totals \in BOOLEAN /\ g.planted \in BOOLEAN /\ g.blank \in BOOLEAN
  BY DEF Places
<1>1. PhaseAfter(g.ph, x.op) \in 0..10
  BY <1>0 DEF PhaseAfter
<1>2. h \in Places
  BY <1>1 DEF Places
<1>3. /\ h.ph = PhaseAfter(g.ph, x.op) /\ h.classes = g.classes /\ h.objects = g.objects
      /\ h.depth = g.depth /\ h.count = g.count /\ h.blank = g.blank /\ h.blocks = g.blocks
      /\ h.mine = g.mine /\ h.totals = g.totals /\ h.planted = g.planted
  BY DEF Places
<1>4. g.blank = FALSE
  BY <1>0 DEF Permits, PhaseOps, InitOps, LoopOps
<1> HIDE DEF h
<1>5. Moves(a, p, g, x, h)
  BY <1>0, <1>3, <1>4 DEF Moves, PhaseOps, InitOps, LoopOps, CollectiveOps, Mine, TotalsStep
<1> QED BY <1>2, <1>5 DEF Protocol, h

\* A step of a task's body, or of seeding, after which all is as before.
PlainWorkOps == {"add", "progress", "sleep", "bump", "visit", "refine", "wipe"}

LEMMA WorkMove ==
  ASSUME NEW a, NEW p, NEW g, NEW x \in Steps(a),
         \/ Working(a, g) /\ x.op \in PlainWorkOps /\ (x.op = "refine" /\ x.kept => g.planted)
         \/ Working(a, g) /\ g.ph = 4 /\ x.op = "seed" /\ a.prog = "bpc"
  PROVE  <<g, x, g>> \in Protocol(a, p)
<1>0. g \in Places /\ g.blank = FALSE /\ g.mine \in BOOLEAN /\ g.totals \in BOOLEAN /\ g.planted \in BOOLEAN
  BY DEF Working, Places
<1>2. Permits(a, p, g, x)
  <2>1. CASE Working(a, g) /\ x.op \in PlainWorkOps /\ (x.op = "refine" /\ x.kept => g.planted)
    BY <2>1, <1>0 DEF Working, PlainWorkOps, Permits, Mine, TotalsStep, SeedOps, WorkOps, LoopOps, CollectiveOps
  <2>2. CASE Working(a, g) /\ g.ph = 4 /\ x.op = "seed" /\ a.prog = "bpc"
    BY <2>2, <1>0 DEF Working, Permits, Mine, TotalsStep, SeedOps, WorkOps, LoopOps, CollectiveOps
  <2> QED BY <2>1, <2>2
<1>3. PhaseAfter(g.ph, x.op) = g.ph
  BY DEF PlainWorkOps, PhaseAfter, LoopOps
<1>5. Moves(a, p, g, x, g)
  BY <1>0, <1>2, <1>3 DEF Moves, PlainWorkOps, CollectiveOps, Mine, TotalsStep
<1> QED BY <1>0, <1>5 DEF Protocol

LEMMA PlantMove ==
  ASSUME NEW a, NEW p, NEW g, Working(a, g), g.ph = 4, ~g.planted
  PROVE  LET h == [g EXCEPT !.planted = TRUE]
         IN  <<g, Step("create_tree"), h>> \in Protocol(a, p) /\ h \in Places
<1> DEFINE h == [g EXCEPT !.planted = TRUE]  x == Step("create_tree")
<1>0. g \in Places /\ g.blank = FALSE /\ g.mine \in BOOLEAN /\ g.totals \in BOOLEAN
  BY DEF Working, Places
<1>1. h \in Places
  BY <1>0 DEF Places
<1>x. x \in Steps(a) /\ x.op = "create_tree"
  BY DEF Step, Steps, PlainSteps
<1> HIDE DEF x
<1>2. Permits(a, p, g, x)
  BY <1>x, <1>0 DEF Working, Permits, Mine, TotalsStep, SeedOps, WorkOps, LoopOps, CollectiveOps
<1>3. /\ h.ph = g.ph /\ h.classes = g.classes /\ h.objects = g.objects /\ h.depth = g.depth
      /\ h.count = g.count /\ h.blank = FALSE /\ h.blocks = g.blocks
      /\ h.mine = g.mine /\ h.totals = g.totals /\ h.planted = TRUE
  BY <1>0 DEF Places
<1> HIDE DEF h
<1>5. Moves(a, p, g, x, h)
  BY <1>0, <1>2, <1>3, <1>x DEF Moves, PhaseAfter, LoopOps, CollectiveOps, Mine, TotalsStep
<1> QED BY <1>0, <1>1, <1>5, <1>x DEF Protocol, h, x

LEMMA CreateMove ==
  ASSUME NEW a, NEW p, NEW g, Working(a, g), NEW c \in Classes(a)
  PROVE  LET h == [g EXCEPT !.depth = @ + 1]
         IN  <<g, Create(c), h>> \in Protocol(a, p) /\ Working(a, h)
<1> DEFINE h == [g EXCEPT !.depth = @ + 1]  x == Create(c)
<1>0. g \in Places /\ g.blank = FALSE /\ g.mine \in BOOLEAN /\ g.totals \in BOOLEAN /\ g.planted \in BOOLEAN
  BY DEF Working, Places
<1>1. h \in Places
  BY <1>0 DEF Places
<1>x. x \in Steps(a) /\ x.op = "create"
  BY DEF Create, Steps, WorkSteps
<1> HIDE DEF x
<1>2. Permits(a, p, g, x)
  BY <1>x, <1>0 DEF Working, Permits, Mine, TotalsStep, SeedOps, WorkOps, LoopOps, CollectiveOps
<1>3. /\ h.ph = g.ph /\ h.classes = g.classes /\ h.objects = g.objects /\ h.depth = g.depth + 1
      /\ h.count = g.count /\ h.blank = FALSE /\ h.blocks = g.blocks
      /\ h.mine = g.mine /\ h.totals = g.totals /\ h.planted = g.planted
  BY <1>0 DEF Places
<1> HIDE DEF h
<1>5. Moves(a, p, g, x, h)
  BY <1>0, <1>2, <1>3, <1>x DEF Moves, PhaseAfter, LoopOps, CollectiveOps, Mine, TotalsStep
<1>6. Working(a, h)
  BY <1>1, <1>3 DEF Working, Complete
<1> QED BY <1>0, <1>1, <1>5, <1>6, <1>x DEF Protocol, h, x

\* A descriptor is given back, by the one who works or, at the end, by UTS.
LEMMA DestroyMove ==
  ASSUME NEW a, NEW p, NEW g, NEW c \in Classes(a), g.depth > 0,
         Working(a, g) \/ (g \in Places /\ ~g.blank /\ g.ph = 7)
  PROVE  LET h == [g EXCEPT !.depth = @ - 1]
         IN  /\ <<g, Destroy(c), h>> \in Protocol(a, p) /\ h \in Places
             /\ Working(a, g) => Working(a, h)
<1> DEFINE h == [g EXCEPT !.depth = @ - 1]  x == Destroy(c)
<1>0. g \in Places /\ g.blank = FALSE /\ g.mine \in BOOLEAN /\ g.totals \in BOOLEAN /\ g.planted \in BOOLEAN
  BY DEF Working, Places
<1>1. h \in Places
  BY <1>0 DEF Places
<1>x. x \in Steps(a) /\ x.op = "destroy"
  BY DEF Destroy, Steps, WorkSteps
<1> HIDE DEF x
<1>2. Permits(a, p, g, x)
  BY <1>x, <1>0 DEF Working, Permits, Mine, TotalsStep, SeedOps, WorkOps, LoopOps, CollectiveOps
<1>3. /\ h.ph = g.ph /\ h.classes = g.classes /\ h.objects = g.objects /\ h.depth = g.depth - 1
      /\ h.count = g.count /\ h.blank = FALSE /\ h.blocks = g.blocks
      /\ h.mine = g.mine /\ h.totals = g.totals /\ h.planted = g.planted
  BY <1>0 DEF Places
<1> HIDE DEF h
<1>5. Moves(a, p, g, x, h)
  BY <1>0, <1>2, <1>3, <1>x DEF Moves, PhaseAfter, LoopOps, CollectiveOps, Mine, TotalsStep
<1>6. Working(a, g) => Working(a, h)
  BY <1>1, <1>3 DEF Working, Complete
<1> QED BY <1>0, <1>1, <1>5, <1>6, <1>x DEF Protocol, h, x

\* A slot is allocated in place and filled in.
LEMMA InplaceMoves ==
  ASSUME NEW a, a.prog = "uts", NEW p, NEW g, Working(a, g), NEW c \in Classes(a), NEW b \in Bodies(a)
  PROVE  Path(Protocol(a, p), <<Inplace(c), Fill(b)>>, g, g)
<1> DEFINE h == [g EXCEPT !.blank = TRUE]  x == Inplace(c)  y == Fill(b)
<1>0. g \in Places /\ g.blank = FALSE /\ g.mine \in BOOLEAN /\ g.totals \in BOOLEAN /\ g.planted \in BOOLEAN
  BY DEF Working, Places
<1>1. h \in Places
  BY <1>0 DEF Places
<1>x. x \in Steps(a) /\ x.op = "inplace" /\ y \in Steps(a) /\ y.op = "fill"
  BY DEF Inplace, Fill, Steps, WorkSteps
<1> HIDE DEF x, y
<1>3. /\ h.ph = g.ph /\ h.classes = g.classes /\ h.objects = g.objects /\ h.depth = g.depth
      /\ h.count = g.count /\ h.blank = TRUE /\ h.blocks = g.blocks
      /\ h.mine = g.mine /\ h.totals = g.totals /\ h.planted = g.planted
  BY <1>0 DEF Places
<1> HIDE DEF h
<1>2. Permits(a, p, g, x)
  BY <1>x, <1>0 DEF Working, Permits, Mine, TotalsStep, SeedOps, WorkOps, LoopOps, CollectiveOps
<1>4. Permits(a, p, h, y)
  BY <1>x, <1>0, <1>3 DEF Working, Complete, Permits, Mine, TotalsStep, SeedOps, WorkOps, LoopOps, CollectiveOps
<1>5. Moves(a, p, g, x, h)
  BY <1>0, <1>2, <1>3, <1>x DEF Moves, PhaseAfter, LoopOps, CollectiveOps, Mine, TotalsStep
<1>6. Moves(a, p, h, y, g)
  BY <1>0, <1>4, <1>3, <1>x DEF Moves, PhaseAfter, LoopOps, CollectiveOps, Mine, TotalsStep
<1>7. <<g, x, h>> \in Protocol(a, p) /\ <<h, y, g>> \in Protocol(a, p)
  BY <1>0, <1>1, <1>5, <1>6, <1>x DEF Protocol
<1> QED BY <1>7, PathTwo DEF x, y

LEMMA ClassMove ==
  ASSUME NEW a, NEW p, NEW g \in Places, ~g.blank, g.ph \in 1..4,
         g.classes < Len(ClassNames(a)), NEW f \in FcnNames, f = ClassNames(a)[g.classes + 1]
  PROVE  LET h == [g EXCEPT !.classes = @ + 1]
         IN  <<g, Class(f), h>> \in Protocol(a, p) /\ h \in Places
<1> DEFINE h == [g EXCEPT !.classes = @ + 1]  x == Class(f)
<1>0. g.blank = FALSE /\ g.mine \in BOOLEAN /\ g.totals \in BOOLEAN /\ g.planted \in BOOLEAN
  BY DEF Places
<1>1. h \in Places
  <2>1. g.classes \in Nat /\ g.classes + 1 \in Nat
    BY DEF Places
  <2> HIDE DEF x
  <2> QED BY <1>0, <2>1 DEF Places
<1>x. x \in Steps(a) /\ x.op = "class" /\ x.fcn = f
  BY DEF Class, Steps, OtherSteps
<1> HIDE DEF x
<1>2. Permits(a, p, g, x)
  BY <1>x, <1>0 DEF Permits, Mine, TotalsStep, SeedOps, WorkOps, LoopOps, CollectiveOps
<1>3. /\ h.ph = g.ph /\ h.classes = g.classes + 1 /\ h.objects = g.objects /\ h.depth = g.depth
      /\ h.count = g.count /\ h.blank = FALSE /\ h.blocks = g.blocks
      /\ h.mine = g.mine /\ h.totals = g.totals /\ h.planted = g.planted
  BY <1>0 DEF Places
<1> HIDE DEF h
<1>5. Moves(a, p, g, x, h)
  BY <1>0, <1>2, <1>3, <1>x DEF Moves, PhaseAfter, LoopOps, CollectiveOps, Mine, TotalsStep
<1> QED BY <1>0, <1>1, <1>5, <1>x DEF Protocol, h, x

LEMMA AssociateMove ==
  ASSUME NEW a, NEW p, NEW g \in Places, ~g.blank, g.ph = 4,
         g.objects < Len(ObjectNames(a)), NEW o \in ObjectSet, o = ObjectNames(a)[g.objects + 1]
  PROVE  LET h == [g EXCEPT !.objects = @ + 1]
         IN  <<g, Associate(o), h>> \in Protocol(a, p) /\ h \in Places
<1> DEFINE h == [g EXCEPT !.objects = @ + 1]  x == Associate(o)
<1>0. g.blank = FALSE /\ g.mine \in BOOLEAN /\ g.totals \in BOOLEAN /\ g.planted \in BOOLEAN
  BY DEF Places
<1>1. h \in Places
  BY <1>0 DEF Places
<1>x. x \in Steps(a) /\ x.op = "associate" /\ x.object = o
  BY DEF Associate, Steps, OtherSteps
<1> HIDE DEF x
<1>2. Permits(a, p, g, x)
  BY <1>x, <1>0 DEF Permits, Mine, TotalsStep, SeedOps, WorkOps, LoopOps, CollectiveOps
<1>3. /\ h.ph = g.ph /\ h.classes = g.classes /\ h.objects = g.objects + 1 /\ h.depth = g.depth
      /\ h.count = g.count /\ h.blank = FALSE /\ h.blocks = g.blocks
      /\ h.mine = g.mine /\ h.totals = g.totals /\ h.planted = g.planted
  BY <1>0 DEF Places
<1> HIDE DEF h
<1>5. Moves(a, p, g, x, h)
  BY <1>0, <1>2, <1>3, <1>x DEF Moves, PhaseAfter, LoopOps, CollectiveOps, Mine, TotalsStep
<1> QED BY <1>0, <1>1, <1>5, <1>x DEF Protocol, h, x

\* Process p prints its statistics, or process 0 those of all.
LEMMA MineMove ==
  ASSUME NEW a, NEW p, NEW g \in Places, ~g.blank, g.ph = 7, a.prog = "tasks", ~g.mine,
         g.count = Turns(a) + p
  PROVE  LET h == [g EXCEPT !.mine = TRUE]
         IN  <<g, [op |-> "print", what |-> "my stats"], h>> \in Protocol(a, p) /\ h \in Places
<1> DEFINE h == [g EXCEPT !.mine = TRUE]  x == [op |-> "print", what |-> "my stats"]
<1>0. g.blank = FALSE /\ g.mine \in BOOLEAN /\ g.totals \in BOOLEAN /\ g.planted \in BOOLEAN
  BY DEF Places
<1>1. h \in Places
  BY <1>0 DEF Places
<1>x. x \in Steps(a) /\ x.op = "print" /\ Mine(x) /\ ~TotalsStep(x)
  BY DEF Steps, OtherSteps, Mine, TotalsStep
<1> HIDE DEF x
<1>2. Permits(a, p, g, x)
  BY <1>x, <1>0 DEF Permits, SeedOps, WorkOps, LoopOps, CollectiveOps
<1>3. /\ h.ph = g.ph /\ h.classes = g.classes /\ h.objects = g.objects /\ h.depth = g.depth
      /\ h.count = g.count /\ h.blank = FALSE /\ h.blocks = g.blocks
      /\ h.mine = TRUE /\ h.totals = g.totals /\ h.planted = g.planted
  BY <1>0 DEF Places
<1> HIDE DEF h
<1>5. Moves(a, p, g, x, h)
  BY <1>0, <1>2, <1>3, <1>x DEF Moves, PhaseAfter, LoopOps, CollectiveOps
<1> QED BY <1>0, <1>1, <1>5, <1>x DEF Protocol, h, x

LEMMA TotalsMove ==
  ASSUME NEW a, NEW g \in Places, ~g.blank, g.ph = 7, ~g.totals,
         a.prog = "tasks" => g.count > Turns(a) + N
  PROVE  LET h == [g EXCEPT !.totals = TRUE]
         IN  <<g, [op |-> "print", what |-> "totals"], h>> \in Protocol(a, 0) /\ h \in Places
<1> DEFINE h == [g EXCEPT !.totals = TRUE]  x == [op |-> "print", what |-> "totals"]
<1>0. g.blank = FALSE /\ g.mine \in BOOLEAN /\ g.totals \in BOOLEAN /\ g.planted \in BOOLEAN
  BY DEF Places
<1>1. h \in Places
  BY <1>0 DEF Places
<1>x. x \in Steps(a) /\ x.op = "print" /\ ~Mine(x) /\ TotalsStep(x)
  BY DEF Steps, OtherSteps, Mine, TotalsStep
<1> HIDE DEF x
<1>2. Permits(a, 0, g, x)
  BY <1>x, <1>0 DEF Permits, SeedOps, WorkOps, LoopOps, CollectiveOps
<1>3. /\ h.ph = g.ph /\ h.classes = g.classes /\ h.objects = g.objects /\ h.depth = g.depth
      /\ h.count = g.count /\ h.blank = FALSE /\ h.blocks = g.blocks
      /\ h.mine = g.mine /\ h.totals = TRUE /\ h.planted = g.planted
  BY <1>0 DEF Places
<1> HIDE DEF h
<1>5. Moves(a, 0, g, x, h)
  BY <1>0, <1>2, <1>3, <1>x DEF Moves, PhaseAfter, LoopOps, CollectiveOps
<1> QED BY <1>0, <1>1, <1>5, <1>x DEF Protocol, h, x

LEMMA FinalizeMove ==
  ASSUME NEW a, NEW p, NEW g \in Places, ~g.blank, g.ph = 9
  PROVE  LET h == [g EXCEPT !.ph = 10, !.count = @ + 1]
         IN  <<g, Step("finalize"), h>> \in Protocol(a, p) /\ h \in Places
<1> DEFINE h == [g EXCEPT !.ph = 10, !.count = @ + 1]  x == Step("finalize")
<1>0. g.blank = FALSE /\ g.mine \in BOOLEAN /\ g.totals \in BOOLEAN /\ g.planted \in BOOLEAN
  BY DEF Places
<1>1. h \in Places
  <2>1. g.count + 1 \in Nat /\ [g EXCEPT !.count = @ + 1] \in Places
    BY DEF Places
  <2> DEFINE k == [g EXCEPT !.count = @ + 1]
  <2>2. h = [k EXCEPT !.ph = 10]
    BY DEF Places
  <2>3. k \in Places /\ 10 \in 0..10
    BY <2>1
  <2> HIDE DEF k, h, x
  <2> QED BY <2>2, <2>3 DEF Places
<1>x. x \in Steps(a) /\ x.op = "finalize"
  BY DEF Step, Steps, PlainSteps
<1> HIDE DEF x
<1>2. Permits(a, p, g, x)
  BY <1>x, <1>0 DEF Permits, Mine, TotalsStep, SeedOps, WorkOps, LoopOps, CollectiveOps
<1>3. /\ h.ph = 10 /\ h.classes = g.classes /\ h.objects = g.objects /\ h.depth = g.depth
      /\ h.count = g.count + 1 /\ h.blank = FALSE /\ h.blocks = g.blocks
      /\ h.mine = g.mine /\ h.totals = g.totals /\ h.planted = g.planted
  BY <1>0 DEF Places
<1> HIDE DEF h
<1>5. Moves(a, p, g, x, h)
  BY <1>0, <1>2, <1>3, <1>x DEF Moves, PhaseAfter, LoopOps, CollectiveOps, Mine, TotalsStep
<1> QED BY <1>0, <1>1, <1>5, <1>x DEF Protocol, h, x
-----------------------------------------------------------------------------
(***************************************************************************)
(* Calls that tasks are made of: they leave the place as it was.  Those of *)
(* Madness that work on the process's tree (kept) need it planted.         *)
(***************************************************************************)
WorkCalls(a, p, kept) ==
  {s \in Seq(Steps(a)) :
     /\ Ops(s) \subseteq WorkOps
     /\ \A g : Working(a, g) /\ (kept => g.planted) => Path(Protocol(a, p), s, g, g)}

LEMMA WorkCallsCat ==
  ASSUME NEW a, NEW p, NEW kept, NEW s \in WorkCalls(a, p, kept), NEW t \in WorkCalls(a, p, kept)
  PROVE  Cat(s, t) \in WorkCalls(a, p, kept)
<1> DEFINE S == Steps(a)
<1>1. s \in Seq(S) /\ t \in Seq(S) /\ Ops(s) \subseteq WorkOps /\ Ops(t) \subseteq WorkOps
  BY DEF WorkCalls
<1> HIDE DEF S
<1>2. Cat(s, t) \in Seq(S) /\ Ops(Cat(s, t)) \subseteq WorkOps
  BY <1>1, CatType, OpsCat
<1>3. ASSUME NEW g, Working(a, g), kept => g.planted PROVE Path(Protocol(a, p), Cat(s, t), g, g)
  <2>1. Path(Protocol(a, p), s, g, g) /\ Path(Protocol(a, p), t, g, g)
    BY <1>3 DEF WorkCalls
  <2> QED BY <2>1, <1>1, PathCat
<1> QED BY <1>2, <1>3 DEF WorkCalls, S

LEMMA WorkCallsNothing ==
  ASSUME NEW a, NEW p, NEW kept
  PROVE  <<>> \in WorkCalls(a, p, kept)
<1>1. <<>> \in Seq(Steps(a))
  OBVIOUS
<1> QED BY <1>1, OpsOfNothing, PathNothing DEF WorkCalls

LEMMA WorkCallsJoined ==
  ASSUME NEW a, NEW p, NEW kept, NEW m \in Nat, NEW g \in [1..m -> WorkCalls(a, p, kept)]
  PROVE  FlattenSeq(g) \in WorkCalls(a, p, kept)
<1> DEFINE Q == WorkCalls(a, p, kept)  S == Steps(a)
<1>1. Q \subseteq Seq(S) /\ <<>> \in Q
  BY WorkCallsNothing DEF WorkCalls
<1>2. \A s, t \in Q : Cat(s, t) \in Q
  BY WorkCallsCat
<1>3. \A s, t \in Q : s \o t \in Q
  <2> HIDE DEF Q
  <2> QED BY <1>2, Zenon DEF Cat
<1> HIDE DEF Q, S
<1>4. Joinable(Q, S)
  BY <1>1, <1>3 DEF Joinable
<1>5. g \in [1..m -> Q]
  BY DEF Q
<1>6. FlattenSeq(g) \in Q
  BY <1>4, <1>5, JoinedIn
<1> QED BY <1>6 DEF Q

LEMMA OpsOfOne ==
  ASSUME NEW x
  PROVE  Ops(<<x>>) = {x.op}
BY DEF Ops

LEMMA WorkCallsOne ==
  ASSUME NEW a, NEW p, NEW kept, NEW x \in Steps(a), x.op \in PlainWorkOps,
         x.op = "refine" /\ x.kept => kept
  PROVE  <<x>> \in WorkCalls(a, p, kept)
<1>1. <<x>> \in Seq(Steps(a)) /\ Ops(<<x>>) = {x.op}
  BY OpsOfOne
<1>2. ASSUME NEW g, Working(a, g), kept => g.planted PROVE Path(Protocol(a, p), <<x>>, g, g)
  <2>1. <<g, x, g>> \in Protocol(a, p)
    BY <1>2, WorkMove
  <2> QED BY <2>1, PathOne
<1> QED BY <1>1, <1>2 DEF WorkCalls, PlainWorkOps, WorkOps

\* A descriptor is created, used and destroyed.
LEMMA WorkCallsWithin ==
  ASSUME NEW a, NEW p, NEW kept, NEW s \in WorkCalls(a, p, kept), NEW c \in Classes(a)
  PROVE  Cat(<<Create(c)>>, Cat(s, <<Destroy(c)>>)) \in WorkCalls(a, p, kept)
<1> DEFINE S == Steps(a)  u == <<Create(c)>>  v == <<Destroy(c)>>
<1>1. Create(c) \in Steps(a) /\ Destroy(c) \in Steps(a)
      /\ Create(c).op = "create" /\ Destroy(c).op = "destroy"
  BY DEF Create, Destroy, Steps, WorkSteps
<1>2. u \in Seq(S) /\ v \in Seq(S)
  BY <1>1
<1>3. Ops(u) = {"create"} /\ Ops(v) = {"destroy"}
  <2>1. Ops(u) = {Create(c).op} /\ Ops(v) = {Destroy(c).op}
    BY OpsOfOne
  <2> QED BY <2>1, <1>1
<1>4. s \in Seq(S) /\ Ops(s) \subseteq WorkOps
  BY DEF WorkCalls
<1> HIDE DEF S, u, v
<1>5. Cat(s, v) \in Seq(S) /\ Cat(u, Cat(s, v)) \in Seq(S)
  BY <1>2, <1>4, CatType
<1>6. Ops(Cat(u, Cat(s, v))) \subseteq WorkOps
  <2>1. Ops(Cat(s, v)) = Ops(s) \cup Ops(v)
    BY <1>2, <1>4, OpsCat
  <2>2. Ops(Cat(u, Cat(s, v))) = Ops(u) \cup Ops(Cat(s, v))
    BY <1>2, <1>5, OpsCat
  <2> QED BY <2>1, <2>2, <1>3, <1>4 DEF WorkOps
<1>7. ASSUME NEW g, Working(a, g), kept => g.planted
      PROVE  Path(Protocol(a, p), Cat(u, Cat(s, v)), g, g)
  <2> DEFINE h == [g EXCEPT !.depth = @ + 1]  k == [h EXCEPT !.depth = @ - 1]
  <2>0. g \in Places
    BY <1>7 DEF Working
  <2>1. <<g, Create(c), h>> \in Protocol(a, p) /\ Working(a, h)
    BY <1>7, CreateMove
  <2>d. g.depth \in Nat /\ h.depth = g.depth + 1
    BY <2>0 DEF Places
  <2>e. h.depth > 0 /\ h.planted = g.planted
    BY <2>0, <2>d DEF Places
  <2>f. h.depth - 1 = g.depth
    BY <2>d
  <2>g. [h EXCEPT !.depth = g.depth] = g
    BY <2>0 DEF Places
  <2> HIDE DEF h
  <2>2. h.depth > 0 /\ k = g /\ h.planted = g.planted
    BY <2>e, <2>f, <2>g
  <2>3. <<h, Destroy(c), k>> \in Protocol(a, p)
    BY <2>1, <2>2, DestroyMove
  <2> HIDE DEF k
  <2>4. Path(Protocol(a, p), u, g, h) /\ Path(Protocol(a, p), v, h, k)
    BY <2>1, <2>3, PathOne DEF u, v
  <2>5. Path(Protocol(a, p), s, h, h)
    BY <2>1, <2>2, <1>7 DEF WorkCalls
  <2>6. Path(Protocol(a, p), Cat(s, v), h, k)
    BY <2>4, <2>5, <1>2, <1>4, PathCat
  <2>7. Path(Protocol(a, p), Cat(u, Cat(s, v)), g, k)
    BY <2>4, <2>6, <1>2, <1>5, PathCat
  <2> QED BY <2>7, <2>2
<1>8. Cat(u, Cat(s, v)) \in WorkCalls(a, p, kept)
  BY <1>5, <1>6, <1>7 DEF WorkCalls, S
<1> QED BY <1>8 DEF u, v

\* A task is added from a descriptor of its own.
LEMMA WorkCallsAdd ==
  ASSUME NEW a, NEW p, NEW kept, NEW c \in Classes(a), NEW b \in Bodies(a)
  PROVE  /\ <<Create(c), Add(c, b), Destroy(c)>> \in WorkCalls(a, p, kept)
         /\ <<Add(c, b)>> \in WorkCalls(a, p, kept)
         /\ a.prog = "uts" => <<Inplace(c), Fill(b)>> \in WorkCalls(a, p, kept)
         /\ <<Progress>> \in WorkCalls(a, p, kept)
<1>1. Add(c, b) \in Steps(a) /\ Add(c, b).op = "add" /\ Progress \in Steps(a) /\ Progress.op = "progress"
      /\ (a.prog = "uts" => Inplace(c) \in Steps(a)) /\ Fill(b) \in Steps(a)
      /\ Inplace(c).op = "inplace" /\ Fill(b).op = "fill"
  <2>1. Add(c, b) \in Steps(a) /\ Add(c, b).op = "add"
    BY DEF Add, Steps, WorkSteps
  <2>2. Progress \in Steps(a) /\ Progress.op = "progress"
    BY DEF Progress, Step, Steps, PlainSteps
  <2>3. (a.prog = "uts" => Inplace(c) \in Steps(a)) /\ Inplace(c).op = "inplace"
    BY DEF Inplace, Steps, WorkSteps
  <2>4. Fill(b) \in Steps(a) /\ Fill(b).op = "fill"
    BY DEF Fill, Steps, WorkSteps
  <2> QED BY <2>1, <2>2, <2>3, <2>4
<1>2. <<Add(c, b)>> \in WorkCalls(a, p, kept) /\ <<Progress>> \in WorkCalls(a, p, kept)
  BY <1>1, WorkCallsOne DEF PlainWorkOps
<1> DEFINE x == Create(c)  y == Add(c, b)  z == Destroy(c)  v == Inplace(c)  w == Fill(b)
<1>3. Cat(<<x>>, Cat(<<y>>, <<z>>)) \in WorkCalls(a, p, kept)
  BY <1>2, WorkCallsWithin
<1>4. ASSUME a.prog = "uts" PROVE <<v, w>> \in WorkCalls(a, p, kept)
  <2>1. <<v, w>> \in Seq(Steps(a))
    BY <1>1, <1>4
  <2>2. Ops(<<v, w>>) \subseteq WorkOps
    <3>1. v.op \in WorkOps /\ w.op \in WorkOps
      BY <1>1 DEF WorkOps
    <3> HIDE DEF v, w
    <3> QED BY <3>1 DEF Ops
  <2>3. ASSUME NEW g, Working(a, g) PROVE Path(Protocol(a, p), <<v, w>>, g, g)
    BY <2>3, <1>4, InplaceMoves
  <2> QED BY <2>1, <2>2, <2>3 DEF WorkCalls
<1> HIDE DEF x, y, z, v, w
<1>5. Cat(<<x>>, Cat(<<y>>, <<z>>)) = <<x, y, z>>
  <2>1. Cat(<<y>>, <<z>>) = <<y, z>>
    BY CatTwo
  <2>2. Cat(<<x>>, <<y, z>>) = <<x, y, z>>
    BY CatThree
  <2> QED BY <2>1, <2>2
<1>6. <<x, y, z>> \in WorkCalls(a, p, kept)
  BY <1>3, <1>5
<1> QED BY <1>2, <1>4, <1>6 DEF x, y, z, v, w
-----------------------------------------------------------------------------
(***************************************************************************)
(* The tasks of the programs, and what they are seeded by, are such calls. *)
(***************************************************************************)
LEMMA WorkCallsAppend ==
  ASSUME NEW a, NEW p, NEW kept, NEW s \in WorkCalls(a, p, kept), NEW t \in WorkCalls(a, p, kept)
  PROVE  s \o t \in WorkCalls(a, p, kept)
<1>1. Cat(s, t) \in WorkCalls(a, p, kept)
  BY WorkCallsCat
<1> QED BY <1>1, Zenon DEF Cat

LEMMA BpcCreates ==
  ASSUME NEW a, a.prog = "bpc", NEW p, NEW kept, NEW c \in {1, 2}, NEW l \in Nat
  PROVE  CreateTask(c, l, KeyList) \in WorkCalls(a, p, kept)
<1>1. c \in Classes(a) /\ [level |-> l, keys |-> KeyList] \in Bodies(a)
  BY DEF Classes, Bodies
<1> DEFINE b == [level |-> l, keys |-> KeyList]
<1> HIDE DEF b
<1>2. <<Create(c), Add(c, b), Destroy(c)>> \in WorkCalls(a, p, kept)
  BY <1>1, WorkCallsAdd DEF b
<1> QED BY <1>2 DEF CreateTask, b

LEMMA BpcSeedCalls ==
  ASSUME NEW a, a.prog = "bpc", WellFormed(a), NEW p, NEW kept
  PROVE  BpcSeed(a, KeyList) \in WorkCalls(a, p, kept)
<1> DEFINE g == [i \in 1..a.initial |-> CreateTask(ProducerClass, 0, KeyList)]
<1>1. a.initial \in Nat /\ g \in [1..a.initial -> WorkCalls(a, p, kept)]
  BY BpcCreates DEF WellFormed, ProducerClass
<1> HIDE DEF g
<1>2. FlattenSeq(g) \in WorkCalls(a, p, kept)
  BY <1>1, WorkCallsJoined
<1> QED BY <1>2 DEF BpcSeed, g

LEMMA BpcBodyCalls ==
  ASSUME NEW a, a.prog = "bpc", WellFormed(a), NEW p, NEW kept, NEW fcn, NEW b \in Bodies(a)
  PROVE  BpcBody(a, fcn, b) \in WorkCalls(a, p, kept)
<1> DEFINE W == WorkCalls(a, p, kept)
           producer  == CreateTask(ProducerClass, b.level + 1, b.keys)
           g         == [i \in 1..a.nchildren |-> CreateTask(ConsumerClass, b.level + 1, b.keys)]
           consumers == FlattenSeq(g)
<1>1. b.level + 1 \in Nat /\ b.keys = KeyList /\ a.nchildren \in Nat
  BY DEF Bodies, WellFormed
<1>2. producer \in W /\ g \in [1..a.nchildren -> W]
  BY <1>1, BpcCreates DEF ProducerClass, ConsumerClass
<1>3. Count(<<0, 1>>) \in W /\ Count(<<0, 2>>) \in W
  <2> DEFINE x(k) == [op |-> "bump", keys |-> k]
  <2>1. ASSUME NEW k \in {<<0, 1>>, <<0, 2>>} PROVE <<x(k)>> \in W
    <3>1. x(k) \in Steps(a) /\ x(k).op = "bump"
      BY DEF Steps, WorkSteps
    <3> HIDE DEF x
    <3> QED BY <3>1, WorkCallsOne DEF PlainWorkOps
  <2> QED BY <2>1 DEF Count
<1>4. <<>> \in W
  BY WorkCallsNothing
<1>5. \A s, t \in W : s \o t \in W
  BY WorkCallsAppend
<1>6. b.keys[1] = 0 /\ b.keys[2] = 1 /\ b.keys[3] = 2
  BY <1>1 DEF KeyList
<1>7. consumers \in W
  <2> HIDE DEF g
  <2> QED BY <1>1, <1>2, WorkCallsJoined
<1> DEFINE some == IF ~HasChildren(a, b.level) THEN <<>>
                   ELSE IF a.bouncing THEN producer \o consumers ELSE consumers \o producer
<1>8. some \in W
  <2> HIDE DEF W, producer, consumers
  <2>1. producer \o consumers \in W /\ consumers \o producer \in W
    BY <1>2, <1>5, <1>7
  <2> QED BY <2>1, <1>4
<1>9. ProducerTask(a, b) \in W
  <2>1. ProducerTask(a, b) = some \o Count(<<b.keys[1], b.keys[2]>>)
    BY DEF ProducerTask
  <2> HIDE DEF some, W
  <2> QED BY <2>1, <1>3, <1>5, <1>6, <1>8
<1>10. ConsumerTask(b) \in W
  BY <1>3, <1>6 DEF ConsumerTask
<1> QED BY <1>9, <1>10 DEF BpcBody

LEMMA TasksCalls ==
  ASSUME NEW a, a.prog = "tasks", WellFormed(a), NEW p, NEW kept
  PROVE  TasksSeed(a) \in WorkCalls(a, p, kept) /\ TasksBody \in WorkCalls(a, p, kept)
<1> DEFINE g == [i \in 1..a.tasks |-> <<Create(1), Add(1, i), Destroy(1)>>]
<1>1. a.tasks \in Nat
  BY DEF WellFormed
<1>2. ASSUME NEW i \in 1..a.tasks PROVE <<Create(1), Add(1, i), Destroy(1)>> \in WorkCalls(a, p, kept)
  <2>1. 1 \in Classes(a) /\ i \in Bodies(a)
    BY <1>1 DEF Classes, Bodies
  <2> QED BY <2>1, WorkCallsAdd
<1>3. g \in [1..a.tasks -> WorkCalls(a, p, kept)]
  BY <1>2
<1> HIDE DEF g
<1>4. FlattenSeq(g) \in WorkCalls(a, p, kept)
  BY <1>1, <1>3, WorkCallsJoined
<1>5. TasksBody \in WorkCalls(a, p, kept)
  <2> DEFINE x == [op |-> "sleep"]
  <2>1. x \in Steps(a) /\ x.op = "sleep"
    BY DEF Steps, PlainSteps
  <2> HIDE DEF x
  <2>2. <<x>> \in WorkCalls(a, p, kept)
    BY <2>1, WorkCallsOne DEF PlainWorkOps
  <2> QED BY <2>2 DEF TasksBody, x
<1> QED BY <1>4, <1>5 DEF TasksSeed, g

LEMMA UtsAdds ==
  ASSUME NEW a, a.prog = "uts", NEW p, NEW kept, NEW it \in Bodies(a)
  PROVE  /\ <<Add(1, it)>> \in WorkCalls(a, p, kept)
         /\ ProcessNode(it) \in WorkCalls(a, p, kept)
         /\ AddChild(a, it) \in WorkCalls(a, p, kept)
<1>1. 1 \in Classes(a) /\ it.node \in NodeSet(a)
  BY DEF Classes, Bodies
<1>2. <<Add(1, it)>> \in WorkCalls(a, p, kept) /\ <<Inplace(1), Fill(it)>> \in WorkCalls(a, p, kept)
  BY <1>1, WorkCallsAdd
<1> DEFINE x == [op |-> "visit", node |-> it.node]
<1>3. x \in Steps(a) /\ x.op = "visit"
  BY <1>1 DEF Steps, WorkSteps
<1> HIDE DEF x
<1>4. <<x>> \in WorkCalls(a, p, kept)
  BY <1>3, WorkCallsOne DEF PlainWorkOps
<1>5. ProcessNode(it) \in WorkCalls(a, p, kept)
  BY <1>4 DEF ProcessNode, x
<1>6. AddChild(a, it) \in WorkCalls(a, p, kept)
  BY <1>2 DEF AddChild
<1> QED BY <1>2, <1>5, <1>6

\* The iterator's next child, and what is left of it.
LEMMA UtsChild ==
  ASSUME NEW a, a.prog = "uts", WellFormed(a), NEW it \in Bodies(a)
  PROVE  /\ HasNext(a, it) => Child(it) \in Bodies(a)
         /\ Advanced(it) \in Bodies(a)
         /\ a.tree[it.node] \in Nat
         /\ \A i \in 1..a.tree[it.node] : Child([it EXCEPT !.current_child = i - 1]) \in Bodies(a)
<1> DEFINE D == DOMAIN a.tree
<1>0. Bodies(a) = [node : D, current_child : Nat]
  BY DEF Bodies, NodeSet
<1>1. it.node \in D /\ it.current_child \in Nat /\ it = [node |-> it.node, current_child |-> it.current_child]
  BY <1>0
<1>2. a.tree[it.node] \in Nat /\ \A c \in 0..(a.tree[it.node] - 1) : it.node \o <<c>> \in D
  BY <1>1 DEF WellFormed
<1>3. ASSUME NEW s \in D PROVE Iterator(s) \in Bodies(a)
  BY <1>0 DEF Iterator
<1>4. ASSUME NEW c \in 0..(a.tree[it.node] - 1)
      PROVE  Child([it EXCEPT !.current_child = c]) \in Bodies(a)
  <2> DEFINE s == it.node \o <<c>>
  <2>1. s \in D
    BY <1>2
  <2>2. Child([it EXCEPT !.current_child = c]) = Iterator(s)
    <3>1. [it EXCEPT !.current_child = c].node = it.node /\ [it EXCEPT !.current_child = c].current_child = c
      BY <1>1
    <3> QED BY <3>1, Zenon DEF Child
  <2> HIDE DEF s
  <2> QED BY <2>1, <2>2, <1>3
<1>5. HasNext(a, it) => Child(it) \in Bodies(a)
  <2> SUFFICES ASSUME HasNext(a, it) PROVE Child(it) \in Bodies(a)
    OBVIOUS
  <2>1. it.current_child \in 0..(a.tree[it.node] - 1)
    BY <1>1, <1>2 DEF HasNext
  <2>2. [it EXCEPT !.current_child = it.current_child] = it
    BY <1>1
  <2>3. Child([it EXCEPT !.current_child = it.current_child]) \in Bodies(a)
    BY <2>1, <1>4
  <2> QED BY <2>2, <2>3
<1>6. Advanced(it) \in Bodies(a)
  BY <1>0 DEF Advanced
<1>7. ASSUME NEW i \in 1..a.tree[it.node] PROVE Child([it EXCEPT !.current_child = i - 1]) \in Bodies(a)
  <2>1. i - 1 \in 0..(a.tree[it.node] - 1)
    BY <1>2
  <2> QED BY <2>1, <1>4
<1> QED BY <1>2, <1>5, <1>6, <1>7

LEMMA UtsBodyCalls ==
  ASSUME NEW a, a.prog = "uts", WellFormed(a), NEW p, NEW kept, NEW fcn, NEW it \in Bodies(a)
  PROVE  UtsBody(a, fcn, it) \in WorkCalls(a, p, kept)
<1> DEFINE W == WorkCalls(a, p, kept)
<1>1. \A s, t \in W : s \o t \in W
  BY WorkCallsAppend
<1>w. ASSUME NEW s \in W PROVE <<Create(1)>> \o (s \o <<Destroy(1)>>) \in W
  <2>1. 1 \in Classes(a)
    BY DEF Classes
  <2>2. Cat(<<Create(1)>>, Cat(s, <<Destroy(1)>>)) \in W
    BY <2>1, WorkCallsWithin
  <2> QED BY <2>2, Zenon DEF Cat
<1>a. ASSUME NEW s \in W PROVE (<<Create(1)>> \o s) \o <<Destroy(1)>> \in W
  <2>1. s \in Seq(Steps(a)) /\ <<Create(1)>> \in Seq(Steps(a)) /\ <<Destroy(1)>> \in Seq(Steps(a))
    <3>1. Create(1) \in Steps(a) /\ Destroy(1) \in Steps(a)
      BY DEF Create, Destroy, Steps, WorkSteps, Classes
    <3>2. s \in Seq(Steps(a))
      BY DEF WorkCalls
    <3> HIDE DEF W
    <3> QED BY <3>1, <3>2, SingleSeq
  <2>2. (<<Create(1)>> \o s) \o <<Destroy(1)>> = <<Create(1)>> \o (s \o <<Destroy(1)>>)
    BY <2>1, ConcatAssociative
  <2> QED BY <2>2, <1>w
<1>2. \A j \in Bodies(a) : <<Add(1, j)>> \in W /\ ProcessNode(j) \in W /\ AddChild(a, j) \in W
  BY UtsAdds
<1>3. /\ HasNext(a, it) => Child(it) \in Bodies(a)
      /\ Advanced(it) \in Bodies(a) /\ a.tree[it.node] \in Nat
      /\ \A i \in 1..a.tree[it.node] : Child([it EXCEPT !.current_child = i - 1]) \in Bodies(a)
  BY UtsChild
<1>4. StrictDfsTask(a, it) \in W
  <2> DEFINE rest  == Advanced(it)
             later == IF HasNext(a, rest) THEN <<Add(1, rest)>> ELSE ProcessNode(it)
             some  == IF HasNext(a, it) THEN later \o <<Add(1, Child(it))>> ELSE ProcessNode(it)
  <2> HIDE DEF W
  <2>1. later \in W
    BY <1>2, <1>3
  <2>2. HasNext(a, it) => <<Add(1, Child(it))>> \in W
    BY <1>2, <1>3
  <2> HIDE DEF later
  <2>3. HasNext(a, it) => later \o <<Add(1, Child(it))>> \in W
    BY <2>1, <2>2, <1>1
  <2>4. some \in W
    BY <2>3, <1>2
  <2>5. StrictDfsTask(a, it) = (<<Create(1)>> \o some) \o <<Destroy(1)>>
    BY Zenon DEF StrictDfsTask, ChildOnTop, later
  <2> HIDE DEF some
  <2> QED BY <2>4, <2>5, <1>a
<1>5. TaskFcn(a, it) \in W
  <2> DEFINE g == [i \in 1..a.tree[it.node] |-> AddChild(a, Child([it EXCEPT !.current_child = i - 1]))]
             adds == FlattenSeq(g)
  <2>1. g \in [1..a.tree[it.node] -> W]
    <3> HIDE DEF W
    <3> QED BY <1>2, <1>3
  <2>2. adds \in W
    <3> HIDE DEF g
    <3> QED BY <2>1, <1>3, WorkCallsJoined
  <2>3. ProcessNode(it) \o adds \in W
    <3> HIDE DEF W, adds
    <3> QED BY <2>2, <1>1, <1>2
  <2>4. (<<Create(1)>> \o ProcessNode(it)) \o adds = <<Create(1)>> \o (ProcessNode(it) \o adds)
    <3>1. <<Create(1)>> \in Seq(Steps(a))
      <4>1. Create(1) \in Steps(a)
        BY DEF Create, Steps, WorkSteps, Classes
      <4> QED BY <4>1, SingleSeq
    <3>2. ProcessNode(it) \in Seq(Steps(a)) /\ adds \in Seq(Steps(a))
      <4> HIDE DEF adds
      <4> QED BY <2>2, <1>2 DEF WorkCalls
    <3> HIDE DEF adds
    <3> QED BY <3>1, <3>2, ConcatAssociative
  <2>5. (<<Create(1)>> \o (ProcessNode(it) \o adds)) \o <<Destroy(1)>> \in W
    <3> HIDE DEF adds, W
    <3> QED BY <2>3, <1>a
  <2>6. TaskFcn(a, it) = IF a.inplace THEN ProcessNode(it) \o adds
                         ELSE ((<<Create(1)>> \o ProcessNode(it)) \o adds) \o <<Destroy(1)>>
    BY Zenon DEF TaskFcn
  <2> HIDE DEF adds, W
  <2> QED BY <2>3, <2>4, <2>5, <2>6
<1> QED BY <1>4, <1>5 DEF UtsBody
-----------------------------------------------------------------------------
LEMMA MadParts ==
  ASSUME NEW a, a.prog = "mad3d", WellFormed(a), NEW box \in BoxSet(a)
  PROVE  /\ Pow2[a.dims] \in Nat
         /\ \A i \in 1..Pow2[a.dims] : Part(a, box, i - 1) \in BoxSet(a)
         /\ Pow2[a.dims] - 1 \in Int
         /\ \A i \in Nat : Part(a, box, i) \in BoxSet(a)
<1>1. a.dims \in Nat \ {0} /\ Pow2[a.dims] \in Nat
  <2>1. a.dims \in Nat \ {0}
    BY DEF WellFormed
  <2> QED BY <2>1, PowersType
<1>2. BoxSet(a) = [level : Nat, at : [1..a.dims -> Nat]]
  BY DEF BoxSet
<1>3. ASSUME NEW i \in Nat PROVE Part(a, box, i) \in BoxSet(a)
  <2>1. ASSUME NEW d \in 1..a.dims PROVE 2 * box.at[d] + Digit(a, i, d) \in Nat
    <3>1. a.dims - d \in Nat /\ box.at[d] \in Nat
      BY <1>1, <1>2
    <3> DEFINE q == Pow2[a.dims - d]
    <3>2. q \in Nat /\ q > 0
      BY <3>1, PowersType
    <3> HIDE DEF q
    <3>3. (i \div q) % 2 \in Nat
      <4>1. i \div q \in Int
        BY <3>2
      <4> DEFINE k == i \div q
      <4> HIDE DEF k
      <4>2. k % 2 \in 0..1
        BY <4>1 DEF k
      <4> QED BY <4>2 DEF k
    <3>4. Digit(a, i, d) \in Nat
      BY <3>3 DEF Digit, q
    <3> HIDE DEF q
    <3> QED BY <3>1, <3>4
  <2> DEFINE at == [d \in 1..a.dims |-> 2 * box.at[d] + Digit(a, i, d)]
  <2>2. at \in [1..a.dims -> Nat]
    BY <2>1
  <2>3. box.level + 1 \in Nat
    BY <1>2
  <2>4. Part(a, box, i) = [level |-> box.level + 1, at |-> at]
    BY DEF Part, Box
  <2> HIDE DEF at
  <2> QED BY <2>2, <2>3, <2>4, <1>2
<1>4. ASSUME NEW i \in 1..Pow2[a.dims] PROVE Part(a, box, i - 1) \in BoxSet(a)
  <2>1. i - 1 \in Nat
    BY <1>1
  <2> QED BY <2>1, <1>3
<1> QED BY <1>1, <1>3, <1>4

LEMMA MadRefines ==
  ASSUME NEW a, a.prog = "mad3d", NEW p, NEW kept \in BOOLEAN, NEW s \in Seq(Nat), NEW box \in BoxSet(a)
  PROVE  /\ <<Refine(kept, s, box)>> \in WorkCalls(a, p, kept)
         /\ CreateRefineTask(a, kept, s, box) \in WorkCalls(a, p, kept)
         /\ Wiped(a, kept, s, box) \in WorkCalls(a, p, kept)
<1>1. <<Refine(kept, s, box)>> \in WorkCalls(a, p, kept)
  <2> DEFINE x == Refine(kept, s, box)
  <2>1. x \in Steps(a) /\ x.op = "refine" /\ x.kept = kept
    BY DEF Refine, Steps, WorkSteps
  <2> HIDE DEF x
  <2>2. <<x>> \in WorkCalls(a, p, kept)
    BY <2>1, WorkCallsOne DEF PlainWorkOps
  <2> QED BY <2>2 DEF x
<1>2. 1 \in Classes(a) /\ box \in Bodies(a)
  BY DEF Classes, Bodies
<1>3. <<Create(1), Add(1, box), Destroy(1)>> \in WorkCalls(a, p, kept) /\ <<Progress>> \in WorkCalls(a, p, kept)
  BY <1>2, WorkCallsAdd
<1>4. <<Create(1), Add(1, box), Destroy(1), Progress>> \in WorkCalls(a, p, kept)
  <2> DEFINE x == Create(1)  y == Add(1, box)  z == Destroy(1)  w == Progress
  <2>1. Cat(<<x, y, z>>, <<w>>) \in WorkCalls(a, p, kept)
    BY <1>3, WorkCallsCat
  <2> HIDE DEF x, y, z, w
  <2>2. Cat(<<x, y, z>>, <<w>>) = <<x, y, z, w>>
    BY CatFour
  <2> QED BY <2>1, <2>2 DEF x, y, z, w
<1>5. CreateRefineTask(a, kept, s, box) \in WorkCalls(a, p, kept)
  BY <1>1, <1>4 DEF CreateRefineTask
<1>6. <<[op |-> "wipe", node |-> s]>> \in WorkCalls(a, p, kept)
  <2> DEFINE x == [op |-> "wipe", node |-> s]
  <2>1. x \in Steps(a) /\ x.op = "wipe"
    BY DEF Steps, WorkSteps
  <2> HIDE DEF x
  <2>2. <<x>> \in WorkCalls(a, p, kept)
    BY <2>1, WorkCallsOne DEF PlainWorkOps
  <2> QED BY <2>2 DEF x
<1>7. Wiped(a, kept, s, box) \in WorkCalls(a, p, kept)
  BY <1>6, WorkCallsNothing DEF Wiped
<1> QED BY <1>1, <1>5, <1>7

LEMMA FurtherCalls ==
  ASSUME NEW a, a.prog = "mad3d", WellFormed(a), NEW p, NEW kept \in BOOLEAN,
         NEW s \in Seq(Nat), NEW box \in BoxSet(a)
  PROVE  Further(a, kept, s, box) \in WorkCalls(a, p, kept)
<1> DEFINE W == WorkCalls(a, p, kept)  m == Pow2[a.dims]
           Task(i) == CreateRefineTask(a, kept, Append(s, i), Part(a, box, i))
           Child_(i) == IF box.level < a.initial_level - 1
                       THEN <<Refine(kept, Append(s, i), Part(a, box, i))>> ELSE Task(i)
           tasks == [i \in 1..m |-> Task(i - 1)]
           children == [i \in 1..m |-> Child_(i - 1)]
<1>1. m \in Nat /\ \A i \in 1..m : Part(a, box, i - 1) \in BoxSet(a)
  BY MadParts
<1>2. ASSUME NEW i \in 1..m PROVE Task(i - 1) \in W /\ Child_(i - 1) \in W
  <2> DEFINE j == i - 1
  <2>1. j \in Nat /\ Part(a, box, j) \in BoxSet(a)
    BY <1>1
  <2> HIDE DEF j
  <2>2. Append(s, j) \in Seq(Nat)
    BY <2>1
  <2>3. Task(j) \in W /\ <<Refine(kept, Append(s, j), Part(a, box, j))>> \in W
    BY <2>1, <2>2, MadRefines
  <2>4. Child_(j) \in W
    BY <2>3
  <2> QED BY <2>3, <2>4 DEF j
<1> HIDE DEF m
<1>3. tasks \in [1..m -> W] /\ children \in [1..m -> W]
  <2> HIDE DEF Task, Child_, W
  <2> QED BY <1>2
<1>4. FlattenSeq(tasks) \in W /\ FlattenSeq(children) \in W
  <2> HIDE DEF tasks, children
  <2> QED BY <1>1, <1>3, WorkCallsJoined
<1>5. Wiped(a, kept, s, box) \in W /\ <<>> \in W
  BY MadRefines, WorkCallsNothing
<1>6. FlattenSeq(tasks) \o Wiped(a, kept, s, box) \in W
  <2> HIDE DEF tasks, children
  <2> QED BY <1>4, <1>5, WorkCallsAppend
<1>7. Further(a, kept, s, box) =
        IF box.level > a.max_level THEN <<>>
        ELSE IF Coarse(a, box) THEN FlattenSeq(children)
        ELSE IF box \in a.fine THEN FlattenSeq(tasks) \o Wiped(a, kept, s, box)
        ELSE <<>>
  BY Zenon DEF Further, m
<1> HIDE DEF tasks, children
<1>8. Further(a, kept, s, box) \in W
  <2> HIDE DEF W
  <2> QED BY <1>4, <1>5, <1>6, <1>7, Zenon
<1> QED BY <1>8

\* What a task's function does with its body.
LEMMA BodyCalls ==
  ASSUME NEW a, WellFormed(a), NEW p, NEW kept, NEW fcn, NEW b \in Bodies(a)
  PROVE  Body(a, fcn, b) \in WorkCalls(a, p, kept)
<1>1. CASE a.prog = "bpc"
  BY <1>1, BpcBodyCalls DEF Body
<1>2. CASE a.prog = "uts"
  BY <1>2, UtsBodyCalls DEF Body
<1>3. CASE a.prog = "mad3d"
  <2>1. Refine(FALSE, <<>>, b) \in Steps(a) /\ Refine(FALSE, <<>>, b).op = "refine"
        /\ Refine(FALSE, <<>>, b).kept = FALSE
    <3>1. b \in BoxSet(a) /\ <<>> \in Seq(Nat)
      BY <1>3 DEF Bodies
    <3> QED BY <3>1 DEF Refine, Steps, WorkSteps
  <2>2. <<Refine(FALSE, <<>>, b)>> \in WorkCalls(a, p, kept)
    BY <2>1, WorkCallsOne DEF PlainWorkOps
  <2> QED BY <2>2, <1>3 DEF Body, MadBody
<1>4. CASE a.prog = "tasks"
  BY <1>4, TasksCalls DEF Body
<1> QED BY <1>1, <1>2, <1>3, <1>4 DEF WellFormed
-----------------------------------------------------------------------------
(***************************************************************************)
(* Main programs: the ways they take, from one place to the next.  A place *)
(* between two calls is told by its phase, the numbers of classes, objects,*)
(* descriptors and collectives, the blocks and the set of what the process *)
(* has done: "mine" and "totals" printed, the tree "planted".              *)
(***************************************************************************)
Deeds == {"mine", "totals", "planted"}

At(ph, cl, ob, dp, ct, bl, done) ==
  [ph |-> ph, classes |-> cl, objects |-> ob, depth |-> dp, count |-> ct, blank |-> FALSE,
   blocks |-> bl, mine |-> "mine" \in done, totals |-> "totals" \in done,
   planted |-> "planted" \in done]

Telling(ph, cl, ob, dp, ct, bl, done) ==
  /\ ph \in 0..10 /\ cl \in Nat /\ ob \in Nat /\ dp \in Nat /\ ct \in Nat
  /\ bl \in SUBSET Blocks /\ done \in SUBSET Deeds

Tells(h, ph, cl, ob, dp, ct, bl, done) ==
  /\ h \in Places /\ ~h.blank
  /\ h.ph = ph /\ h.classes = cl /\ h.objects = ob /\ h.depth = dp /\ h.count = ct
  /\ h.blocks = bl /\ (h.mine <=> "mine" \in done) /\ (h.totals <=> "totals" \in done)
  /\ (h.planted <=> "planted" \in done)

LEMMA AtFacts ==
  ASSUME NEW ph, NEW cl, NEW ob, NEW dp, NEW ct, NEW bl, NEW done,
         Telling(ph, cl, ob, dp, ct, bl, done)
  PROVE  Tells(At(ph, cl, ob, dp, ct, bl, done), ph, cl, ob, dp, ct, bl, done)
<1>1. ("mine" \in done) \in BOOLEAN /\ ("totals" \in done) \in BOOLEAN /\ ("planted" \in done) \in BOOLEAN
  OBVIOUS
<1> DEFINE m == "mine" \in done  t == "totals" \in done  l == "planted" \in done
           h == [ph |-> ph, classes |-> cl, objects |-> ob, depth |-> dp, count |-> ct,
                 blank |-> FALSE, blocks |-> bl, mine |-> m, totals |-> t, planted |-> l]
<1>2. m \in BOOLEAN /\ t \in BOOLEAN /\ l \in BOOLEAN
  BY <1>1
<1>3. At(ph, cl, ob, dp, ct, bl, done) = h
  BY Zenon DEF At
<1> HIDE DEF m, t, l
<1>4. h \in Places
  BY <1>2 DEF Telling, Places
<1>5. /\ h.ph = ph /\ h.classes = cl /\ h.objects = ob /\ h.depth = dp /\ h.count = ct
      /\ h.blocks = bl /\ h.mine = m /\ h.totals = t /\ h.planted = l /\ ~h.blank
  OBVIOUS
<1> HIDE DEF h
<1>6. (h.mine <=> m) /\ (h.totals <=> t) /\ (h.planted <=> l)
  BY <1>2, <1>5
<1>7. Tells(h, ph, cl, ob, dp, ct, bl, done)
  BY <1>4, <1>5, <1>6 DEF Tells, m, t, l
<1> QED BY <1>3, <1>7

\* A place with these fields is that place.
LEMMA AtIs ==
  ASSUME NEW ph, NEW cl, NEW ob, NEW dp, NEW ct, NEW bl, NEW done,
         Telling(ph, cl, ob, dp, ct, bl, done), NEW h, Tells(h, ph, cl, ob, dp, ct, bl, done)
  PROVE  h = At(ph, cl, ob, dp, ct, bl, done)
<1> DEFINE m == "mine" \in done  t == "totals" \in done  l == "planted" \in done
           k == [ph |-> ph, classes |-> cl, objects |-> ob, depth |-> dp, count |-> ct,
                 blank |-> FALSE, blocks |-> bl, mine |-> m, totals |-> t, planted |-> l]
<1>0. /\ h \in Places /\ ~h.blank
      /\ h.ph = ph /\ h.classes = cl /\ h.objects = ob /\ h.depth = dp /\ h.count = ct
      /\ h.blocks = bl /\ (h.mine <=> m) /\ (h.totals <=> t) /\ (h.planted <=> l)
  BY DEF Tells
<1>1. At(ph, cl, ob, dp, ct, bl, done) = k
  BY Zenon DEF At
<1>2. m \in BOOLEAN /\ t \in BOOLEAN /\ l \in BOOLEAN
  OBVIOUS
<1> HIDE DEF m, t, l
<1>4. h.mine \in BOOLEAN /\ h.totals \in BOOLEAN /\ h.planted \in BOOLEAN /\ h.blank \in BOOLEAN
  BY <1>0 DEF Places
<1>5. h.mine = m /\ h.totals = t /\ h.planted = l /\ h.blank = FALSE
  BY <1>2, <1>0, <1>4
<1>6. h = [ph |-> h.ph, classes |-> h.classes, objects |-> h.objects, depth |-> h.depth, count |-> h.count,
           blank |-> h.blank, blocks |-> h.blocks, mine |-> h.mine, totals |-> h.totals, planted |-> h.planted]
  BY <1>0 DEF Places
<1>7. h = k
  BY <1>0, <1>5, <1>6
<1> QED BY <1>1, <1>7

Way(a, p, s, g, h) == s \in Seq(Steps(a)) /\ Path(Protocol(a, p), s, g, h)

LEMMA WayCat ==
  ASSUME NEW a, NEW p, NEW s, NEW t, NEW g, NEW h, NEW k, Way(a, p, s, g, h), Way(a, p, t, h, k)
  PROVE  Way(a, p, s \o t, g, k)
<1>1. Cat(s, t) \in Seq(Steps(a))
  BY CatType DEF Way
<1>2. Path(Protocol(a, p), Cat(s, t), g, k)
  BY PathCat DEF Way
<1>3. Way(a, p, Cat(s, t), g, k)
  BY <1>1, <1>2 DEF Way
<1> QED BY <1>3, Zenon DEF Cat

LEMMA WayOne ==
  ASSUME NEW a, NEW p, NEW x, NEW g, NEW h, <<g, x, h>> \in Protocol(a, p)
  PROVE  Way(a, p, <<x>>, g, h)
<1>1. x \in Steps(a)
  BY DEF Protocol
<1>2. <<x>> \in Seq(Steps(a))
  BY <1>1
<1> QED BY <1>2, PathOne DEF Way

LEMMA WayTwo ==
  ASSUME NEW a, NEW p, NEW x, NEW y, NEW g, NEW h, NEW k,
         Way(a, p, <<x>>, g, h), Way(a, p, <<y>>, h, k)
  PROVE  Way(a, p, <<x, y>>, g, k)
<1>1. Way(a, p, Cat(<<x>>, <<y>>), g, k)
  <2>1. Way(a, p, <<x>> \o <<y>>, g, k)
    BY WayCat
  <2> QED BY <2>1, Zenon DEF Cat
<1> QED BY <1>1, CatTwo

LEMMA WayThree ==
  ASSUME NEW a, NEW p, NEW x, NEW y, NEW z, NEW g, NEW h, NEW k,
         Way(a, p, <<x>>, g, h), Way(a, p, <<y, z>>, h, k)
  PROVE  Way(a, p, <<x, y, z>>, g, k)
<1>1. Way(a, p, Cat(<<x>>, <<y, z>>), g, k)
  <2>1. Way(a, p, <<x>> \o <<y, z>>, g, k)
    BY WayCat
  <2> QED BY <2>1, Zenon DEF Cat
<1> QED BY <1>1, CatThree

LEMMA WayFour ==
  ASSUME NEW a, NEW p, NEW w, NEW x, NEW y, NEW z, NEW g, NEW h, NEW k,
         Way(a, p, <<w, x, y>>, g, h), Way(a, p, <<z>>, h, k)
  PROVE  Way(a, p, <<w, x, y, z>>, g, k)
<1>1. Way(a, p, Cat(<<w, x, y>>, <<z>>), g, k)
  <2>1. Way(a, p, <<w, x, y>> \o <<z>>, g, k)
    BY WayCat
  <2> QED BY <2>1, Zenon DEF Cat
<1> QED BY <1>1, CatFour

LEMMA WayNothing ==
  ASSUME NEW a, NEW p, NEW g
  PROVE  Way(a, p, <<>>, g, g)
<1>1. <<>> \in Seq(Steps(a))
  OBVIOUS
<1> QED BY <1>1, PathNothing DEF Way

-----------------------------------------------------------------------------
\* The steps of main programs as ways.
LEMMA WayBarrier ==
  ASSUME NEW a, NEW p, NEW ph \in {1, 2, 3, 4, 7, 8, 9}, NEW cl, NEW ob, NEW dp, NEW ct, NEW n, n = ct + 1,
         NEW bl, NEW done, Telling(ph, cl, ob, dp, ct, bl, done), ph < 5 => ct < Entry(a),
         NEW x \in Steps(a), x.op \in {"barrier", "reduce"}
  PROVE  /\ Way(a, p, <<x>>, At(ph, cl, ob, dp, ct, bl, done), At(ph, cl, ob, dp, n, bl, done))
         /\ Telling(ph, cl, ob, dp, n, bl, done)
<1> DEFINE g == At(ph, cl, ob, dp, ct, bl, done)  h == [g EXCEPT !.count = @ + 1]
<1>1. Tells(g, ph, cl, ob, dp, ct, bl, done)
  BY AtFacts
<1> HIDE DEF g
<1>2. AtCollective(a, g)
  BY <1>1 DEF AtCollective, Tells
<1>3. <<g, x, h>> \in Protocol(a, p) /\ h \in Places
  BY <1>2, BarrierMove
<1>4. Telling(ph, cl, ob, dp, n, bl, done)
  BY DEF Telling
<1>5. Tells(h, ph, cl, ob, dp, n, bl, done)
  BY <1>1, <1>3 DEF Places, Tells
<1> HIDE DEF h
<1>6. h = At(ph, cl, ob, dp, n, bl, done)
  BY <1>4, <1>5, AtIs
<1>7. Way(a, p, <<x>>, g, h)
  BY <1>3, WayOne
<1> QED BY <1>4, <1>6, <1>7 DEF g
LEMMA WayAlloc ==
  ASSUME NEW a, NEW p, NEW ph, NEW cl, NEW ob, NEW dp, NEW ct, NEW bl, NEW done,
         Telling(ph, cl, ob, dp, ct, bl, done),
         ph \in {1, 2, 3, 4, 7, 8, 9},
         ph < 5 => ct < Entry(a),
         NEW n, n = ct + 1,
         NEW b \in Blocks
  PROVE  /\ Way(a, p, <<Alloc(b)>>, At(ph, cl, ob, dp, ct, bl, done), At(ph, cl, ob, dp, n, bl \cup {b}, done))
         /\ Telling(ph, cl, ob, dp, n, bl \cup {b}, done)
<1> DEFINE g == At(ph, cl, ob, dp, ct, bl, done)  h == [g EXCEPT !.count = @ + 1, !.blocks = @ \cup {b}]
<1>1. Tells(g, ph, cl, ob, dp, ct, bl, done)
  BY AtFacts
<1> HIDE DEF g
<1>2. AtCollective(a, g)
  BY <1>1 DEF Tells, Telling, AtCollective
<1>3. <<g, Alloc(b), h>> \in Protocol(a, p) /\ h \in Places
  BY <1>2, <1>1, AllocMove DEF Tells
<1>4. Telling(ph, cl, ob, dp, n, bl \cup {b}, done)
  BY <1>1 DEF Telling, Deeds
<1>5. Tells(h, ph, cl, ob, dp, n, bl \cup {b}, done)
  BY <1>1, <1>3 DEF Places, Tells
<1> HIDE DEF h
<1>6. h = At(ph, cl, ob, dp, n, bl \cup {b}, done)
  BY <1>4, <1>5, AtIs
<1>7. Way(a, p, <<Alloc(b)>>, g, h)
  BY <1>3, WayOne
<1> QED BY <1>4, <1>6, <1>7 DEF g

LEMMA WayFree ==
  ASSUME NEW a, NEW p, NEW ph, NEW cl, NEW ob, NEW dp, NEW ct, NEW bl, NEW done,
         Telling(ph, cl, ob, dp, ct, bl, done),
         ph \in {1, 2, 3, 4, 7, 8, 9},
         ph < 5 => ct < Entry(a),
         NEW n, n = ct + 1,
         NEW b \in Blocks
  PROVE  /\ Way(a, p, <<Free(b)>>, At(ph, cl, ob, dp, ct, bl, done), At(ph, cl, ob, dp, n, bl \ {b}, done))
         /\ Telling(ph, cl, ob, dp, n, bl \ {b}, done)
<1> DEFINE g == At(ph, cl, ob, dp, ct, bl, done)  h == [g EXCEPT !.count = @ + 1, !.blocks = @ \ {b}]
<1>1. Tells(g, ph, cl, ob, dp, ct, bl, done)
  BY AtFacts
<1> HIDE DEF g
<1>2. AtCollective(a, g)
  BY <1>1 DEF Tells, Telling, AtCollective
<1>3. <<g, Free(b), h>> \in Protocol(a, p) /\ h \in Places
  BY <1>2, <1>1, FreeMove DEF Tells
<1>4. Telling(ph, cl, ob, dp, n, bl \ {b}, done)
  BY <1>1 DEF Telling, Deeds
<1>5. Tells(h, ph, cl, ob, dp, n, bl \ {b}, done)
  BY <1>1, <1>3 DEF Places, Tells
<1> HIDE DEF h
<1>6. h = At(ph, cl, ob, dp, n, bl \ {b}, done)
  BY <1>4, <1>5, AtIs
<1>7. Way(a, p, <<Free(b)>>, g, h)
  BY <1>3, WayOne
<1> QED BY <1>4, <1>6, <1>7 DEF g

LEMMA WayClass ==
  ASSUME NEW a, NEW p, NEW ph, NEW cl, NEW ob, NEW dp, NEW ct, NEW bl, NEW done,
         Telling(ph, cl, ob, dp, ct, bl, done),
         ph \in 1..4,
         NEW n, n = cl + 1,
         cl < Len(ClassNames(a)),
         NEW f \in FcnNames,
         f = ClassNames(a)[n]
  PROVE  /\ Way(a, p, <<Class(f)>>, At(ph, cl, ob, dp, ct, bl, done), At(ph, n, ob, dp, ct, bl, done))
         /\ Telling(ph, n, ob, dp, ct, bl, done)
<1> DEFINE g == At(ph, cl, ob, dp, ct, bl, done)  h == [g EXCEPT !.classes = @ + 1]
<1>1. Tells(g, ph, cl, ob, dp, ct, bl, done)
  BY AtFacts
<1> HIDE DEF g
<1>2. g \in Places /\ ~g.blank /\ g.ph \in 1..4 /\ g.classes = cl
  BY <1>1 DEF Tells, Telling
<1>3. <<g, Class(f), h>> \in Protocol(a, p) /\ h \in Places
  BY <1>2, <1>1, ClassMove DEF Tells
<1>4. Telling(ph, n, ob, dp, ct, bl, done)
  BY <1>1 DEF Telling, Deeds
<1>5. Tells(h, ph, n, ob, dp, ct, bl, done)
  BY <1>1, <1>3 DEF Places, Tells
<1> HIDE DEF h
<1>6. h = At(ph, n, ob, dp, ct, bl, done)
  BY <1>4, <1>5, AtIs
<1>7. Way(a, p, <<Class(f)>>, g, h)
  BY <1>3, WayOne
<1> QED BY <1>4, <1>6, <1>7 DEF g

LEMMA WayAssociate ==
  ASSUME NEW a, NEW p, NEW ph, NEW cl, NEW ob, NEW dp, NEW ct, NEW bl, NEW done,
         Telling(ph, cl, ob, dp, ct, bl, done),
         ph = 4,
         NEW n, n = ob + 1,
         ob < Len(ObjectNames(a)),
         NEW f \in ObjectSet,
         f = ObjectNames(a)[n]
  PROVE  /\ Way(a, p, <<Associate(f)>>, At(ph, cl, ob, dp, ct, bl, done), At(ph, cl, n, dp, ct, bl, done))
         /\ Telling(ph, cl, n, dp, ct, bl, done)
<1> DEFINE g == At(ph, cl, ob, dp, ct, bl, done)  h == [g EXCEPT !.objects = @ + 1]
<1>1. Tells(g, ph, cl, ob, dp, ct, bl, done)
  BY AtFacts
<1> HIDE DEF g
<1>2. g \in Places /\ ~g.blank /\ g.ph = 4 /\ g.objects = ob
  BY <1>1 DEF Tells, Telling
<1>3. <<g, Associate(f), h>> \in Protocol(a, p) /\ h \in Places
  BY <1>2, <1>1, AssociateMove DEF Tells
<1>4. Telling(ph, cl, n, dp, ct, bl, done)
  BY <1>1 DEF Telling, Deeds
<1>5. Tells(h, ph, cl, n, dp, ct, bl, done)
  BY <1>1, <1>3 DEF Places, Tells
<1> HIDE DEF h
<1>6. h = At(ph, cl, n, dp, ct, bl, done)
  BY <1>4, <1>5, AtIs
<1>7. Way(a, p, <<Associate(f)>>, g, h)
  BY <1>3, WayOne
<1> QED BY <1>4, <1>6, <1>7 DEF g

LEMMA WayPlant ==
  ASSUME NEW a, NEW p, NEW ph, NEW cl, NEW ob, NEW dp, NEW ct, NEW bl, NEW done,
         Telling(ph, cl, ob, dp, ct, bl, done),
         ph = 4,
         cl = Len(ClassNames(a)),
         ob = Len(ObjectNames(a)),
         ct < Entry(a),
         "planted" \notin done
  PROVE  /\ Way(a, p, <<Step("create_tree")>>, At(ph, cl, ob, dp, ct, bl, done), At(ph, cl, ob, dp, ct, bl, done \cup {"planted"}))
         /\ Telling(ph, cl, ob, dp, ct, bl, done \cup {"planted"})
<1> DEFINE g == At(ph, cl, ob, dp, ct, bl, done)  h == [g EXCEPT !.planted = TRUE]
<1>1. Tells(g, ph, cl, ob, dp, ct, bl, done)
  BY AtFacts
<1> HIDE DEF g
<1>2. Working(a, g) /\ g.ph = 4 /\ ~g.planted
  BY <1>1 DEF Tells, Telling, Working, Complete
<1>3. <<g, Step("create_tree"), h>> \in Protocol(a, p) /\ h \in Places
  BY <1>2, <1>1, PlantMove DEF Tells
<1>4. Telling(ph, cl, ob, dp, ct, bl, done \cup {"planted"})
  BY <1>1 DEF Telling, Deeds
<1>5. Tells(h, ph, cl, ob, dp, ct, bl, done \cup {"planted"})
  BY <1>1, <1>3 DEF Places, Tells
<1> HIDE DEF h
<1>6. h = At(ph, cl, ob, dp, ct, bl, done \cup {"planted"})
  BY <1>4, <1>5, AtIs
<1>7. Way(a, p, <<Step("create_tree")>>, g, h)
  BY <1>3, WayOne
<1> QED BY <1>4, <1>6, <1>7 DEF g

LEMMA WayCreate ==
  ASSUME NEW a, NEW p, NEW ph, NEW cl, NEW ob, NEW dp, NEW ct, NEW bl, NEW done,
         Telling(ph, cl, ob, dp, ct, bl, done),
         ph = 4,
         cl = Len(ClassNames(a)),
         ob = Len(ObjectNames(a)),
         ct < Entry(a),
         NEW n, n = dp + 1,
         NEW c \in Classes(a)
  PROVE  /\ Way(a, p, <<Create(c)>>, At(ph, cl, ob, dp, ct, bl, done), At(ph, cl, ob, n, ct, bl, done))
         /\ Telling(ph, cl, ob, n, ct, bl, done)
<1> DEFINE g == At(ph, cl, ob, dp, ct, bl, done)  h == [g EXCEPT !.depth = @ + 1]
<1>1. Tells(g, ph, cl, ob, dp, ct, bl, done)
  BY AtFacts
<1> HIDE DEF g
<1>2. Working(a, g)
  BY <1>1 DEF Tells, Telling, Working, Complete
<1>3. <<g, Create(c), h>> \in Protocol(a, p) /\ h \in Places
  BY <1>2, <1>1, CreateMove DEF Tells, Working
<1>4. Telling(ph, cl, ob, n, ct, bl, done)
  BY <1>1 DEF Telling, Deeds
<1>5. Tells(h, ph, cl, ob, n, ct, bl, done)
  BY <1>1, <1>3 DEF Places, Tells
<1> HIDE DEF h
<1>6. h = At(ph, cl, ob, n, ct, bl, done)
  BY <1>4, <1>5, AtIs
<1>7. Way(a, p, <<Create(c)>>, g, h)
  BY <1>3, WayOne
<1> QED BY <1>4, <1>6, <1>7 DEF g

LEMMA WayDestroy ==
  ASSUME NEW a, NEW p, NEW ph, NEW cl, NEW ob, NEW dp, NEW ct, NEW bl, NEW done,
         Telling(ph, cl, ob, dp, ct, bl, done),
         ph = 7,
         NEW n, n = dp - 1,
         dp > 0,
         NEW c \in Classes(a)
  PROVE  /\ Way(a, p, <<Destroy(c)>>, At(ph, cl, ob, dp, ct, bl, done), At(ph, cl, ob, n, ct, bl, done))
         /\ Telling(ph, cl, ob, n, ct, bl, done)
<1> DEFINE g == At(ph, cl, ob, dp, ct, bl, done)  h == [g EXCEPT !.depth = @ - 1]
<1>1. Tells(g, ph, cl, ob, dp, ct, bl, done)
  BY AtFacts
<1> HIDE DEF g
<1>2. g \in Places /\ ~g.blank /\ g.ph = 7 /\ g.depth > 0
  BY <1>1 DEF Tells, Telling
<1>3. <<g, Destroy(c), h>> \in Protocol(a, p) /\ h \in Places
  BY <1>2, <1>1, DestroyMove DEF Tells
<1>4. Telling(ph, cl, ob, n, ct, bl, done)
  BY <1>1 DEF Telling, Deeds
<1>5. Tells(h, ph, cl, ob, n, ct, bl, done)
  BY <1>1, <1>3 DEF Places, Tells
<1> HIDE DEF h
<1>6. h = At(ph, cl, ob, n, ct, bl, done)
  BY <1>4, <1>5, AtIs
<1>7. Way(a, p, <<Destroy(c)>>, g, h)
  BY <1>3, WayOne
<1> QED BY <1>4, <1>6, <1>7 DEF g

LEMMA WayMine ==
  ASSUME NEW a, NEW p, NEW ph, NEW cl, NEW ob, NEW dp, NEW ct, NEW bl, NEW done,
         Telling(ph, cl, ob, dp, ct, bl, done),
         ph = 7,
         a.prog = "tasks",
         "mine" \notin done,
         ct = Turns(a) + p
  PROVE  /\ Way(a, p, <<[op |-> "print", what |-> "my stats"]>>, At(ph, cl, ob, dp, ct, bl, done), At(ph, cl, ob, dp, ct, bl, done \cup {"mine"}))
         /\ Telling(ph, cl, ob, dp, ct, bl, done \cup {"mine"})
<1> DEFINE g == At(ph, cl, ob, dp, ct, bl, done)  h == [g EXCEPT !.mine = TRUE]
<1>1. Tells(g, ph, cl, ob, dp, ct, bl, done)
  BY AtFacts
<1> HIDE DEF g
<1>2. g \in Places /\ ~g.blank /\ g.ph = 7 /\ ~g.mine /\ g.count = Turns(a) + p
  BY <1>1 DEF Tells, Telling
<1>3. <<g, [op |-> "print", what |-> "my stats"], h>> \in Protocol(a, p) /\ h \in Places
  BY <1>2, <1>1, MineMove DEF Tells
<1>4. Telling(ph, cl, ob, dp, ct, bl, done \cup {"mine"})
  BY <1>1 DEF Telling, Deeds
<1>5. Tells(h, ph, cl, ob, dp, ct, bl, done \cup {"mine"})
  BY <1>1, <1>3 DEF Places, Tells
<1> HIDE DEF h
<1>6. h = At(ph, cl, ob, dp, ct, bl, done \cup {"mine"})
  BY <1>4, <1>5, AtIs
<1>7. Way(a, p, <<[op |-> "print", what |-> "my stats"]>>, g, h)
  BY <1>3, WayOne
<1> QED BY <1>4, <1>6, <1>7 DEF g

LEMMA WayTotals ==
  ASSUME NEW a, NEW ph, NEW cl, NEW ob, NEW dp, NEW ct, NEW bl, NEW done,
         Telling(ph, cl, ob, dp, ct, bl, done),
         ph = 7,
         "totals" \notin done,
         a.prog = "tasks" => ct > Turns(a) + N
  PROVE  /\ Way(a, 0, <<[op |-> "print", what |-> "totals"]>>, At(ph, cl, ob, dp, ct, bl, done), At(ph, cl, ob, dp, ct, bl, done \cup {"totals"}))
         /\ Telling(ph, cl, ob, dp, ct, bl, done \cup {"totals"})
<1> DEFINE g == At(ph, cl, ob, dp, ct, bl, done)  h == [g EXCEPT !.totals = TRUE]
<1>1. Tells(g, ph, cl, ob, dp, ct, bl, done)
  BY AtFacts
<1> HIDE DEF g
<1>2. g \in Places /\ ~g.blank /\ g.ph = 7 /\ ~g.totals /\ g.count = ct
  BY <1>1 DEF Tells, Telling
<1>3. <<g, [op |-> "print", what |-> "totals"], h>> \in Protocol(a, 0) /\ h \in Places
  BY <1>2, <1>1, TotalsMove DEF Tells
<1>4. Telling(ph, cl, ob, dp, ct, bl, done \cup {"totals"})
  BY <1>1 DEF Telling, Deeds
<1>5. Tells(h, ph, cl, ob, dp, ct, bl, done \cup {"totals"})
  BY <1>1, <1>3 DEF Places, Tells
<1> HIDE DEF h
<1>6. h = At(ph, cl, ob, dp, ct, bl, done \cup {"totals"})
  BY <1>4, <1>5, AtIs
<1>7. Way(a, 0, <<[op |-> "print", what |-> "totals"]>>, g, h)
  BY <1>3, WayOne
<1> QED BY <1>4, <1>6, <1>7 DEF g

LEMMA WayFinalize ==
  ASSUME NEW a, NEW p, NEW ph, NEW cl, NEW ob, NEW dp, NEW ct, NEW bl, NEW done,
         Telling(ph, cl, ob, dp, ct, bl, done),
         ph = 9,
         NEW n, n = ct + 1
  PROVE  /\ Way(a, p, <<Step("finalize")>>, At(ph, cl, ob, dp, ct, bl, done), At(10, cl, ob, dp, n, bl, done))
         /\ Telling(10, cl, ob, dp, n, bl, done)
<1> DEFINE g == At(ph, cl, ob, dp, ct, bl, done)  h == [g EXCEPT !.ph = 10, !.count = @ + 1]
<1>1. Tells(g, ph, cl, ob, dp, ct, bl, done)
  BY AtFacts
<1> HIDE DEF g
<1>2. g \in Places /\ ~g.blank /\ g.ph = 9
  BY <1>1 DEF Tells, Telling
<1>3. <<g, Step("finalize"), h>> \in Protocol(a, p) /\ h \in Places
  BY <1>2, <1>1, FinalizeMove DEF Tells
<1>4. Telling(10, cl, ob, dp, n, bl, done)
  BY <1>1 DEF Telling, Deeds
<1>5. Tells(h, 10, cl, ob, dp, n, bl, done)
  BY <1>1, <1>3 DEF Places, Tells
<1> HIDE DEF h
<1>6. h = At(10, cl, ob, dp, n, bl, done)
  BY <1>4, <1>5, AtIs
<1>7. Way(a, p, <<Step("finalize")>>, g, h)
  BY <1>3, WayOne
<1> QED BY <1>4, <1>6, <1>7 DEF g

\* A step that leads to phase o.
LEMMA WayPhase ==
  ASSUME NEW a, NEW p, NEW ph, NEW cl, NEW ob, NEW dp, NEW ct, NEW bl, NEW done,
         Telling(ph, cl, ob, dp, ct, bl, done),
         NEW x \in Steps(a),
         x.op \in PhaseOps,
         Permits(a, p, At(ph, cl, ob, dp, ct, bl, done), x),
         NEW o \in 0..10,
         o = PhaseAfter(ph, x.op)
  PROVE  /\ Way(a, p, <<x>>, At(ph, cl, ob, dp, ct, bl, done), At(o, cl, ob, dp, ct, bl, done))
         /\ Telling(o, cl, ob, dp, ct, bl, done)
<1> DEFINE g == At(ph, cl, ob, dp, ct, bl, done)  h == [g EXCEPT !.ph = PhaseAfter(@, x.op)]
<1>1. Tells(g, ph, cl, ob, dp, ct, bl, done)
  BY AtFacts
<1> HIDE DEF g
<1>2. g \in Places /\ Permits(a, p, g, x)
  BY <1>1 DEF Tells, Telling, g
<1>3. <<g, x, h>> \in Protocol(a, p) /\ h \in Places
  BY <1>2, <1>1, PhaseMove DEF Tells
<1>4. Telling(o, cl, ob, dp, ct, bl, done)
  BY <1>1 DEF Telling, Deeds
<1>5. Tells(h, o, cl, ob, dp, ct, bl, done)
  BY <1>1, <1>3 DEF Places, Tells
<1> HIDE DEF h
<1>6. h = At(o, cl, ob, dp, ct, bl, done)
  BY <1>4, <1>5, AtIs
<1>7. Way(a, p, <<x>>, g, h)
  BY <1>3, WayOne
<1> QED BY <1>4, <1>6, <1>7 DEF g

\* Calls that tasks are made of, while tasks are seeded.
LEMMA WayWork ==
  ASSUME NEW a, NEW p, NEW cl, NEW ob, NEW dp, NEW ct, NEW bl, NEW done,
         Telling(4, cl, ob, dp, ct, bl, done),
         cl = Len(ClassNames(a)), ob = Len(ObjectNames(a)), ct < Entry(a),
         NEW kept, kept => "planted" \in done, NEW s \in WorkCalls(a, p, kept)
  PROVE  Way(a, p, s, At(4, cl, ob, dp, ct, bl, done), At(4, cl, ob, dp, ct, bl, done))
<1> DEFINE g == At(4, cl, ob, dp, ct, bl, done)
<1>1. Tells(g, 4, cl, ob, dp, ct, bl, done)
  BY AtFacts
<1> HIDE DEF g
<1>2. Working(a, g) /\ (kept => g.planted)
  BY <1>1 DEF Working, Complete, Tells
<1>3. Way(a, p, s, g, g)
  BY <1>2 DEF WorkCalls, Way
<1> QED BY <1>3 DEF g

\* Process 0 of bpc makes its tasks in a step of its own.
LEMMA WaySeed ==
  ASSUME NEW a, NEW p, NEW cl, NEW ob, NEW dp, NEW ct, NEW bl, NEW done,
         Telling(4, cl, ob, dp, ct, bl, done), a.prog = "bpc",
         cl = Len(ClassNames(a)), ob = Len(ObjectNames(a)), ct < Entry(a)
  PROVE  Way(a, p, <<Step("seed")>>, At(4, cl, ob, dp, ct, bl, done), At(4, cl, ob, dp, ct, bl, done))
<1> DEFINE g == At(4, cl, ob, dp, ct, bl, done)
<1>1. Tells(g, 4, cl, ob, dp, ct, bl, done)
  BY AtFacts
<1> HIDE DEF g
<1>2. Working(a, g) /\ g.ph = 4
  BY <1>1 DEF Working, Complete, Tells
<1>3. Step("seed") \in Steps(a) /\ Step("seed").op = "seed"
  BY DEF Step, Steps, PlainSteps
<1>4. <<g, Step("seed"), g>> \in Protocol(a, p)
  BY <1>2, <1>3, WorkMove
<1> QED BY <1>4, WayOne DEF g
-----------------------------------------------------------------------------
\* The steps between phases, and where they lead.
PhaseStep(a, x, ph, cl, ob, ct, o) ==
  \/ x.op = "init" /\ ph = 0 /\ a.prog # "tasks" /\ o = 1
  \/ x.op = "implicit_init" /\ ph = (IF a.prog = "tasks" THEN 0 ELSE 1) /\ o = 2
  \/ x.op = "register" /\ ph = 2 /\ o = 3
  \/ x.op = "clod_create" /\ ph = 3 /\ o = 4
  \/ x.op = "configure" /\ ph = 4 /\ o = 4
  \/ /\ x.op = "start" /\ ph = 4 /\ o = 7 /\ ct = Entry(a)
     /\ cl = Len(ClassNames(a)) /\ ob = Len(ObjectNames(a))
  \/ x.op = "evaluate" /\ ph = 7 /\ o = 7
  \/ x.op = "clod_destroy" /\ ph = 7 /\ ct > Entry(a) /\ o = 8
  \/ x.op = "release" /\ ph = 8 /\ o = 9

LEMMA WayAhead ==
  ASSUME NEW a, NEW p, NEW ph, NEW cl, NEW ob, NEW dp, NEW ct, NEW bl, NEW done,
         Telling(ph, cl, ob, dp, ct, bl, done), NEW x \in Steps(a), NEW o,
         PhaseStep(a, x, ph, cl, ob, ct, o)
  PROVE  /\ Way(a, p, <<x>>, At(ph, cl, ob, dp, ct, bl, done), At(o, cl, ob, dp, ct, bl, done))
         /\ Telling(o, cl, ob, dp, ct, bl, done)
<1> DEFINE g == At(ph, cl, ob, dp, ct, bl, done)
<1>1. Tells(g, ph, cl, ob, dp, ct, bl, done)
  BY AtFacts
<1>2. x.op \in PhaseOps /\ o \in 0..10 /\ o = PhaseAfter(ph, x.op)
  BY DEF PhaseStep, PhaseOps, InitOps, LoopOps, PhaseAfter
<1> HIDE DEF g
<1>3. Permits(a, p, g, x)
  BY <1>1 DEF PhaseStep, Tells, Permits, Complete, Mine, TotalsStep, SeedOps, WorkOps, LoopOps, CollectiveOps
<1> QED BY <1>2, <1>3, WayPhase DEF g

\* The memory of a collection.
OwnBlocks == {TcBlock, TdBlock, RingBlock, LockBlock}

\* Whose memory a block is: no two have the same owner.
Owner(b) == b[1][1]

LEMMA BlockOwners ==
  /\ Owner(TcBlock) = "collection" /\ Owner(TdBlock) = "detector" /\ Owner(RingBlock) = "ring"
  /\ Owner(LockBlock) = "lock"
  /\ Owner(StatBlocks("queue")) = "queue" /\ Owner(StatBlocks("common")) = "common"
<1>1. Owner(TcBlock) = "collection" /\ Owner(TdBlock) = "detector"
  BY DEF Owner, TcBlock, TdBlock
<1>2. Owner(RingBlock) = "ring" /\ Owner(LockBlock) = "lock"
  BY DEF Owner, RingBlock, LockBlock
<1>3. ASSUME NEW w PROVE StatBlocks(w)[1] = <<w, "times">>
  BY DEF StatBlocks
<1>4. ASSUME NEW w PROVE Owner(StatBlocks(w)) = w
  BY <1>3 DEF Owner
<1> QED BY <1>1, <1>2, <1>4

\* What is in a block is its owner's.
LEMMA BlockMembers ==
  ASSUME NEW b \in Blocks, NEW c \in ToSet(b)
  PROVE  c[1] = Owner(b)
<1>1. PICK i \in DOMAIN b : c = b[i]
  BY DEF ToSet
<1>2. CASE b \in {TcBlock, TdBlock, RingBlock, LockBlock}
  <2>1. DOMAIN b = {1}
    BY <1>2 DEF TcBlock, TdBlock, RingBlock, LockBlock
  <2> QED BY <1>1, <2>1 DEF Owner
<1>3. ASSUME NEW w, b = StatBlocks(w) PROVE c[1] = Owner(b)
  <2>1. ASSUME NEW j \in 1..8 PROVE StatBlocks(w)[j][1] = w
    BY DEF StatBlocks
  <2>2. DOMAIN b = 1..8
    BY <1>3 DEF StatBlocks
  <2> QED BY <1>1, <1>3, <2>1, <2>2 DEF Owner
<1> QED BY <1>2, <1>3 DEF Blocks

LEMMA BlocksDisjoint ==
  ASSUME NEW b \in Blocks, NEW c \in Blocks, b # c
  PROVE  ToSet(b) \cap ToSet(c) = {}
<1>1. Owner(b) # Owner(c)
  BY BlockOwners DEF Blocks
<1> QED BY <1>1, BlockMembers

LEMMA BlockFacts ==
  /\ OwnBlocks \subseteq Blocks /\ StatBlocks("queue") \in Blocks /\ StatBlocks("common") \in Blocks
  /\ TcBlock \in Blocks /\ TdBlock \in Blocks /\ RingBlock \in Blocks /\ LockBlock \in Blocks
  /\ StatBlocks("queue") \notin OwnBlocks /\ StatBlocks("common") \notin OwnBlocks
  /\ StatBlocks("queue") # StatBlocks("common")
  /\ TcBlock # TdBlock /\ TcBlock # RingBlock /\ TdBlock # RingBlock
  /\ LockBlock # TcBlock /\ LockBlock # TdBlock /\ LockBlock # RingBlock
<1>1. /\ TcBlock # TdBlock /\ TcBlock # RingBlock /\ TdBlock # RingBlock
      /\ LockBlock # TcBlock /\ LockBlock # TdBlock /\ LockBlock # RingBlock
      /\ StatBlocks("queue") # StatBlocks("common")
  BY BlockOwners
<1>2. StatBlocks("queue") \notin OwnBlocks /\ StatBlocks("common") \notin OwnBlocks
  BY BlockOwners DEF OwnBlocks
<1> QED BY <1>1, <1>2 DEF OwnBlocks, Blocks

LEMMA StepNames ==
  ASSUME NEW a
  PROVE  /\ Barrier \in Steps(a) /\ Barrier.op = "barrier"
         /\ \A o \in {"init", "implicit_init", "register", "clod_create", "clod_destroy", "evaluate",
                      "release", "start", "finalize"} : Step(o) \in Steps(a) /\ Step(o).op = o
         /\ [op |-> "configure", cfg |-> CfgInit] \in Steps(a)
<1>1. Step("barrier") \in Steps(a) /\ Step("barrier").op = "barrier"
  BY DEF Step, Steps, PlainSteps
<1>2. ASSUME NEW o \in {"init", "implicit_init", "register", "clod_create", "clod_destroy", "evaluate",
                        "release", "start", "finalize"}
      PROVE  Step(o) \in Steps(a) /\ Step(o).op = o
  BY DEF Step, Steps, PlainSteps, LoopOps, InitOps
<1>3. [op |-> "configure", cfg |-> CfgInit] \in Steps(a)
  BY DEF Steps, OtherSteps
<1> QED BY <1>1, <1>2, <1>3 DEF Barrier

LEMMA WayAllocWait ==
  ASSUME NEW a, NEW p, NEW cl, NEW ob, NEW dp, NEW ct, NEW bl, NEW done, NEW n, n = ct + 3,
         Telling(4, cl, ob, dp, ct, bl, done), n <= Entry(a), Entry(a) \in Nat, NEW b \in Blocks
  PROVE  /\ Way(a, p, <<Alloc(b), Barrier, Barrier>>, At(4, cl, ob, dp, ct, bl, done),
                At(4, cl, ob, dp, n, bl \cup {b}, done))
         /\ Telling(4, cl, ob, dp, n, bl \cup {b}, done)
<1> DEFINE k == bl \cup {b}
<1>0. ct \in Nat /\ ct < Entry(a) /\ ct + 1 < Entry(a) /\ ct + 2 < Entry(a) /\ ct + 2 = (ct + 1) + 1 /\ n = (ct + 2) + 1
      /\ Barrier \in Steps(a) /\ Barrier.op = "barrier"
  BY StepNames DEF Telling
<1>1. /\ Way(a, p, <<Alloc(b)>>, At(4, cl, ob, dp, ct, bl, done), At(4, cl, ob, dp, ct + 1, k, done))
      /\ Telling(4, cl, ob, dp, ct + 1, k, done)
  BY <1>0, WayAlloc
<1> HIDE DEF k
<1>2. /\ Way(a, p, <<Barrier>>, At(4, cl, ob, dp, ct + 1, k, done), At(4, cl, ob, dp, ct + 2, k, done))
      /\ Telling(4, cl, ob, dp, ct + 2, k, done)
  BY <1>0, <1>1, WayBarrier
<1>3. /\ Way(a, p, <<Barrier>>, At(4, cl, ob, dp, ct + 2, k, done), At(4, cl, ob, dp, n, k, done))
      /\ Telling(4, cl, ob, dp, n, k, done)
  BY <1>0, <1>2, WayBarrier
<1>4. Way(a, p, <<Barrier, Barrier>>, At(4, cl, ob, dp, ct + 1, k, done), At(4, cl, ob, dp, n, k, done))
  BY <1>2, <1>3, WayTwo
<1>5. Way(a, p, <<Alloc(b), Barrier, Barrier>>, At(4, cl, ob, dp, ct, bl, done), At(4, cl, ob, dp, n, k, done))
  BY <1>1, <1>4, WayThree
<1> QED BY <1>3, <1>5 DEF k

\* gtc_create
LEMMA WayGtcCreate ==
  ASSUME NEW a, NEW p, NEW ph, NEW cl, NEW ct, NEW n, n = ct + 8,
         ph = (IF a.prog = "tasks" THEN 0 ELSE 1),
         Telling(ph, cl, 0, 0, ct, {}, {}), n <= Entry(a), Entry(a) \in Nat
  PROVE  /\ Way(a, p, GtcCreate(CfgInit), At(ph, cl, 0, 0, ct, {}, {}), At(4, cl, 0, 0, n, OwnBlocks, {}))
         /\ Telling(4, cl, 0, 0, n, OwnBlocks, {})
<1> DEFINE b1 == {} \cup {TcBlock}  b2 == b1 \cup {TdBlock}  b3 == b2 \cup {RingBlock}
           b4 == b3 \cup {LockBlock}
           x1 == Step("implicit_init")  x2 == Alloc(TcBlock)  x3 == Step("register")
           x4 == Step("clod_create")  x5 == [op |-> "configure", cfg |-> CfgInit]
<1>0. ct \in Nat /\ ct < Entry(a) /\ ct + 1 + 3 = ct + 4 /\ ct + 4 <= Entry(a) /\ ct + 4 < Entry(a) /\ n = (ct + 5) + 3
      /\ ct + 5 = (ct + 4) + 1
  BY DEF Telling
<1>b. b4 = OwnBlocks
  BY DEF OwnBlocks
<1>x. /\ x1 \in Steps(a) /\ x1.op = "implicit_init" /\ x3 \in Steps(a) /\ x3.op = "register"
      /\ x4 \in Steps(a) /\ x4.op = "clod_create" /\ x5 \in Steps(a) /\ x5.op = "configure"
  BY StepNames
<1> HIDE DEF x1, x3, x4, x5, b1, b2, b3, b4
<1>1. Way(a, p, <<x1>>, At(ph, cl, 0, 0, ct, {}, {}), At(2, cl, 0, 0, ct, {}, {}))
      /\ Telling(2, cl, 0, 0, ct, {}, {})
  <2>1. PhaseStep(a, x1, ph, cl, 0, ct, 2)
    BY <1>x DEF PhaseStep
  <2> QED BY <2>1, <1>x, WayAhead
<1>2. Way(a, p, <<x2>>, At(2, cl, 0, 0, ct, {}, {}), At(2, cl, 0, 0, ct + 1, b1, {}))
      /\ Telling(2, cl, 0, 0, ct + 1, b1, {})
  BY <1>0, <1>1, BlockFacts, WayAlloc DEF b1
<1> HIDE DEF x2
<1>3. Way(a, p, <<x3>>, At(2, cl, 0, 0, ct + 1, b1, {}), At(3, cl, 0, 0, ct + 1, b1, {}))
      /\ Telling(3, cl, 0, 0, ct + 1, b1, {})
  <2>1. PhaseStep(a, x3, 2, cl, 0, ct + 1, 3)
    BY <1>x DEF PhaseStep
  <2> QED BY <2>1, <1>x, <1>2, WayAhead
<1>4. Way(a, p, <<x4>>, At(3, cl, 0, 0, ct + 1, b1, {}), At(4, cl, 0, 0, ct + 1, b1, {}))
      /\ Telling(4, cl, 0, 0, ct + 1, b1, {})
  <2>1. PhaseStep(a, x4, 3, cl, 0, ct + 1, 4)
    BY <1>x DEF PhaseStep
  <2> QED BY <2>1, <1>x, <1>3, WayAhead
<1>5. Way(a, p, TdCreate, At(4, cl, 0, 0, ct + 1, b1, {}), At(4, cl, 0, 0, ct + 4, b2, {}))
      /\ Telling(4, cl, 0, 0, ct + 4, b2, {})
  BY <1>0, <1>4, BlockFacts, WayAllocWait DEF TdCreate, b2
<1>6. Way(a, p, <<x5>>, At(4, cl, 0, 0, ct + 4, b2, {}), At(4, cl, 0, 0, ct + 4, b2, {}))
  <2>1. PhaseStep(a, x5, 4, cl, 0, ct + 4, 4)
    BY <1>x DEF PhaseStep
  <2> QED BY <2>1, <1>x, <1>5, WayAhead
<1>7. Way(a, p, QueueCreate, At(4, cl, 0, 0, ct + 4, b2, {}), At(4, cl, 0, 0, n, b4, {}))
      /\ Telling(4, cl, 0, 0, n, b4, {})
  <2>1. /\ Way(a, p, <<Alloc(RingBlock)>>, At(4, cl, 0, 0, ct + 4, b2, {}), At(4, cl, 0, 0, ct + 5, b3, {}))
        /\ Telling(4, cl, 0, 0, ct + 5, b3, {})
    BY <1>0, <1>5, BlockFacts, WayAlloc DEF b3
  <2> DEFINE lock == <<Alloc(LockBlock), Barrier, Barrier>>
  <2>2. /\ Way(a, p, lock, At(4, cl, 0, 0, ct + 5, b3, {}), At(4, cl, 0, 0, n, b4, {}))
        /\ Telling(4, cl, 0, 0, n, b4, {})
    BY <1>0, <2>1, BlockFacts, WayAllocWait DEF b4
  <2>3. QueueCreate = <<Alloc(RingBlock)>> \o lock
    BY DEF QueueCreate
  <2> HIDE DEF lock
  <2>4. Way(a, p, <<Alloc(RingBlock)>> \o lock, At(4, cl, 0, 0, ct + 4, b2, {}), At(4, cl, 0, 0, n, b4, {}))
    BY <2>1, <2>2, WayCat
  <2> QED BY <2>2, <2>3, <2>4
<1>8. Way(a, p, <<x1, x2, x3>>, At(ph, cl, 0, 0, ct, {}, {}), At(3, cl, 0, 0, ct + 1, b1, {}))
  <2>1. Way(a, p, <<x2, x3>>, At(2, cl, 0, 0, ct, {}, {}), At(3, cl, 0, 0, ct + 1, b1, {}))
    BY <1>2, <1>3, WayTwo
  <2> QED BY <2>1, <1>1, WayThree
<1>9. Way(a, p, <<x1, x2, x3, x4>>, At(ph, cl, 0, 0, ct, {}, {}), At(4, cl, 0, 0, ct + 1, b1, {}))
  BY <1>8, <1>4, WayFour
<1>10. Way(a, p, <<x1, x2, x3, x4>> \o TdCreate, At(ph, cl, 0, 0, ct, {}, {}), At(4, cl, 0, 0, ct + 4, b2, {}))
  BY <1>9, <1>5, WayCat
<1>11. Way(a, p, (<<x1, x2, x3, x4>> \o TdCreate) \o <<x5>>, At(ph, cl, 0, 0, ct, {}, {}), At(4, cl, 0, 0, ct + 4, b2, {}))
  BY <1>10, <1>6, WayCat
<1>12. Way(a, p, ((<<x1, x2, x3, x4>> \o TdCreate) \o <<x5>>) \o QueueCreate,
           At(ph, cl, 0, 0, ct, {}, {}), At(4, cl, 0, 0, n, b4, {}))
  BY <1>11, <1>7, WayCat
<1>13. GtcCreate(CfgInit) = ((<<x1, x2, x3, x4>> \o TdCreate) \o <<x5>>) \o QueueCreate
  BY Zenon DEF GtcCreate, x1, x2, x3, x4, x5
<1>14. Way(a, p, GtcCreate(CfgInit), At(ph, cl, 0, 0, ct, {}, {}), At(4, cl, 0, 0, n, b4, {}))
  BY <1>12, <1>13, Zenon
<1> QED BY <1>7, <1>14, <1>b
-----------------------------------------------------------------------------
\* gtc_process: the processes meet, and each comes back from its loop in phase 7.
LEMMA WayGtcProcess ==
  ASSUME NEW a, NEW p, NEW cl, NEW ob, NEW dp, NEW ct, NEW n, n = ct + 1, NEW bl, NEW done,
         Telling(4, cl, ob, dp, ct, bl, done), n = Entry(a),
         cl = Len(ClassNames(a)), ob = Len(ObjectNames(a))
  PROVE  /\ Way(a, p, GtcProcess, At(4, cl, ob, dp, ct, bl, done), At(7, cl, ob, dp, n, bl, done))
         /\ Telling(7, cl, ob, dp, n, bl, done)
<1> DEFINE x == Step("start")
<1>0. ct < Entry(a) /\ Barrier \in Steps(a) /\ Barrier.op = "barrier" /\ x \in Steps(a) /\ x.op = "start"
  BY StepNames DEF Telling
<1> HIDE DEF x
<1>1. /\ Way(a, p, <<Barrier>>, At(4, cl, ob, dp, ct, bl, done), At(4, cl, ob, dp, n, bl, done))
      /\ Telling(4, cl, ob, dp, n, bl, done)
  BY <1>0, WayBarrier
<1>2. /\ Way(a, p, <<x>>, At(4, cl, ob, dp, n, bl, done), At(7, cl, ob, dp, n, bl, done))
      /\ Telling(7, cl, ob, dp, n, bl, done)
  <2>1. PhaseStep(a, x, 4, cl, ob, n, 7)
    BY <1>0 DEF PhaseStep
  <2> QED BY <2>1, <1>0, <1>1, WayAhead
<1>3. Way(a, p, <<Barrier, x>>, At(4, cl, ob, dp, ct, bl, done), At(7, cl, ob, dp, n, bl, done))
  BY <1>1, <1>2, WayTwo
<1> QED BY <1>2, <1>3 DEF GtcProcess, x

LEMMA WayMeet ==
  ASSUME NEW a, NEW p, NEW cl, NEW ob, NEW dp, NEW ct, NEW n, n = ct + 1, NEW bl, NEW done,
         Telling(7, cl, ob, dp, ct, bl, done), NEW x \in Steps(a), x.op \in {"barrier", "reduce"}
  PROVE  /\ Way(a, p, <<x>>, At(7, cl, ob, dp, ct, bl, done), At(7, cl, ob, dp, n, bl, done))
         /\ Telling(7, cl, ob, dp, n, bl, done)
<1>1. 7 \in {1, 2, 3, 4, 7, 8, 9} /\ ~(7 < 5)
  OBVIOUS
<1> QED BY <1>1, WayBarrier

LEMMA ReduceSteps ==
  ASSUME NEW a, NEW fn \in {"min", "max", "sum"}, NEW vs \in ReduceVars
  PROVE  Reduce(fn, vs) \in Steps(a) /\ Reduce(fn, vs).op = "reduce"
BY DEF Reduce, Steps, OtherSteps

LEMMA WayStatReduce ==
  ASSUME NEW a, NEW p, NEW cl, NEW ob, NEW dp, NEW ct, NEW n, n = ct + 4, NEW bl, NEW done,
         Telling(7, cl, ob, dp, ct, bl, done)
  PROVE  /\ Way(a, p, StatReduce, At(7, cl, ob, dp, ct, bl, done), At(7, cl, ob, dp, n, bl, done))
         /\ Telling(7, cl, ob, dp, n, bl, done)
<1> DEFINE x1 == Reduce("min", <<>>)  x2 == Reduce("max", <<>>)
           x3 == Reduce("sum", <<"tasks_completed">>)  x4 == Barrier
<1>0. /\ x1 \in Steps(a) /\ x1.op = "reduce" /\ x2 \in Steps(a) /\ x2.op = "reduce"
      /\ x3 \in Steps(a) /\ x3.op = "reduce" /\ x4 \in Steps(a) /\ x4.op = "barrier"
  <2>1. <<"tasks_completed">> \in ReduceVars /\ <<>> \in ReduceVars
    BY DEF ReduceVars
  <2> QED BY <2>1, ReduceSteps, StepNames
<1>c. ct \in Nat /\ (ct + 1) + 1 = ct + 2 /\ (ct + 2) + 1 = ct + 3 /\ n = (ct + 3) + 1
  BY DEF Telling
<1> HIDE DEF x1, x2, x3, x4
<1>1. /\ Way(a, p, <<x1>>, At(7, cl, ob, dp, ct, bl, done), At(7, cl, ob, dp, ct + 1, bl, done))
      /\ Telling(7, cl, ob, dp, ct + 1, bl, done)
  BY <1>0, WayMeet
<1>2. /\ Way(a, p, <<x2>>, At(7, cl, ob, dp, ct + 1, bl, done), At(7, cl, ob, dp, ct + 2, bl, done))
      /\ Telling(7, cl, ob, dp, ct + 2, bl, done)
  BY <1>0, <1>c, <1>1, WayMeet
<1>3. /\ Way(a, p, <<x3>>, At(7, cl, ob, dp, ct + 2, bl, done), At(7, cl, ob, dp, ct + 3, bl, done))
      /\ Telling(7, cl, ob, dp, ct + 3, bl, done)
  BY <1>0, <1>c, <1>2, WayMeet
<1>4. /\ Way(a, p, <<x4>>, At(7, cl, ob, dp, ct + 3, bl, done), At(7, cl, ob, dp, n, bl, done))
      /\ Telling(7, cl, ob, dp, n, bl, done)
  BY <1>0, <1>c, <1>3, WayMeet
<1>5. Way(a, p, <<x2, x3>>, At(7, cl, ob, dp, ct + 1, bl, done), At(7, cl, ob, dp, ct + 3, bl, done))
  BY <1>2, <1>3, WayTwo
<1>6. Way(a, p, <<x1, x2, x3>>, At(7, cl, ob, dp, ct, bl, done), At(7, cl, ob, dp, ct + 3, bl, done))
  BY <1>1, <1>5, WayThree
<1>7. Way(a, p, <<x1, x2, x3, x4>>, At(7, cl, ob, dp, ct, bl, done), At(7, cl, ob, dp, n, bl, done))
  BY <1>4, <1>6, WayFour
<1> QED BY <1>4, <1>7 DEF StatReduce, x1, x2, x3, x4

\* gtc_print_gstats_saws and gtc_print_gstats_sdc give back what they allocate.
LEMMA WayQueueGstats ==
  ASSUME NEW a, NEW p, NEW cl, NEW ob, NEW dp, NEW ct, NEW n, n = ct + 6, NEW bl, NEW done,
         Telling(7, cl, ob, dp, ct, bl, done), StatBlocks("queue") \notin bl
  PROVE  /\ Way(a, p, QueueGstats, At(7, cl, ob, dp, ct, bl, done), At(7, cl, ob, dp, n, bl, done))
         /\ Telling(7, cl, ob, dp, n, bl, done)
<1> DEFINE b == StatBlocks("queue")  k == bl \cup {b}  l == k \ {b}
<1>0. b \in Blocks /\ ct \in Nat /\ (ct + 1) + 4 = ct + 5 /\ n = (ct + 5) + 1 /\ l = bl
      /\ 7 \in {1, 2, 3, 4, 7, 8, 9} /\ ~(7 < 5)
  BY BlockFacts DEF Telling
<1> HIDE DEF b
<1>1. /\ Way(a, p, <<Alloc(b)>>, At(7, cl, ob, dp, ct, bl, done), At(7, cl, ob, dp, ct + 1, k, done))
      /\ Telling(7, cl, ob, dp, ct + 1, k, done)
  BY <1>0, WayAlloc
<1> HIDE DEF k
<1>2. /\ Way(a, p, StatReduce, At(7, cl, ob, dp, ct + 1, k, done), At(7, cl, ob, dp, ct + 5, k, done))
      /\ Telling(7, cl, ob, dp, ct + 5, k, done)
  BY <1>0, <1>1, WayStatReduce
<1>3. /\ Way(a, p, <<Free(b)>>, At(7, cl, ob, dp, ct + 5, k, done), At(7, cl, ob, dp, n, l, done))
      /\ Telling(7, cl, ob, dp, n, l, done)
  BY <1>0, <1>2, WayFree
<1>4. Way(a, p, <<Alloc(b)>> \o StatReduce, At(7, cl, ob, dp, ct, bl, done), At(7, cl, ob, dp, ct + 5, k, done))
  BY <1>1, <1>2, WayCat
<1>5. Way(a, p, (<<Alloc(b)>> \o StatReduce) \o <<Free(b)>>, At(7, cl, ob, dp, ct, bl, done),
          At(7, cl, ob, dp, n, l, done))
  <2> HIDE DEF l
  <2> QED BY <1>4, <1>3, WayCat
<1>6. QueueGstats = (<<Alloc(b)>> \o StatReduce) \o <<Free(b)>>
  BY Zenon DEF QueueGstats, b
<1>7. Way(a, p, QueueGstats, At(7, cl, ob, dp, ct, bl, done), At(7, cl, ob, dp, n, l, done))
  BY <1>5, <1>6, Zenon
<1> QED BY <1>0, <1>3, <1>7

\* The processes take turns: process p prints in turn p.
LEMMA WayNodeStats ==
  ASSUME NEW a, a.prog = "tasks", NEW p \in Procs, NEW cl, NEW ob, NEW dp, NEW ct, NEW n, NEW bl,
         Telling(7, cl, ob, dp, ct, bl, {}), ct = Turns(a), n = ct + N + 1
  PROVE  /\ Way(a, p, NodeStats(N, p), At(7, cl, ob, dp, ct, bl, {}), At(7, cl, ob, dp, n, bl, {"mine"}))
         /\ Telling(7, cl, ob, dp, n, bl, {"mine"})
<1> DEFINE S == Steps(a)
           turn(i) == (IF i - 1 = p THEN MyStats ELSE <<>>) \o <<Barrier>>
           g == [i \in 1..(N + 1) |-> turn(i)]
           done(i) == IF i > p THEN {"mine"} ELSE {}
           here(i) == At(7, cl, ob, dp, ct + i, bl, done(i))
           A == {i \in Nat : i <= N + 1 => /\ Way(a, p, Joined(g, i), here(0), here(i))
                                           /\ Telling(7, cl, ob, dp, ct + i, bl, done(i))}
<1>0. N \in Nat /\ p \in 0..(N-1) /\ ct \in Nat /\ Barrier \in S /\ Barrier.op = "barrier"
  BY NAssumption, StepNames DEF Telling, Procs
<1>1. ASSUME NEW i \in 0..N, Telling(7, cl, ob, dp, ct + i, bl, done(i))
      PROVE  /\ Way(a, p, turn(i + 1), here(i), here(i + 1))
             /\ Telling(7, cl, ob, dp, ct + i + 1, bl, done(i + 1))
  <2>1. CASE i = p
    <3> DEFINE k == ct + i
    <3>1. done(i) = {} /\ done(i + 1) = {"mine"} /\ k = Turns(a) + p /\ (i + 1) - 1 = p /\ k \in Nat
          /\ ct + (i + 1) = k + 1 /\ ct + i + 1 = k + 1
      BY <2>1, <1>0
    <3>t. {} \cup {"mine"} = {"mine"} /\ "mine" \notin {}
      OBVIOUS
    <3>2. /\ Way(a, p, MyStats, At(7, cl, ob, dp, k, bl, {}), At(7, cl, ob, dp, k, bl, {} \cup {"mine"}))
          /\ Telling(7, cl, ob, dp, k, bl, {} \cup {"mine"})
      <4>1. Telling(7, cl, ob, dp, k, bl, {})
        BY <1>1, <3>1
      <4> HIDE DEF k
      <4> QED BY <4>1, <3>1, <3>t, WayMine DEF MyStats
    <3>3. /\ Way(a, p, <<Barrier>>, At(7, cl, ob, dp, k, bl, {"mine"}), At(7, cl, ob, dp, k + 1, bl, {"mine"}))
          /\ Telling(7, cl, ob, dp, k + 1, bl, {"mine"})
      <4> HIDE DEF k
      <4> QED BY <3>2, <3>t, <1>0, WayMeet
    <3>4. Way(a, p, MyStats \o <<Barrier>>, At(7, cl, ob, dp, k, bl, {}), At(7, cl, ob, dp, k + 1, bl, {"mine"}))
      <4> HIDE DEF k
      <4> QED BY <3>2, <3>3, <3>t, WayCat
    <3>5. turn(i + 1) = MyStats \o <<Barrier>>
      BY <3>1
    <3> HIDE DEF turn, done, k
    <3> QED BY <3>1, <3>3, <3>4, <3>5 DEF k
  <2>2. CASE i # p
    <3> DEFINE k == ct + i  d == done(i)
    <3>1. done(i + 1) = d /\ (i + 1) - 1 # p /\ k \in Nat /\ ct + (i + 1) = k + 1 /\ ct + i + 1 = k + 1
      BY <2>2, <1>0
    <3>2. /\ Way(a, p, <<Barrier>>, At(7, cl, ob, dp, k, bl, d), At(7, cl, ob, dp, k + 1, bl, d))
          /\ Telling(7, cl, ob, dp, k + 1, bl, d)
      <4>1. Telling(7, cl, ob, dp, k, bl, d)
        BY <1>1
      <4> HIDE DEF k, d
      <4> QED BY <4>1, <1>0, WayMeet
    <3>3. turn(i + 1) = <<>> \o <<Barrier>>
      BY <3>1
    <3>4. <<>> \o <<Barrier>> = <<Barrier>>
      <4>1. <<Barrier>> \in Seq(S)
        BY <1>0
      <4> QED BY <4>1, ConcatEmptySeq
    <3> HIDE DEF turn, done, k, d
    <3> QED BY <3>1, <3>2, <3>3, <3>4 DEF k, d
  <2> QED BY <2>1, <2>2
<1>g. g \in [1..(N + 1) -> Seq(S)]
  <2>1. MyStats \in Seq(S) /\ <<>> \in Seq(S) /\ <<Barrier>> \in Seq(S)
    <3> DEFINE x == [op |-> "print", what |-> "my stats"]
    <3>1. x \in S
      BY DEF Steps, OtherSteps
    <3>2. MyStats = <<x>> /\ <<>> \in Seq(S)
      BY DEF MyStats
    <3> HIDE DEF S, x
    <3>3. <<x>> \in Seq(S) /\ <<Barrier>> \in Seq(S)
      BY <3>1, <1>0, SingleSeq
    <3> QED BY <3>2, <3>3
  <2>2. ASSUME NEW i \in 1..(N + 1) PROVE turn(i) \in Seq(S)
    <3>1. (IF i - 1 = p THEN MyStats ELSE <<>>) \in Seq(S)
      BY <2>1
    <3> HIDE DEF S
    <3> QED BY <3>1, <2>1, ConcatProperties
  <2> HIDE DEF turn
  <2> QED BY <2>2
<1>j. /\ Joined(g, 0) = <<>>
      /\ \A i \in 0..(N + 1) : Joined(g, i) \in Seq(S)
      /\ \A i \in 0..N : Joined(g, i+1) = Joined(g, i) \o turn(i+1)
  <2>1. \A i \in 0..((N + 1)-1) : Joined(g, i+1) = Joined(g, i) \o g[i+1]
    <3> DEFINE m == N + 1
    <3>1. m \in Nat /\ g \in [1..m -> Seq(S)]
      BY <1>g, <1>0
    <3> HIDE DEF g, S, m
    <3>2. \A i \in 0..(m-1) : Joined(g, i+1) = Joined(g, i) \o g[i+1]
      BY <3>1, JoinedUnfolds, Zenon
    <3> QED BY <3>2 DEF m
  <2>2. Joined(g, 0) = <<>> /\ \A i \in 0..(N + 1) : Joined(g, i) \in Seq(S)
    <3> HIDE DEF g, S
    <3> QED BY <1>g, <1>0, JoinedUnfolds
  <2>3. \A i \in 0..N : i + 1 \in 1..(N + 1) /\ i \in 0..((N + 1)-1)
    BY <1>0
  <2>4. \A i \in 1..(N+1) : g[i] = turn(i)
    OBVIOUS
  <2> HIDE DEF g, turn, S
  <2> QED BY <2>1, <2>2, <2>3, <2>4
<1>2. 0 \in A
  <2>1. done(0) = {} /\ ct + 0 = ct
    BY <1>0
  <2>2. Way(a, p, Joined(g, 0), here(0), here(0))
    <3> HIDE DEF g, here
    <3> QED BY <1>j, WayNothing
  <2>3. Telling(7, cl, ob, dp, ct + 0, bl, done(0))
    BY <2>1
  <2> HIDE DEF g, here, done
  <2> QED BY <2>2, <2>3
<1>3. ASSUME NEW i \in Nat, i \in A PROVE i + 1 \in A
  <2> SUFFICES ASSUME i + 1 <= N + 1
               PROVE  /\ Way(a, p, Joined(g, i + 1), here(0), here(i + 1))
                      /\ Telling(7, cl, ob, dp, ct + (i + 1), bl, done(i + 1))
    <3> HIDE DEF g, here, done
    <3> QED OBVIOUS
  <2>1. i \in 0..N /\ i <= N + 1 /\ ct + (i + 1) = ct + i + 1
    BY <1>0
  <2>2. Way(a, p, Joined(g, i), here(0), here(i)) /\ Telling(7, cl, ob, dp, ct + i, bl, done(i))
    <3> HIDE DEF g, here, done
    <3> QED BY <2>1, <1>3
  <2>3. /\ Way(a, p, turn(i + 1), here(i), here(i + 1))
        /\ Telling(7, cl, ob, dp, ct + i + 1, bl, done(i + 1))
    <3> HIDE DEF here, done, turn
    <3> QED BY <2>1, <2>2, <1>1
  <2>4. Joined(g, i+1) = Joined(g, i) \o turn(i+1)
    BY <2>1, <1>j
  <2> HIDE DEF here, done, turn, g
  <2>5. Way(a, p, Joined(g, i) \o turn(i + 1), here(0), here(i + 1))
    BY <2>2, <2>3, WayCat
  <2> QED BY <2>1, <2>3, <2>4, <2>5
<1> HIDE DEF A
<1>4. Nat \subseteq A
  BY <1>2, <1>3, SetInduction
<1>5. /\ Way(a, p, Joined(g, N + 1), here(0), here(N + 1))
      /\ Telling(7, cl, ob, dp, ct + (N + 1), bl, done(N + 1))
  <2>1. N + 1 \in Nat /\ N + 1 <= N + 1
    BY <1>0
  <2> HIDE DEF here, done, g
  <2> QED BY <2>1, <1>4 DEF A
<1>6. done(0) = {} /\ ct + 0 = ct /\ done(N + 1) = {"mine"} /\ ct + (N + 1) = n
  BY <1>0
<1>7. Joined(g, N + 1) = NodeStats(N, p)
  <2>1. [i \in 1..(N + 1) |-> g[i]] = g
    OBVIOUS
  <2> QED BY <2>1 DEF Joined, NodeStats
<1> HIDE DEF done, g
<1> QED BY <1>5, <1>6, <1>7
-----------------------------------------------------------------------------
\* gtc_print_stats: with the per-node statistics in test-task only.
LEMMA WayPrintStats ==
  ASSUME NEW a, NEW p \in Procs, NEW pernode \in BOOLEAN, pernode <=> a.prog = "tasks",
         NEW cl, NEW ob, NEW dp, NEW ct, NEW bl, NEW d0, Telling(7, cl, ob, dp, ct, bl, d0), bl \subseteq OwnBlocks,
         "totals" \notin d0, pernode => d0 = {},
         pernode => ct + 1 = Turns(a) /\ Entry(a) \in Nat
  PROVE  \E n \in Nat : \E done :
           /\ n > ct
           /\ Way(a, p, GtcPrintStats(N, p, pernode), At(7, cl, ob, dp, ct, bl, d0), At(7, cl, ob, dp, n, bl, done))
           /\ Telling(7, cl, ob, dp, n, bl, done)
<1> DEFINE b == StatBlocks("common")  k == bl \cup {b}  l == k \ {b}
           e  == IF pernode THEN N + 1 ELSE 0
           d1 == IF pernode THEN {"mine"} ELSE d0
           d2 == IF p = 0 THEN d1 \cup {"totals"} ELSE d1
           s0 == IF pernode THEN NodeStats(N, p) ELSE <<>>
           s1 == IF p = 0 THEN <<[op |-> "print", what |-> "totals"]>> ELSE <<>>
           c1 == ct + 1  c2 == c1 + e  c3 == c2 + 1  c4 == c3 + 1  c5 == c4 + 4  c6 == c5 + 6  c7 == c6 + 1
           n == c7 + 1
           h(c, bs, d) == At(7, cl, ob, dp, c, bs, d)
<1>0. /\ N \in Nat \ {0} /\ p \in 0..(N-1) /\ ct \in Nat /\ e \in Nat
      /\ Barrier \in Steps(a) /\ Barrier.op = "barrier"
      /\ b \in Blocks /\ l = bl /\ StatBlocks("queue") \notin k
      /\ 7 \in {1, 2, 3, 4, 7, 8, 9} /\ ~(7 < 5)
  BY NAssumption, StepNames, BlockFacts DEF Telling, Procs
<1>d. "totals" \notin d1
  OBVIOUS
<1> HIDE DEF b
<1>1. Way(a, p, <<Barrier>>, h(ct, bl, d0), h(c1, bl, d0)) /\ Telling(7, cl, ob, dp, c1, bl, d0)
  BY <1>0, WayMeet
<1>2. Way(a, p, s0, h(c1, bl, d0), h(c2, bl, d1)) /\ Telling(7, cl, ob, dp, c2, bl, d1)
  <2>1. CASE pernode
    <3>1. c2 = c1 + N + 1 /\ c1 = Turns(a) /\ d1 = {"mine"} /\ d0 = {} /\ s0 = NodeStats(N, p) /\ a.prog = "tasks"
      BY <2>1, <1>0
    <3> HIDE DEF c1, c2, d1, s0
    <3> QED BY <3>1, <1>1, WayNodeStats
  <2>2. CASE ~pernode
    <3>1. c2 = c1 /\ d1 = d0 /\ s0 = <<>>
      BY <2>2, <1>0
    <3> HIDE DEF c1, c2, d1, s0
    <3> QED BY <3>1, <1>1, WayNothing
  <2> QED BY <2>1, <2>2
<1>c. /\ c1 \in Nat /\ c2 \in Nat /\ c3 \in Nat /\ c4 \in Nat /\ c5 \in Nat /\ c6 \in Nat /\ c7 \in Nat
      /\ n \in Nat /\ n > ct /\ (a.prog = "tasks" => c5 > Turns(a) + N)
  BY <1>0 
<1>t. (a.prog = "tasks" => c5 > Turns(a) + N)
  BY <1>c
<1> HIDE DEF c1, c2, s0, d1
<1>3. Way(a, p, <<Barrier>>, h(c2, bl, d1), h(c3, bl, d1)) /\ Telling(7, cl, ob, dp, c3, bl, d1)
  BY <1>0, <1>2, WayMeet
<1> HIDE DEF c3
<1>4. Way(a, p, <<Alloc(b)>>, h(c3, bl, d1), h(c4, k, d1)) /\ Telling(7, cl, ob, dp, c4, k, d1)
  BY <1>0, <1>3, WayAlloc
<1> HIDE DEF c4, k
<1>5. Way(a, p, StatReduce, h(c4, k, d1), h(c5, k, d1)) /\ Telling(7, cl, ob, dp, c5, k, d1)
  BY <1>0, <1>4, WayStatReduce
<1> HIDE DEF c5
<1>6. Way(a, p, s1, h(c5, k, d1), h(c5, k, d2)) /\ Telling(7, cl, ob, dp, c5, k, d2)
  <2>1. CASE p = 0
    <3> DEFINE x == [op |-> "print", what |-> "totals"]  d == d1 \cup {"totals"}
    <3>1. /\ Way(a, 0, <<x>>, h(c5, k, d1), h(c5, k, d))
          /\ Telling(7, cl, ob, dp, c5, k, d)
      BY <1>5, <1>d, <1>t, WayTotals
    <3>2. d2 = d /\ s1 = <<x>>
      BY <2>1
    <3> HIDE DEF x, d, d2, s1, h
    <3> QED BY <3>1, <3>2, <2>1
  <2>2. CASE p # 0
    <3>1. d2 = d1 /\ s1 = <<>>
      BY <2>2
    <3> HIDE DEF d2, s1
    <3> QED BY <3>1, <1>5, WayNothing
  <2> QED BY <2>1, <2>2
<1> HIDE DEF d2, s1
<1>7. Way(a, p, QueueGstats, h(c5, k, d2), h(c6, k, d2)) /\ Telling(7, cl, ob, dp, c6, k, d2)
  BY <1>0, <1>6, WayQueueGstats
<1> HIDE DEF c6
<1>8. Way(a, p, <<Free(b)>>, h(c6, k, d2), h(c7, l, d2)) /\ Telling(7, cl, ob, dp, c7, l, d2)
  BY <1>0, <1>7, WayFree
<1> HIDE DEF c7, l
<1>9. Way(a, p, <<Barrier>>, h(c7, l, d2), h(n, l, d2)) /\ Telling(7, cl, ob, dp, n, l, d2)
  BY <1>0, <1>8, WayMeet
<1> HIDE DEF n, h
<1>10. Way(a, p, <<Free(b), Barrier>>, h(c6, k, d2), h(n, l, d2))
  BY <1>8, <1>9, WayTwo
<1>11. Way(a, p, <<Barrier>> \o s0, h(ct, bl, d0), h(c2, bl, d1))
  BY <1>1, <1>2, WayCat
<1>12. Way(a, p, (<<Barrier>> \o s0) \o <<Barrier>>, h(ct, bl, d0), h(c3, bl, d1))
  BY <1>11, <1>3, WayCat
<1>13. Way(a, p, ((<<Barrier>> \o s0) \o <<Barrier>>) \o <<Alloc(b)>>, h(ct, bl, d0), h(c4, k, d1))
  BY <1>12, <1>4, WayCat
<1>14. Way(a, p, (((<<Barrier>> \o s0) \o <<Barrier>>) \o <<Alloc(b)>>) \o StatReduce, h(ct, bl, d0), h(c5, k, d1))
  BY <1>13, <1>5, WayCat
<1>15. Way(a, p, ((((<<Barrier>> \o s0) \o <<Barrier>>) \o <<Alloc(b)>>) \o StatReduce) \o s1, h(ct, bl, d0), h(c5, k, d2))
  BY <1>14, <1>6, WayCat
<1>16. Way(a, p, (((((<<Barrier>> \o s0) \o <<Barrier>>) \o <<Alloc(b)>>) \o StatReduce) \o s1) \o QueueGstats,
           h(ct, bl, d0), h(c6, k, d2))
  BY <1>15, <1>7, WayCat
<1>17. Way(a, p, ((((((<<Barrier>> \o s0) \o <<Barrier>>) \o <<Alloc(b)>>) \o StatReduce) \o s1) \o QueueGstats)
                 \o <<Free(b), Barrier>>, h(ct, bl, d0), h(n, l, d2))
  BY <1>16, <1>10, WayCat
<1>18. GtcPrintStats(N, p, pernode) =
         ((((((<<Barrier>> \o s0) \o <<Barrier>>) \o <<Alloc(b)>>) \o StatReduce) \o s1) \o QueueGstats)
         \o <<Free(b), Barrier>>
  BY Zenon DEF GtcPrintStats, s0, s1, b
<1>19. Way(a, p, GtcPrintStats(N, p, pernode), h(ct, bl, d0), h(n, l, d2))
  BY <1>17, <1>18, Zenon
<1> QED BY <1>0, <1>c, <1>9, <1>19 DEF h

\* gtc_destroy
LEMMA WayGtcDestroy ==
  ASSUME NEW a, NEW p, NEW cl, NEW ob, NEW dp, NEW ct, NEW done, Telling(7, cl, ob, dp, ct, OwnBlocks, done),
         Entry(a) \in Nat, ct >= Entry(a)
  PROVE  /\ Way(a, p, GtcDestroy, At(7, cl, ob, dp, ct, OwnBlocks, done), At(9, cl, ob, dp, ct + 3, {LockBlock}, done))
         /\ Telling(9, cl, ob, dp, ct + 3, {LockBlock}, done)
<1> DEFINE b1 == OwnBlocks \ {RingBlock}  b2 == b1 \ {TdBlock}  b3 == b2 \ {TcBlock}
           x1 == Step("clod_destroy")  x2 == Step("release")
           y1 == Free(RingBlock)  y2 == Free(TdBlock)  y3 == Free(TcBlock)
           h(ph, c, b) == At(ph, cl, ob, dp, c, b, done)
<1>0. /\ x1 \in Steps(a) /\ x1.op = "clod_destroy" /\ x2 \in Steps(a) /\ x2.op = "release"
      /\ b3 = {LockBlock} /\ ct \in Nat /\ ct + 2 = (ct + 1) + 1 /\ ct + 3 = (ct + 2) + 1
      /\ TcBlock \in Blocks /\ TdBlock \in Blocks /\ RingBlock \in Blocks
      /\ 7 \in {1, 2, 3, 4, 7, 8, 9} /\ ~(7 < 5) /\ 8 \in {1, 2, 3, 4, 7, 8, 9} /\ ~(8 < 5)
  BY StepNames, BlockFacts DEF Telling, OwnBlocks
<1> HIDE DEF x1, x2
<1>1. Way(a, p, <<y1>>, h(7, ct, OwnBlocks), h(7, ct + 1, b1)) /\ Telling(7, cl, ob, dp, ct + 1, b1, done)
  BY <1>0, WayFree
<1> HIDE DEF b1, y1
<1>2. Way(a, p, <<y2>>, h(7, ct + 1, b1), h(7, ct + 2, b2)) /\ Telling(7, cl, ob, dp, ct + 2, b2, done)
  BY <1>0, <1>1, WayFree
<1> HIDE DEF b2, y2
<1>3. Way(a, p, <<x1>>, h(7, ct + 2, b2), h(8, ct + 2, b2)) /\ Telling(8, cl, ob, dp, ct + 2, b2, done)
  <2>1. PhaseStep(a, x1, 7, cl, ob, ct + 2, 8)
    BY <1>0 DEF PhaseStep
  <2> QED BY <2>1, <1>0, <1>2, WayAhead
<1>4. Way(a, p, <<y3>>, h(8, ct + 2, b2), h(8, ct + 3, b3)) /\ Telling(8, cl, ob, dp, ct + 3, b3, done)
  BY <1>0, <1>3, WayFree
<1> HIDE DEF b3, y3
<1>5. Way(a, p, <<x2>>, h(8, ct + 3, b3), h(9, ct + 3, b3)) /\ Telling(9, cl, ob, dp, ct + 3, b3, done)
  <2>1. PhaseStep(a, x2, 8, cl, ob, ct + 3, 9)
    BY <1>0 DEF PhaseStep
  <2> QED BY <2>1, <1>0, <1>4, WayAhead
<1> HIDE DEF h
<1>6. Way(a, p, <<x1, y3, x2>>, h(7, ct + 2, b2), h(9, ct + 3, b3))
  <2>1. Way(a, p, <<y3, x2>>, h(8, ct + 2, b2), h(9, ct + 3, b3))
    BY <1>4, <1>5, WayTwo
  <2> QED BY <2>1, <1>3, WayThree
<1>7. Way(a, p, <<y1>> \o <<y2>>, h(7, ct, OwnBlocks), h(7, ct + 2, b2))
  BY <1>1, <1>2, WayCat
<1>8. Way(a, p, (<<y1>> \o <<y2>>) \o <<x1, y3, x2>>, h(7, ct, OwnBlocks), h(9, ct + 3, b3))
  BY <1>7, <1>6, WayCat
<1>9. GtcDestroy = (<<y1>> \o <<y2>>) \o <<x1, y3, x2>>
  BY Zenon DEF GtcDestroy, TdDestroy, y1, y2, y3, x1, x2
<1>10. Way(a, p, GtcDestroy, h(7, ct, OwnBlocks), h(9, ct + 3, b3))
  BY <1>8, <1>9, Zenon
<1> QED BY <1>0, <1>5, <1>10 DEF h

LEMMA WayGtcFini ==
  ASSUME NEW a, NEW p, NEW cl, NEW ob, NEW dp, NEW ct, NEW bl, NEW done,
         Telling(9, cl, ob, dp, ct, bl, done)
  PROVE  /\ Way(a, p, GtcFini, At(9, cl, ob, dp, ct, bl, done), At(10, cl, ob, dp, ct + 2, bl, done))
         /\ Telling(10, cl, ob, dp, ct + 2, bl, done)
<1>0. /\ Barrier \in Steps(a) /\ Barrier.op = "barrier" /\ ct \in Nat /\ ct + 2 = (ct + 1) + 1
      /\ 9 \in {1, 2, 3, 4, 7, 8, 9} /\ ~(9 < 5)
  BY StepNames DEF Telling
<1>1. /\ Way(a, p, <<Barrier>>, At(9, cl, ob, dp, ct, bl, done), At(9, cl, ob, dp, ct + 1, bl, done))
      /\ Telling(9, cl, ob, dp, ct + 1, bl, done)
  BY <1>0, WayBarrier
<1>2. /\ Way(a, p, <<Step("finalize")>>, At(9, cl, ob, dp, ct + 1, bl, done), At(10, cl, ob, dp, ct + 2, bl, done))
      /\ Telling(10, cl, ob, dp, ct + 2, bl, done)
  BY <1>0, <1>1, WayFinalize
<1> QED BY <1>1, <1>2, WayTwo DEF GtcFini
-----------------------------------------------------------------------------
(***************************************************************************)
(* Each main program leads from the beginning to an end.                   *)
(***************************************************************************)
\* Test-task's library is finalised by gtc_destroy, which adds the steps.
Full(a, p) == IF a.prog = "tasks" THEN Main(a, p) \o GtcFini ELSE Main(a, p)

LEMMA BeginningAt ==
  Beginning = At(0, 0, 0, 0, 0, {}, {}) /\ Telling(0, 0, 0, 0, 0, {}, {})
<1>1. Telling(0, 0, 0, 0, 0, {}, {})
  BY DEF Telling
<1>2. Tells(Beginning, 0, 0, 0, 0, 0, {}, {})
  BY DEF Tells, Beginning, Places
<1> QED BY <1>1, <1>2, AtIs

LEMMA EndingAt ==
  ASSUME NEW cl, NEW ob, NEW ct, NEW done, Telling(10, cl, ob, 0, ct, {LockBlock}, done)
  PROVE  Ending(At(10, cl, ob, 0, ct, {LockBlock}, done))
<1> DEFINE h == At(10, cl, ob, 0, ct, {LockBlock}, done)
<1>1. Tells(h, 10, cl, ob, 0, ct, {LockBlock}, done)
  BY AtFacts
<1> HIDE DEF h
<1>2. Ending(h)
  BY <1>1 DEF Tells, Ending
<1> QED BY <1>2 DEF h

LEMMA WayGtcInit ==
  ASSUME NEW a, NEW p, a.prog # "tasks"
  PROVE  /\ Way(a, p, GtcInit, Beginning, At(1, 0, 0, 0, 0, {}, {}))
         /\ Telling(1, 0, 0, 0, 0, {}, {})
<1> DEFINE x == Step("init")
<1>1. x \in Steps(a) /\ x.op = "init"
  BY StepNames
<1> HIDE DEF x
<1>2. PhaseStep(a, x, 0, 0, 0, 0, 1)
  BY <1>1 DEF PhaseStep
<1>3. Way(a, p, <<x>>, At(0, 0, 0, 0, 0, {}, {}), At(1, 0, 0, 0, 0, {}, {})) /\ Telling(1, 0, 0, 0, 0, {}, {})
  BY <1>1, <1>2, BeginningAt, WayAhead
<1> QED BY <1>3, BeginningAt DEF GtcInit, x

LEMMA WayBpc ==
  ASSUME NEW a, a.prog = "bpc", WellFormed(a), NEW p \in Procs
  PROVE  \E h : Ending(h) /\ Way(a, p, Main(a, p), Beginning, h)
<1> DEFINE h(ph, cl, ob, ct, bl, d) == At(ph, cl, ob, 0, ct, bl, d)
           t(ph, cl, ob, ct, bl, d) == Telling(ph, cl, ob, 0, ct, bl, d)
           x1 == Associate("ntasks")  x2 == Associate("nproducers")  x3 == Associate("nconsumers")
           y1 == Class("producer_task_fcn")  y2 == Class("consumer_task_fcn")
           s1 == IF p = 0 THEN <<Step("seed")>> ELSE <<>>
           r1 == Reduce("sum", <<"ntasks", "nproducers", "nconsumers">>)
<1>0. /\ Entry(a) = 9 /\ Len(ClassNames(a)) = 2 /\ Len(ObjectNames(a)) = 3
      /\ ClassNames(a)[1] = "producer_task_fcn" /\ ClassNames(a)[2] = "consumer_task_fcn"
      /\ ObjectNames(a)[1] = "ntasks" /\ ObjectNames(a)[2] = "nproducers" /\ ObjectNames(a)[3] = "nconsumers"
  BY DEF Entry, ClassNames, ObjectNames
<1>m. /\ 8 < Entry(a) /\ 0 < Len(ClassNames(a)) /\ 1 < Len(ClassNames(a)) /\ 2 = Len(ClassNames(a))
      /\ 0 < Len(ObjectNames(a)) /\ 1 < Len(ObjectNames(a)) /\ 2 < Len(ObjectNames(a)) /\ 3 = Len(ObjectNames(a))
      /\ 1 = 0 + 1 /\ 2 = 1 + 1 /\ 3 = 2 + 1 /\ 4 \in 1..4 /\ 4 = 4
  BY <1>0
<1>n. /\ "producer_task_fcn" \in FcnNames /\ "consumer_task_fcn" \in FcnNames
      /\ "ntasks" \in ObjectSet /\ "nproducers" \in ObjectSet /\ "nconsumers" \in ObjectSet
      /\ r1 \in Steps(a) /\ r1.op = "reduce" /\ Barrier \in Steps(a) /\ Barrier.op = "barrier"
      /\ a.prog # "tasks"
  <2>1. <<"ntasks", "nproducers", "nconsumers">> \in ReduceVars
    BY DEF ReduceVars
  <2> QED BY <2>1, ReduceSteps, StepNames DEF FcnNames, ObjectSet
<1> HIDE DEF r1
<1>1. Way(a, p, GtcInit, Beginning, h(1, 0, 0, 0, {}, {})) /\ t(1, 0, 0, 0, {}, {})
  BY <1>n, WayGtcInit
<1>2. Way(a, p, GtcCreate(CfgInit), h(1, 0, 0, 0, {}, {}), h(4, 0, 0, 8, OwnBlocks, {})) /\ t(4, 0, 0, 8, OwnBlocks, {})
  <2>1. 8 = 0 + 8 /\ 8 <= Entry(a) /\ Entry(a) \in Nat /\ 1 = IF a.prog = "tasks" THEN 0 ELSE 1
    BY <1>0, <1>n
  <2> QED BY <2>1, <1>1, WayGtcCreate
<1>3. Way(a, p, <<x1>>, h(4, 0, 0, 8, OwnBlocks, {}), h(4, 0, 1, 8, OwnBlocks, {})) /\ t(4, 0, 1, 8, OwnBlocks, {})
  BY <1>0, <1>m, <1>n, <1>2, WayAssociate
<1>4. Way(a, p, <<x2>>, h(4, 0, 1, 8, OwnBlocks, {}), h(4, 0, 2, 8, OwnBlocks, {})) /\ t(4, 0, 2, 8, OwnBlocks, {})
  BY <1>0, <1>m, <1>n, <1>3, WayAssociate
<1>5. Way(a, p, <<x3>>, h(4, 0, 2, 8, OwnBlocks, {}), h(4, 0, 3, 8, OwnBlocks, {})) /\ t(4, 0, 3, 8, OwnBlocks, {})
  BY <1>0, <1>m, <1>n, <1>4, WayAssociate
<1>6. Way(a, p, <<x1, x2, x3>>, h(4, 0, 0, 8, OwnBlocks, {}), h(4, 0, 3, 8, OwnBlocks, {}))
  <2>1. Way(a, p, <<x2, x3>>, h(4, 0, 1, 8, OwnBlocks, {}), h(4, 0, 3, 8, OwnBlocks, {}))
    BY <1>4, <1>5, WayTwo
  <2> QED BY <2>1, <1>3, WayThree
<1>7. Way(a, p, <<y1>>, h(4, 0, 3, 8, OwnBlocks, {}), h(4, 1, 3, 8, OwnBlocks, {})) /\ t(4, 1, 3, 8, OwnBlocks, {})
  BY <1>0, <1>m, <1>n, <1>5, WayClass
<1>8. Way(a, p, <<y2>>, h(4, 1, 3, 8, OwnBlocks, {}), h(4, 2, 3, 8, OwnBlocks, {})) /\ t(4, 2, 3, 8, OwnBlocks, {})
  BY <1>0, <1>m, <1>n, <1>7, WayClass
<1>9. Way(a, p, <<y1, y2>>, h(4, 0, 3, 8, OwnBlocks, {}), h(4, 2, 3, 8, OwnBlocks, {}))
  BY <1>7, <1>8, WayTwo
<1>10. Way(a, p, s1, h(4, 2, 3, 8, OwnBlocks, {}), h(4, 2, 3, 8, OwnBlocks, {}))
  <2>1. Way(a, p, <<Step("seed")>>, h(4, 2, 3, 8, OwnBlocks, {}), h(4, 2, 3, 8, OwnBlocks, {}))
    BY <1>m, <1>8, WaySeed
  <2> QED BY <2>1, WayNothing
<1> HIDE DEF s1
<1>11. Way(a, p, GtcProcess, h(4, 2, 3, 8, OwnBlocks, {}), h(7, 2, 3, 9, OwnBlocks, {})) /\ t(7, 2, 3, 9, OwnBlocks, {})
  <2>1. 9 = 8 + 1 /\ 9 = Entry(a)
    BY <1>0
  <2> QED BY <2>1, <1>m, <1>8, WayGtcProcess
<1>12. Way(a, p, <<r1>>, h(7, 2, 3, 9, OwnBlocks, {}), h(7, 2, 3, 10, OwnBlocks, {})) /\ t(7, 2, 3, 10, OwnBlocks, {})
  BY <1>n, <1>11, WayMeet
<1>13. Way(a, p, <<Barrier>>, h(7, 2, 3, 10, OwnBlocks, {}), h(7, 2, 3, 11, OwnBlocks, {})) /\ t(7, 2, 3, 11, OwnBlocks, {})
  BY <1>n, <1>12, WayMeet
<1>14. Way(a, p, <<r1, Barrier>>, h(7, 2, 3, 9, OwnBlocks, {}), h(7, 2, 3, 11, OwnBlocks, {}))
  BY <1>12, <1>13, WayTwo
<1>15. PICK n \in Nat : \E done :
         /\ n > 11
         /\ Way(a, p, GtcPrintStats(N, p, FALSE), h(7, 2, 3, 11, OwnBlocks, {}), h(7, 2, 3, n, OwnBlocks, done))
         /\ t(7, 2, 3, n, OwnBlocks, done)
  <2>1. FALSE \in BOOLEAN /\ (FALSE <=> a.prog = "tasks") /\ OwnBlocks \subseteq OwnBlocks /\ "totals" \notin {} /\ {} = {}
    BY <1>n
  <2> QED BY <2>1, <1>13, WayPrintStats
<1>16. PICK done :
         /\ n > 11
         /\ Way(a, p, GtcPrintStats(N, p, FALSE), h(7, 2, 3, 11, OwnBlocks, {}), h(7, 2, 3, n, OwnBlocks, done))
         /\ t(7, 2, 3, n, OwnBlocks, done)
  BY <1>15
<1>17. Way(a, p, <<Barrier>>, h(7, 2, 3, n, OwnBlocks, done), h(7, 2, 3, n + 1, OwnBlocks, done)) /\ t(7, 2, 3, n + 1, OwnBlocks, done)
  BY <1>n, <1>16, WayMeet
<1>18. Way(a, p, GtcDestroy, h(7, 2, 3, n + 1, OwnBlocks, done), h(9, 2, 3, n + 1 + 3, {LockBlock}, done)) /\ t(9, 2, 3, n + 1 + 3, {LockBlock}, done)
  <2>1. Entry(a) \in Nat /\ n + 1 >= Entry(a)
    BY <1>0, <1>16
  <2> QED BY <2>1, <1>17, WayGtcDestroy
<1>19. Way(a, p, GtcFini, h(9, 2, 3, n + 1 + 3, {LockBlock}, done), h(10, 2, 3, n + 1 + 3 + 2, {LockBlock}, done))
       /\ t(10, 2, 3, n + 1 + 3 + 2, {LockBlock}, done)
  BY <1>18, WayGtcFini
<1>e. Ending(h(10, 2, 3, n + 1 + 3 + 2, {LockBlock}, done))
  BY <1>19, EndingAt
<1> DEFINE z == h(10, 2, 3, n + 1 + 3 + 2, {LockBlock}, done)
<1>20. Main(a, p) = (((((((((GtcInit \o GtcCreate(CfgInit)) \o <<x1, x2, x3>>) \o <<y1, y2>>) \o s1)
                      \o GtcProcess) \o <<r1, Barrier>>) \o GtcPrintStats(N, p, FALSE)) \o <<Barrier>>)
                      \o GtcDestroy) \o GtcFini
  <2>1. BpcMain(a, N, p) = (((((((((GtcInit \o GtcCreate(CfgInit)) \o <<x1, x2, x3>>) \o <<y1, y2>>) \o s1)
                      \o GtcProcess) \o <<r1, Barrier>>) \o GtcPrintStats(N, p, FALSE)) \o <<Barrier>>)
                      \o GtcDestroy) \o GtcFini
    BY Zenon DEF BpcMain, BpcClasses, s1, r1
  <2> HIDE DEF x1, x2, x3, y1, y2
  <2> QED BY <2>1 DEF Main
<1> HIDE DEF h, t, x1, x2, x3, y1, y2
<1>21. Way(a, p, GtcInit \o GtcCreate(CfgInit), Beginning, h(4, 0, 0, 8, OwnBlocks, {}))
  BY <1>1, <1>2, WayCat
<1>22. Way(a, p, (GtcInit \o GtcCreate(CfgInit)) \o <<x1, x2, x3>>, Beginning, h(4, 0, 3, 8, OwnBlocks, {}))
  BY <1>21, <1>6, WayCat
<1>23. Way(a, p, ((GtcInit \o GtcCreate(CfgInit)) \o <<x1, x2, x3>>) \o <<y1, y2>>, Beginning, h(4, 2, 3, 8, OwnBlocks, {}))
  BY <1>22, <1>9, WayCat
<1>24. Way(a, p, (((GtcInit \o GtcCreate(CfgInit)) \o <<x1, x2, x3>>) \o <<y1, y2>>) \o s1, Beginning, h(4, 2, 3, 8, OwnBlocks, {}))
  BY <1>23, <1>10, WayCat
<1> DEFINE u == (((GtcInit \o GtcCreate(CfgInit)) \o <<x1, x2, x3>>) \o <<y1, y2>>) \o s1
<1> HIDE DEF u
<1>25. Way(a, p, u \o GtcProcess, Beginning, h(7, 2, 3, 9, OwnBlocks, {}))
  BY <1>24, <1>11, WayCat DEF u
<1>26. Way(a, p, (u \o GtcProcess) \o <<r1, Barrier>>, Beginning, h(7, 2, 3, 11, OwnBlocks, {}))
  BY <1>25, <1>14, WayCat
<1>27. Way(a, p, ((u \o GtcProcess) \o <<r1, Barrier>>) \o GtcPrintStats(N, p, FALSE), Beginning, h(7, 2, 3, n, OwnBlocks, done))
  BY <1>26, <1>16, WayCat
<1> DEFINE w == ((u \o GtcProcess) \o <<r1, Barrier>>) \o GtcPrintStats(N, p, FALSE)
<1> HIDE DEF w
<1>28. Way(a, p, w \o <<Barrier>>, Beginning, h(7, 2, 3, n + 1, OwnBlocks, done))
  BY <1>27, <1>17, WayCat DEF w
<1>29. Way(a, p, (w \o <<Barrier>>) \o GtcDestroy, Beginning, h(9, 2, 3, n + 1 + 3, {LockBlock}, done))
  BY <1>28, <1>18, WayCat
<1>30. Way(a, p, ((w \o <<Barrier>>) \o GtcDestroy) \o GtcFini, Beginning, z)
  BY <1>29, <1>19, WayCat
<1>31. Main(a, p) = ((w \o <<Barrier>>) \o GtcDestroy) \o GtcFini
  BY <1>20, Zenon DEF w, u
<1>32. Way(a, p, Main(a, p), Beginning, z)
  BY <1>30, <1>31, Zenon
<1> QED BY <1>32, <1>e
-----------------------------------------------------------------------------
\* A handle is released in one step, after which the program's phase is 9 or 10.
LEMMA ReleasedPhase ==
  ASSUME NEW a, NEW p, NEW g, NEW x, NEW h, <<g, x, h>> \in Protocol(a, p)
  PROVE  /\ x.op = "release" => h.ph >= 9
         /\ g.ph >= 9 => h.ph >= 9
<1>1. g \in Places /\ h \in Places /\ Moves(a, p, g, x, h)
  BY DEF Protocol
<1>2. g.ph \in 0..10 /\ h.ph \in 0..10 /\ Permits(a, p, g, x) /\ h.ph = PhaseAfter(g.ph, x.op)
  BY <1>1 DEF Moves, Places
<1>3. CASE x.op = "release"
  BY <1>2, <1>3 DEF PhaseAfter, LoopOps
<1>4. ASSUME g.ph >= 9 PROVE h.ph >= 9
  <2>1. x.op \notin {"init", "implicit_init", "register", "clod_create", "executed", "clod_destroy"}
    BY <1>2, <1>4 DEF Permits
  <2>2. x.op \notin LoopOps
    BY <1>2, <1>4 DEF Permits
  <2> QED BY <1>2, <1>4, <2>1, <2>2 DEF PhaseAfter
<1> QED BY <1>3, <1>4

LEMMA NotReleased ==
  ASSUME NEW a, NEW p, NEW s \in Seq(Steps(a)), NEW g, NEW h, Path(Protocol(a, p), s, g, h),
         h.ph \in Nat, h.ph < 9
  PROVE  "release" \notin Ops(s)
<1>1. PICK f : f[0] = g /\ f[Len(s)] = h /\ Runs(Protocol(a, p), s, f)
  BY DEF Path
<1> DEFINE m == Len(s)
<1>2. m \in Nat /\ DOMAIN s = 1..m
  BY LenProperties
<1>3. \A i \in 1..m : <<f[i-1], s[i], f[i]>> \in Protocol(a, p)
  BY <1>1 DEF Runs
<1> HIDE DEF m
<1>4. SUFFICES ASSUME NEW i \in 1..m, s[i].op = "release" PROVE FALSE
  BY <1>2 DEF Ops
<1> DEFINE A == {j \in Nat : i + j <= m => f[i+j].ph >= 9}
<1>5. 0 \in A
  <2>1. f[i].ph >= 9
    BY <1>3, <1>4, ReleasedPhase
  <2>2. i + 0 = i
    OBVIOUS
  <2> QED BY <2>1, <2>2
<1>6. ASSUME NEW j \in Nat, j \in A PROVE j + 1 \in A
  <2> SUFFICES ASSUME i + (j + 1) <= m PROVE f[i+(j+1)].ph >= 9
    OBVIOUS
  <2> DEFINE k == i + (j + 1)
  <2>1. k \in 1..m /\ k - 1 = i + j /\ i + j <= m
    BY <1>2
  <2>2. f[i+j].ph >= 9
    BY <1>6, <2>1
  <2> HIDE DEF A, k
  <2>3. <<f[k-1], s[k], f[k]>> \in Protocol(a, p)
    BY <2>1, <1>3
  <2>4. f[k].ph >= 9
    BY <2>1, <2>2, <2>3, ReleasedPhase
  <2> QED BY <2>4 DEF k
<1>7. m - i \in Nat /\ i + (m - i) = m
  BY <1>2
<1>8. m - i \in A
  <2> HIDE DEF A
  <2> QED BY <1>5, <1>6, <1>7, SetInduction
<1>9. f[i + (m - i)].ph >= 9
  BY <1>7, <1>8
<1> QED BY <1>1, <1>7, <1>9 DEF m

\* The last step releases the handle, and no other does.
Closes(a, s) ==
  \E u \in Seq(Steps(a)) : s = Cat(u, <<Step("release")>>) /\ "release" \notin Ops(u)

LEMMA ReleaseStep ==
  ASSUME NEW a
  PROVE  /\ Step("release") \in Steps(a) /\ Step("release").op = "release"
         /\ <<Step("release")>> \in Seq(Steps(a)) /\ <<Step("release")>> # <<>>
         /\ Head(<<Step("release")>>) = Step("release") /\ Tail(<<Step("release")>>) = <<>>
<1>1. Step("release") \in Steps(a) /\ Step("release").op = "release"
  BY StepNames
<1> QED BY <1>1, SingleSeq

LEMMA ClosesHead ==
  ASSUME NEW a, NEW s, Closes(a, s)
  PROVE  /\ s \in Seq(Steps(a)) /\ s # <<>>
         /\ Head(s).op = "release" => Tail(s) = <<>>
         /\ Head(s).op # "release" => Closes(a, Tail(s))
<1> DEFINE r == <<Step("release")>>  S == Steps(a)
<1>0. /\ r \in Seq(S) /\ r # <<>> /\ Head(r).op = "release" /\ Tail(r) = <<>>
  BY ReleaseStep
<1>1. PICK u \in Seq(S) : s = Cat(u, r) /\ "release" \notin Ops(u)
  BY DEF Closes
<1> HIDE DEF r, S
<1>2. s \in Seq(S)
  BY <1>0, <1>1, CatType
<1>3. CASE u = <<>>
  <2>1. s = r
    BY <1>0, <1>1, <1>3, CatEmpty
  <2> QED BY <2>1, <1>0, <1>2 DEF S
<1>4. CASE u # <<>>
  <2>1. s # <<>> /\ Head(s) = Head(u) /\ Tail(s) = Cat(Tail(u), r) /\ Tail(u) \in Seq(S)
    BY <1>0, <1>1, <1>4, CatHead
  <2>2. Ops(u) = {Head(u).op} \cup Ops(Tail(u))
    BY <1>4, OpsHead
  <2>3. Head(s).op # "release" /\ "release" \notin Ops(Tail(u))
    BY <2>1, <2>2, <1>1
  <2>4. Closes(a, Tail(s))
    BY <2>1, <2>3 DEF Closes, r, S
  <2> QED BY <2>1, <2>3, <2>4, <1>2 DEF S
<1> QED BY <1>3, <1>4

LEMMA ClosesCat ==
  ASSUME NEW a, NEW s, Closes(a, s), NEW v \in Seq(Steps(a)), "release" \notin Ops(v)
  PROVE  Closes(a, Cat(v, s))
<1> DEFINE r == <<Step("release")>>  S == Steps(a)
<1>0. r \in Seq(S)
  BY ReleaseStep
<1>1. PICK u \in Seq(S) : s = Cat(u, r) /\ "release" \notin Ops(u)
  BY DEF Closes
<1> HIDE DEF r, S
<1>v. v \in Seq(S)
  BY DEF S
<1>2. Cat(v, s) = Cat(Cat(v, u), r)
  BY <1>0, <1>1, <1>v, CatAssociative
<1>3. Cat(v, u) \in Seq(S) /\ Ops(Cat(v, u)) = Ops(v) \cup Ops(u)
  BY <1>1, <1>v, CatType, OpsCat
<1> QED BY <1>1, <1>2, <1>3 DEF Closes, r, S

Regrouped(v, w, x, y, z) ==
  (<<v>> \o <<w>>) \o <<x, y, z>> = Cat(Cat(Cat(<<v, w>>, <<x>>), <<y>>), <<z>>)

LEMMA CatFive ==
  ASSUME NEW S, NEW v \in S, NEW w \in S, NEW x \in S, NEW y \in S, NEW z \in S
  PROVE  Regrouped(v, w, x, y, z)
<1> DEFINE c == <<v, w>>  d == <<x>>  e == <<y>>  f == <<z>>
<1>1. c \in Seq(S) /\ d \in Seq(S) /\ e \in Seq(S) /\ f \in Seq(S)
  OBVIOUS
<1>2. Cat(<<v>>, <<w>>) = c /\ Cat(e, f) = <<y, z>> /\ Cat(d, <<y, z>>) = <<x, y, z>>
  BY CatTwo, CatThree
<1>3. (<<v>> \o <<w>>) \o <<x, y, z>> = Cat(c, Cat(d, Cat(e, f)))
  BY <1>2, Zenon DEF Cat
<1> HIDE DEF c, d, e, f
<1>4. Cat(c, d) \in Seq(S) /\ Cat(e, f) \in Seq(S)
  BY <1>1, CatType
<1>5. Cat(c, Cat(d, Cat(e, f))) = Cat(Cat(c, d), Cat(e, f))
  BY <1>1, <1>4, CatAssociative
<1>6. Cat(Cat(c, d), Cat(e, f)) = Cat(Cat(Cat(c, d), e), f)
  BY <1>1, <1>4, CatAssociative
<1> QED BY <1>3, <1>5, <1>6, Zenon DEF c, d, e, f, Regrouped

\* gtc_destroy is what closes test-task.
LEMMA DestroyCloses ==
  ASSUME NEW a, NEW p, NEW s, NEW g, NEW h, Way(a, p, s, g, h), h.ph \in Nat, h.ph < 9
  PROVE  Closes(a, s \o GtcDestroy)
<1> DEFINE y1 == Free(RingBlock)  y2 == Free(TdBlock)  y3 == Free(TcBlock)
           x1 == Step("clod_destroy")  r == Step("release")  d == Cat(Cat(<<y1, y2>>, <<x1>>), <<y3>>)  S == Steps(a)
<1>1. /\ y1 \in Steps(a) /\ y2 \in Steps(a) /\ y3 \in Steps(a)
      /\ y1.op = "free" /\ y2.op = "free" /\ y3.op = "free"
  BY DEF Free, Steps, OtherSteps, Blocks
<1>2. x1 \in Steps(a) /\ x1.op = "clod_destroy" /\ r \in Steps(a)
  BY StepNames
<1>3. GtcDestroy = Cat(d, <<r>>)
  <2>1. GtcDestroy = (<<y1>> \o <<y2>>) \o <<x1, y3, r>>
    BY Zenon DEF GtcDestroy, TdDestroy, y1, y2, y3, x1, r
  <2> HIDE DEF y1, y2, y3, x1, r
  <2>2. (<<y1>> \o <<y2>>) \o <<x1, y3, r>> = Cat(Cat(Cat(<<y1, y2>>, <<x1>>), <<y3>>), <<r>>)
    <3>1. y1 \in S /\ y2 \in S /\ x1 \in S /\ y3 \in S /\ r \in S
      BY <1>1, <1>2
    <3> HIDE DEF S, d
    <3>2. Regrouped(y1, y2, x1, y3, r)
      BY <3>1, CatFive
    <3> QED BY <3>2, Zenon DEF Regrouped
  <2> QED BY <2>1, <2>2, Zenon
<1> HIDE DEF y1, y2, y3, x1
<1>4. d \in Seq(S) /\ "release" \notin Ops(d)
  <2> DEFINE u == <<y1, y2>>  v == <<x1>>  w == <<y3>>
  <2>1. u \in Seq(S) /\ v \in Seq(S) /\ w \in Seq(S)
    BY <1>1, <1>2
  <2>2. "release" \notin Ops(u) /\ "release" \notin Ops(v) /\ "release" \notin Ops(w)
    BY <1>1, <1>2 DEF Ops
  <2> HIDE DEF u, v, w, S
  <2>3. Cat(u, v) \in Seq(S) /\ Ops(Cat(u, v)) = Ops(u) \cup Ops(v)
    BY <2>1, CatType, OpsCat
  <2> DEFINE k == Cat(u, v)
  <2> HIDE DEF d
  <2>5. k \in Seq(S) /\ "release" \notin Ops(k)
    BY <2>2, <2>3
  <2>e. d = Cat(k, w)
    BY Zenon DEF d, u, v, w
  <2> HIDE DEF k
  <2>4. Cat(k, w) \in Seq(S) /\ Ops(Cat(k, w)) = Ops(k) \cup Ops(w)
    BY <2>1, <2>5, CatType, OpsCat
  <2> QED BY <2>2, <2>5, <2>4, <2>e
<1>5. s \in Seq(Steps(a)) /\ "release" \notin Ops(s)
  BY NotReleased DEF Way
<1> HIDE DEF d
<1>6. <<r>> \in Seq(Steps(a))
  BY <1>2
<1> DEFINE e == <<r>>
<1>7. s \in Seq(S) /\ d \in Seq(S) /\ e \in Seq(S)
  BY <1>4, <1>5, <1>6
<1> HIDE DEF S, e
<1>8. Cat(s, Cat(d, e)) = Cat(Cat(s, d), e)
  BY <1>7, CatAssociative
<1>9. Cat(s, d) \in Seq(S) /\ Ops(Cat(s, d)) = Ops(s) \cup Ops(d)
  BY <1>7, CatType, OpsCat
<1>10. Closes(a, Cat(Cat(s, d), e))
  BY <1>4, <1>5, <1>9 DEF Closes, S, e, r
<1>11. Cat(s, Cat(d, e)) = s \o GtcDestroy
  BY <1>3, Zenon DEF Cat, e
<1> QED BY <1>8, <1>10, <1>11

LEMMA WayTasks ==
  ASSUME NEW a, a.prog = "tasks", WellFormed(a), NEW p \in Procs
  PROVE  /\ \E h : Ending(h) /\ Way(a, p, Full(a, p), Beginning, h)
         /\ Closes(a, Main(a, p))
<1> DEFINE h(ph, cl, ct, bl, d) == At(ph, cl, 0, 0, ct, bl, d)
           t(ph, cl, ct, bl, d) == Telling(ph, cl, 0, 0, ct, bl, d)
           y1 == Class("task_fcn")
           s1 == IF p = 0 THEN TasksSeed(a) ELSE <<>>
           r1 == Reduce("sum", <<"sleep_time">>)
<1>0. /\ Entry(a) = 9 /\ Len(ClassNames(a)) = 1 /\ Len(ObjectNames(a)) = 0 /\ Turns(a) = 11
      /\ ClassNames(a)[1] = "task_fcn"
  BY DEF Entry, ClassNames, ObjectNames, Turns
<1>m. /\ 8 < Entry(a) /\ 0 < Len(ClassNames(a)) /\ 1 = Len(ClassNames(a)) /\ 0 = Len(ObjectNames(a))
      /\ 1 = 0 + 1 /\ 4 \in 1..4 /\ 4 = 4 /\ 9 = 8 + 1 /\ 9 = Entry(a)
  BY <1>0
<1>n. /\ "task_fcn" \in FcnNames
      /\ r1 \in Steps(a) /\ r1.op = "reduce" /\ Barrier \in Steps(a) /\ Barrier.op = "barrier"
  <2>1. <<"sleep_time">> \in ReduceVars
    BY DEF ReduceVars
  <2> QED BY <2>1, ReduceSteps, StepNames DEF FcnNames
<1> HIDE DEF r1
<1>2. Way(a, p, GtcCreate(CfgInit), Beginning, h(4, 0, 8, OwnBlocks, {})) /\ t(4, 0, 8, OwnBlocks, {})
  <2>1. 8 = 0 + 8 /\ 8 <= Entry(a) /\ Entry(a) \in Nat /\ 0 = IF a.prog = "tasks" THEN 0 ELSE 1
    BY <1>0
  <2> QED BY <2>1, BeginningAt, WayGtcCreate
<1>3. Way(a, p, <<y1>>, h(4, 0, 8, OwnBlocks, {}), h(4, 1, 8, OwnBlocks, {})) /\ t(4, 1, 8, OwnBlocks, {})
  BY <1>0, <1>m, <1>n, <1>2, WayClass
<1>4. Way(a, p, s1, h(4, 1, 8, OwnBlocks, {}), h(4, 1, 8, OwnBlocks, {}))
  <2>1. TasksSeed(a) \in WorkCalls(a, p, FALSE)
    BY TasksCalls
  <2>2. FALSE => "planted" \in {}
    OBVIOUS
  <2>3. Way(a, p, TasksSeed(a), h(4, 1, 8, OwnBlocks, {}), h(4, 1, 8, OwnBlocks, {}))
    BY <2>1, <2>2, <1>m, <1>3, WayWork
  <2> QED BY <2>3, WayNothing
<1> HIDE DEF s1
<1>5. Way(a, p, GtcProcess, h(4, 1, 8, OwnBlocks, {}), h(7, 1, 9, OwnBlocks, {})) /\ t(7, 1, 9, OwnBlocks, {})
  BY <1>m, <1>3, WayGtcProcess
<1>6. Way(a, p, <<Barrier>>, h(7, 1, 9, OwnBlocks, {}), h(7, 1, 10, OwnBlocks, {})) /\ t(7, 1, 10, OwnBlocks, {})
  BY <1>n, <1>5, WayMeet
<1>7. PICK n \in Nat : \E done :
         /\ n > 10
         /\ Way(a, p, GtcPrintStats(N, p, TRUE), h(7, 1, 10, OwnBlocks, {}), h(7, 1, n, OwnBlocks, done))
         /\ t(7, 1, n, OwnBlocks, done)
  <2>1. TRUE \in BOOLEAN /\ (TRUE <=> a.prog = "tasks") /\ OwnBlocks \subseteq OwnBlocks /\ "totals" \notin {} /\ {} = {}
        /\ (TRUE => 10 + 1 = Turns(a) /\ Entry(a) \in Nat)
    BY <1>0
  <2> QED BY <2>1, <1>6, WayPrintStats
<1>8. PICK done :
         /\ n > 10
         /\ Way(a, p, GtcPrintStats(N, p, TRUE), h(7, 1, 10, OwnBlocks, {}), h(7, 1, n, OwnBlocks, done))
         /\ t(7, 1, n, OwnBlocks, done)
  BY <1>7
<1>9. Way(a, p, <<Barrier>>, h(7, 1, n, OwnBlocks, done), h(7, 1, n + 1, OwnBlocks, done)) /\ t(7, 1, n + 1, OwnBlocks, done)
  BY <1>n, <1>8, WayMeet
<1>10. Way(a, p, <<r1>>, h(7, 1, n + 1, OwnBlocks, done), h(7, 1, n + 1 + 1, OwnBlocks, done)) /\ t(7, 1, n + 1 + 1, OwnBlocks, done)
  BY <1>n, <1>9, WayMeet
<1>11. Way(a, p, GtcDestroy, h(7, 1, n + 1 + 1, OwnBlocks, done), h(9, 1, n + 1 + 1 + 3, {LockBlock}, done)) /\ t(9, 1, n + 1 + 1 + 3, {LockBlock}, done)
  <2>1. Entry(a) \in Nat /\ n + 1 + 1 >= Entry(a)
    BY <1>0, <1>8
  <2> QED BY <2>1, <1>10, WayGtcDestroy
<1>12. Way(a, p, GtcFini, h(9, 1, n + 1 + 1 + 3, {LockBlock}, done), h(10, 1, n + 1 + 1 + 3 + 2, {LockBlock}, done))
       /\ t(10, 1, n + 1 + 1 + 3 + 2, {LockBlock}, done)
  BY <1>11, WayGtcFini
<1> DEFINE z == h(10, 1, n + 1 + 1 + 3 + 2, {LockBlock}, done)
<1>e. Ending(z)
  BY <1>12, EndingAt
<1>20. Main(a, p) = (((((((GtcCreate(CfgInit) \o <<y1>>) \o s1) \o GtcProcess) \o <<Barrier>>)
                      \o GtcPrintStats(N, p, TRUE)) \o <<Barrier>>) \o <<r1>>) \o GtcDestroy
  <2>1. TasksMain(a, N, p) = (((((((GtcCreate(CfgInit) \o <<y1>>) \o s1) \o GtcProcess) \o <<Barrier>>)
                      \o GtcPrintStats(N, p, TRUE)) \o <<Barrier>>) \o <<r1>>) \o GtcDestroy
    BY Zenon DEF TasksMain, s1, r1
  <2> HIDE DEF y1
  <2> QED BY <2>1 DEF Main
<1> HIDE DEF h, t, y1, z
<1>21. Way(a, p, GtcCreate(CfgInit) \o <<y1>>, Beginning, h(4, 1, 8, OwnBlocks, {}))
  BY <1>2, <1>3, WayCat
<1>22. Way(a, p, (GtcCreate(CfgInit) \o <<y1>>) \o s1, Beginning, h(4, 1, 8, OwnBlocks, {}))
  BY <1>21, <1>4, WayCat
<1>23. Way(a, p, ((GtcCreate(CfgInit) \o <<y1>>) \o s1) \o GtcProcess, Beginning, h(7, 1, 9, OwnBlocks, {}))
  BY <1>22, <1>5, WayCat
<1> DEFINE u == ((GtcCreate(CfgInit) \o <<y1>>) \o s1) \o GtcProcess
<1> HIDE DEF u
<1>24. Way(a, p, u \o <<Barrier>>, Beginning, h(7, 1, 10, OwnBlocks, {}))
  BY <1>23, <1>6, WayCat DEF u
<1>25. Way(a, p, (u \o <<Barrier>>) \o GtcPrintStats(N, p, TRUE), Beginning, h(7, 1, n, OwnBlocks, done))
  BY <1>24, <1>8, WayCat
<1>26. Way(a, p, ((u \o <<Barrier>>) \o GtcPrintStats(N, p, TRUE)) \o <<Barrier>>, Beginning, h(7, 1, n + 1, OwnBlocks, done))
  BY <1>25, <1>9, WayCat
<1> DEFINE w == ((u \o <<Barrier>>) \o GtcPrintStats(N, p, TRUE)) \o <<Barrier>>
<1> HIDE DEF w
<1>27. Way(a, p, w \o <<r1>>, Beginning, h(7, 1, n + 1 + 1, OwnBlocks, done))
  BY <1>26, <1>10, WayCat DEF w
<1>28. Way(a, p, (w \o <<r1>>) \o GtcDestroy, Beginning, h(9, 1, n + 1 + 1 + 3, {LockBlock}, done))
  BY <1>27, <1>11, WayCat
<1>29. Way(a, p, ((w \o <<r1>>) \o GtcDestroy) \o GtcFini, Beginning, z)
  BY <1>28, <1>12, WayCat DEF z
<1>30. Main(a, p) = (w \o <<r1>>) \o GtcDestroy
  BY <1>20, Zenon DEF w, u
<1>31. Way(a, p, Main(a, p) \o GtcFini, Beginning, z)
  BY <1>29, <1>30, Zenon
<1>32. Full(a, p) = Main(a, p) \o GtcFini
  BY Zenon DEF Full
<1>33. Way(a, p, Full(a, p), Beginning, z)
  BY <1>31, <1>32, Zenon
<1>34. Closes(a, (w \o <<r1>>) \o GtcDestroy)
  <2> DEFINE k == h(7, 1, n + 1 + 1, OwnBlocks, done)
  <2>1. k.ph = 7
    BY DEF h, At
  <2>2. k.ph \in Nat /\ k.ph < 9 /\ Way(a, p, w \o <<r1>>, Beginning, k)
    BY <2>1, <1>27
  <2> HIDE DEF k
  <2> QED BY <2>2, DestroyCloses
<1> QED BY <1>33, <1>34, <1>30, <1>e

LEMMA WayUts ==
  ASSUME NEW a, a.prog = "uts", WellFormed(a), NEW p \in Procs
  PROVE  \E h : Ending(h) /\ Way(a, p, Main(a, p), Beginning, h)
<1> DEFINE h(ph, cl, dp, ct, bl, d) == At(ph, cl, 0, dp, ct, bl, d)
           t(ph, cl, dp, ct, bl, d) == Telling(ph, cl, 0, dp, ct, bl, d)
           f == IF a.strict THEN "strict_dfs_task_fcn" ELSE "task_fcn"
           y1 == Class(f)
           s1 == IF p = 0 THEN UtsSeed ELSE <<>>
           r1 == Reduce("sum", <<"nNodes", "nLeaves">>)  r2 == Reduce("max", <<"maxDepth">>)
           cr == Create(1)  de == Destroy(1)
<1>0. /\ Entry(a) = 11 /\ Len(ClassNames(a)) = 1 /\ Len(ObjectNames(a)) = 0
      /\ ClassNames(a)[1] = f
  BY DEF Entry, ClassNames, ObjectNames
<1>m. /\ 9 < Entry(a) /\ 0 < Entry(a) /\ 0 < Len(ClassNames(a)) /\ 1 = Len(ClassNames(a)) /\ 0 = Len(ObjectNames(a))
      /\ 1 = 0 + 1 /\ 4 \in 1..4 /\ 4 = 4 /\ 11 = 10 + 1 /\ 11 = Entry(a) /\ 10 = 9 + 1 /\ 10 < Entry(a) /\ 0 = 1 - 1 /\ 1 > 0
      /\ 1 \in 1..4 /\ 7 = 7 /\ 1 \in {1, 2, 3, 4, 7, 8, 9} /\ 4 \in {1, 2, 3, 4, 7, 8, 9}
  BY <1>0
<1>n. /\ f \in FcnNames /\ r1 \in Steps(a) /\ r1.op = "reduce" /\ r2 \in Steps(a) /\ r2.op = "reduce"
      /\ Barrier \in Steps(a) /\ Barrier.op = "barrier" /\ a.prog # "tasks" /\ 1 \in Classes(a)
  <2>1. <<"nNodes", "nLeaves">> \in ReduceVars /\ <<"maxDepth">> \in ReduceVars
    BY DEF ReduceVars
  <2> QED BY <2>1, ReduceSteps, StepNames DEF FcnNames, Classes
<1> HIDE DEF r1, r2, f
<1>1. Way(a, p, GtcInit, Beginning, h(1, 0, 0, 0, {}, {})) /\ t(1, 0, 0, 0, {}, {})
  BY <1>n, WayGtcInit
<1>2. Way(a, p, <<Barrier>>, h(1, 0, 0, 0, {}, {}), h(1, 0, 0, 1, {}, {})) /\ t(1, 0, 0, 1, {}, {})
  BY <1>n, <1>m, <1>1, WayBarrier
<1>3. Way(a, p, <<y1>>, h(1, 0, 0, 1, {}, {}), h(1, 1, 0, 1, {}, {})) /\ t(1, 1, 0, 1, {}, {})
  BY <1>0, <1>m, <1>n, <1>2, WayClass
<1>4. Way(a, p, GtcCreate(CfgInit), h(1, 1, 0, 1, {}, {}), h(4, 1, 0, 9, OwnBlocks, {})) /\ t(4, 1, 0, 9, OwnBlocks, {})
  <2>1. 9 = 1 + 8 /\ 9 <= Entry(a) /\ Entry(a) \in Nat /\ 1 = IF a.prog = "tasks" THEN 0 ELSE 1
    BY <1>0, <1>n
  <2> QED BY <2>1, <1>3, WayGtcCreate
<1>5. Way(a, p, <<cr>>, h(4, 1, 0, 9, OwnBlocks, {}), h(4, 1, 1, 9, OwnBlocks, {})) /\ t(4, 1, 1, 9, OwnBlocks, {})
  <2>1. /\ Telling(4, 1, 0, 0, 9, OwnBlocks, {}) /\ 4 = 4 /\ 1 = Len(ClassNames(a)) /\ 0 = Len(ObjectNames(a))
        /\ 9 < Entry(a) /\ 1 = 0 + 1 /\ 1 \in Classes(a)
    BY <1>m, <1>n, <1>4
  <2>2. /\ Way(a, p, <<Create(1)>>, At(4, 1, 0, 0, 9, OwnBlocks, {}), At(4, 1, 0, 1, 9, OwnBlocks, {}))
        /\ Telling(4, 1, 0, 1, 9, OwnBlocks, {})
    <3> DEFINE ph == 4  cl == 1  ob == 0  dp == 0  ct == 9  bl == OwnBlocks  done == {}  n == 1  c == 1
    <3>1. /\ Telling(ph, cl, ob, dp, ct, bl, done) /\ ph = 4 /\ cl = Len(ClassNames(a)) /\ ob = Len(ObjectNames(a))
          /\ ct < Entry(a) /\ n = dp + 1 /\ c \in Classes(a)
      BY <2>1
    <3> HIDE DEF ph, cl, ob, dp, ct, bl, done, n, c
    <3>2. /\ Way(a, p, <<Create(c)>>, At(ph, cl, ob, dp, ct, bl, done), At(ph, cl, ob, n, ct, bl, done))
          /\ Telling(ph, cl, ob, n, ct, bl, done)
      BY <3>1, WayCreate
    <3> QED BY <3>2, Zenon DEF ph, cl, ob, dp, ct, bl, done, n, c
  <2> QED BY <2>2
<1>6. Way(a, p, s1, h(4, 1, 1, 9, OwnBlocks, {}), h(4, 1, 1, 9, OwnBlocks, {}))
  <2>1. UtsSeed \in WorkCalls(a, p, FALSE)
    <3>1. <<>> \in NodeSet(a)
      BY DEF WellFormed, NodeSet
    <3>2. Iterator(<<>>) \in Bodies(a)
      BY <3>1 DEF Iterator, Bodies
    <3> QED BY <3>2, UtsAdds DEF UtsSeed
  <2>2. FALSE => "planted" \in {}
    OBVIOUS
  <2>3. Way(a, p, UtsSeed, h(4, 1, 1, 9, OwnBlocks, {}), h(4, 1, 1, 9, OwnBlocks, {}))
    BY <2>1, <2>2, <1>m, <1>5, WayWork
  <2> QED BY <2>3, WayNothing
<1> HIDE DEF s1
<1>7. Way(a, p, <<Barrier>>, h(4, 1, 1, 9, OwnBlocks, {}), h(4, 1, 1, 10, OwnBlocks, {})) /\ t(4, 1, 1, 10, OwnBlocks, {})
  BY <1>n, <1>m, <1>5, WayBarrier
<1>8. Way(a, p, GtcProcess, h(4, 1, 1, 10, OwnBlocks, {}), h(7, 1, 1, 11, OwnBlocks, {})) /\ t(7, 1, 1, 11, OwnBlocks, {})
  BY <1>m, <1>7, WayGtcProcess
<1>9. PICK n \in Nat : \E done :
         /\ n > 11
         /\ Way(a, p, GtcPrintStats(N, p, FALSE), h(7, 1, 1, 11, OwnBlocks, {}), h(7, 1, 1, n, OwnBlocks, done))
         /\ t(7, 1, 1, n, OwnBlocks, done)
  <2>1. FALSE \in BOOLEAN /\ (FALSE <=> a.prog = "tasks") /\ OwnBlocks \subseteq OwnBlocks /\ "totals" \notin {} /\ {} = {}
    BY <1>n
  <2> QED BY <2>1, <1>8, WayPrintStats
<1>10. PICK done :
         /\ n > 11
         /\ Way(a, p, GtcPrintStats(N, p, FALSE), h(7, 1, 1, 11, OwnBlocks, {}), h(7, 1, 1, n, OwnBlocks, done))
         /\ t(7, 1, 1, n, OwnBlocks, done)
  BY <1>9
<1>11. Way(a, p, <<de>>, h(7, 1, 1, n, OwnBlocks, done), h(7, 1, 0, n, OwnBlocks, done)) /\ t(7, 1, 0, n, OwnBlocks, done)
  BY <1>m, <1>n, <1>10, WayDestroy
<1>12. Way(a, p, GtcDestroy, h(7, 1, 0, n, OwnBlocks, done), h(9, 1, 0, n + 3, {LockBlock}, done)) /\ t(9, 1, 0, n + 3, {LockBlock}, done)
  <2>1. Entry(a) \in Nat /\ n >= Entry(a)
    BY <1>0, <1>10
  <2> QED BY <2>1, <1>11, WayGtcDestroy
<1>13. /\ Way(a, p, <<r1>>, h(9, 1, 0, n + 3, {LockBlock}, done), h(9, 1, 0, n + 3 + 1, {LockBlock}, done)) 
       /\ t(9, 1, 0, n + 3 + 1, {LockBlock}, done)
  <2>1. 9 \in {1, 2, 3, 4, 7, 8, 9} /\ ~(9 < 5)
    OBVIOUS
  <2> QED BY <2>1, <1>n, <1>12, WayBarrier
<1>14. /\ Way(a, p, <<r2>>, h(9, 1, 0, n + 3 + 1, {LockBlock}, done), h(9, 1, 0, n + 3 + 1 + 1, {LockBlock}, done)) 
       /\ t(9, 1, 0, n + 3 + 1 + 1, {LockBlock}, done)
  <2>1. 9 \in {1, 2, 3, 4, 7, 8, 9} /\ ~(9 < 5)
    OBVIOUS
  <2> QED BY <2>1, <1>n, <1>13, WayBarrier
<1>15. Way(a, p, <<r1, r2>>, h(9, 1, 0, n + 3, {LockBlock}, done), h(9, 1, 0, n + 3 + 1 + 1, {LockBlock}, done)) 
  BY <1>13, <1>14, WayTwo
<1> DEFINE z == h(10, 1, 0, n + 3 + 1 + 1 + 2, {LockBlock}, done)
<1>16. Way(a, p, GtcFini, h(9, 1, 0, n + 3 + 1 + 1, {LockBlock}, done), z) /\ t(10, 1, 0, n + 3 + 1 + 1 + 2, {LockBlock}, done)
  BY <1>14, WayGtcFini
<1>e. Ending(z)
  BY <1>16, EndingAt
<1>20. Main(a, p) = (((GtcInit \o <<Barrier>>) \o (((((((((<<y1>> \o GtcCreate(CfgInit)) \o <<cr>>) \o s1) \o <<Barrier>>)
            \o GtcProcess) \o GtcPrintStats(N, p, FALSE)) \o <<de>>) \o GtcDestroy))) \o <<r1, r2>>) \o GtcFini
  <2>1. UtsMain(a, N, p) = (((GtcInit \o <<Barrier>>) \o (((((((((<<y1>> \o GtcCreate(CfgInit)) \o <<cr>>) \o s1) \o <<Barrier>>)
            \o GtcProcess) \o GtcPrintStats(N, p, FALSE)) \o <<de>>) \o GtcDestroy))) \o <<r1, r2>>) \o GtcFini
    BY Zenon DEF UtsMain, LdbalScioto, s1, r1, r2, f
  <2> HIDE DEF y1, cr, de
  <2> QED BY <2>1 DEF Main
<1> HIDE DEF h, t, y1, z, cr, de
<1>21. Way(a, p, GtcInit \o <<Barrier>>, Beginning, h(1, 0, 0, 1, {}, {}))
  BY <1>1, <1>2, WayCat
<1>22. Way(a, p, <<y1>> \o GtcCreate(CfgInit), h(1, 0, 0, 1, {}, {}), h(4, 1, 0, 9, OwnBlocks, {}))
  BY <1>3, <1>4, WayCat
<1> DEFINE u1 == (<<y1>> \o GtcCreate(CfgInit)) \o <<cr>>
<1>23. Way(a, p, u1, h(1, 0, 0, 1, {}, {}), h(4, 1, 1, 9, OwnBlocks, {}))
  BY <1>22, <1>5, WayCat
<1> HIDE DEF u1
<1>24. Way(a, p, u1 \o s1, h(1, 0, 0, 1, {}, {}), h(4, 1, 1, 9, OwnBlocks, {}))
  BY <1>23, <1>6, WayCat
<1>25. Way(a, p, (u1 \o s1) \o <<Barrier>>, h(1, 0, 0, 1, {}, {}), h(4, 1, 1, 10, OwnBlocks, {}))
  BY <1>24, <1>7, WayCat
<1> DEFINE u2 == ((u1 \o s1) \o <<Barrier>>) \o GtcProcess
<1>26. Way(a, p, u2, h(1, 0, 0, 1, {}, {}), h(7, 1, 1, 11, OwnBlocks, {}))
  BY <1>25, <1>8, WayCat
<1> HIDE DEF u2
<1>27. Way(a, p, u2 \o GtcPrintStats(N, p, FALSE), h(1, 0, 0, 1, {}, {}), h(7, 1, 1, n, OwnBlocks, done))
  BY <1>26, <1>10, WayCat
<1>28. Way(a, p, (u2 \o GtcPrintStats(N, p, FALSE)) \o <<de>>, h(1, 0, 0, 1, {}, {}), h(7, 1, 0, n, OwnBlocks, done))
  BY <1>27, <1>11, WayCat
<1> DEFINE u3 == ((u2 \o GtcPrintStats(N, p, FALSE)) \o <<de>>) \o GtcDestroy
<1>29. Way(a, p, u3, h(1, 0, 0, 1, {}, {}), h(9, 1, 0, n + 3, {LockBlock}, done))
  BY <1>28, <1>12, WayCat
<1> HIDE DEF u3
<1>30. Way(a, p, (GtcInit \o <<Barrier>>) \o u3, Beginning, h(9, 1, 0, n + 3, {LockBlock}, done))
  BY <1>21, <1>29, WayCat
<1>31. Way(a, p, ((GtcInit \o <<Barrier>>) \o u3) \o <<r1, r2>>, Beginning, h(9, 1, 0, n + 3 + 1 + 1, {LockBlock}, done))
  BY <1>30, <1>15, WayCat
<1>32. Way(a, p, (((GtcInit \o <<Barrier>>) \o u3) \o <<r1, r2>>) \o GtcFini, Beginning, z)
  BY <1>31, <1>16, WayCat
<1>33. Main(a, p) = (((GtcInit \o <<Barrier>>) \o u3) \o <<r1, r2>>) \o GtcFini
  BY <1>20, Zenon DEF u1, u2, u3
<1>34. Way(a, p, Main(a, p), Beginning, z)
  BY <1>32, <1>33, Zenon
<1> QED BY <1>34, <1>e

LEMMA WayMad ==
  ASSUME NEW a, a.prog = "mad3d", WellFormed(a), NEW p \in Procs
  PROVE  \E h : Ending(h) /\ Way(a, p, Main(a, p), Beginning, h)
<1> DEFINE h(ph, cl, ct, bl, d) == At(ph, cl, 0, 0, ct, bl, d)
           t(ph, cl, ct, bl, d) == Telling(ph, cl, 0, 0, ct, bl, d)
           pl == {} \cup {"planted"}
           y1 == Class("refine_task_wrapper")  x1 == Step("create_tree")  x2 == Step("evaluate")
           rf == Refine(TRUE, <<>>, RootBox(a))
           s1 == IF p = 0 THEN <<rf>> ELSE <<>>
           s2 == IF p = 0 /\ a.test_eval THEN <<x2>> ELSE <<>>
<1>0. /\ Entry(a) = 11 /\ Len(ClassNames(a)) = 1 /\ Len(ObjectNames(a)) = 0
      /\ ClassNames(a)[1] = "refine_task_wrapper"
  BY DEF Entry, ClassNames, ObjectNames
<1>m. /\ 8 < Entry(a) /\ 9 < Entry(a) /\ 0 < Len(ClassNames(a)) /\ 1 = Len(ClassNames(a)) /\ 0 = Len(ObjectNames(a))
      /\ 1 = 0 + 1 /\ 4 \in 1..4 /\ 4 = 4 /\ 11 = 10 + 1 /\ 11 = Entry(a) /\ 10 = 9 + 1 /\ 10 < Entry(a) /\ 9 = 8 + 1
      /\ 7 = 7 /\ 4 \in {1, 2, 3, 4, 7, 8, 9} /\ "planted" \notin {} /\ "planted" \in pl
  BY <1>0
<1>n. /\ "refine_task_wrapper" \in FcnNames
      /\ Barrier \in Steps(a) /\ Barrier.op = "barrier" /\ a.prog # "tasks"
      /\ x2 \in Steps(a) /\ x2.op = "evaluate"
  BY StepNames DEF FcnNames
<1>1. Way(a, p, GtcInit, Beginning, h(1, 0, 0, {}, {})) /\ t(1, 0, 0, {}, {})
  BY <1>n, WayGtcInit
<1>2. Way(a, p, GtcCreate(CfgInit), h(1, 0, 0, {}, {}), h(4, 0, 8, OwnBlocks, {})) /\ t(4, 0, 8, OwnBlocks, {})
  <2>1. 8 = 0 + 8 /\ 8 <= Entry(a) /\ Entry(a) \in Nat /\ 1 = IF a.prog = "tasks" THEN 0 ELSE 1
    BY <1>0, <1>n
  <2> QED BY <2>1, <1>1, WayGtcCreate
<1>3. Way(a, p, <<y1>>, h(4, 0, 8, OwnBlocks, {}), h(4, 1, 8, OwnBlocks, {})) /\ t(4, 1, 8, OwnBlocks, {})
  BY <1>0, <1>m, <1>n, <1>2, WayClass
<1>4. Way(a, p, <<x1>>, h(4, 1, 8, OwnBlocks, {}), h(4, 1, 8, OwnBlocks, pl)) /\ t(4, 1, 8, OwnBlocks, pl)
  BY <1>m, <1>3, WayPlant
<1> HIDE DEF pl, x2
<1>5. Way(a, p, <<Barrier>>, h(4, 1, 8, OwnBlocks, pl), h(4, 1, 9, OwnBlocks, pl)) /\ t(4, 1, 9, OwnBlocks, pl)
  <2>1. 4 \in {1, 2, 3, 4, 7, 8, 9} /\ 9 = 8 + 1 /\ 8 < Entry(a)
    BY <1>m
  <2> QED BY <2>1, <1>n, <1>4, WayBarrier
<1>6. Way(a, p, s1, h(4, 1, 9, OwnBlocks, pl), h(4, 1, 9, OwnBlocks, pl))
  <2>1. <<rf>> \in WorkCalls(a, p, TRUE)
    <3>1. RootBox(a) \in BoxSet(a) /\ <<>> \in Seq(Nat) /\ TRUE \in BOOLEAN
      BY DEF RootBox, Box, BoxSet
    <3> QED BY <3>1, MadRefines
  <2>2. TRUE => "planted" \in pl
    BY <1>m
  <2> HIDE DEF rf
  <2>3. Way(a, p, <<rf>>, h(4, 1, 9, OwnBlocks, pl), h(4, 1, 9, OwnBlocks, pl))
    BY <2>1, <2>2, <1>m, <1>5, WayWork
  <2> QED BY <2>3, WayNothing
<1> HIDE DEF s1
<1>7. Way(a, p, <<Barrier>>, h(4, 1, 9, OwnBlocks, pl), h(4, 1, 10, OwnBlocks, pl)) /\ t(4, 1, 10, OwnBlocks, pl)
  <2>1. 4 \in {1, 2, 3, 4, 7, 8, 9} /\ 10 = 9 + 1 /\ 9 < Entry(a)
    BY <1>m
  <2> QED BY <2>1, <1>n, <1>5, WayBarrier
<1>8. Way(a, p, GtcProcess, h(4, 1, 10, OwnBlocks, pl), h(7, 1, 11, OwnBlocks, pl)) /\ t(7, 1, 11, OwnBlocks, pl)
  BY <1>m, <1>7, WayGtcProcess
<1>9. Way(a, p, s2, h(7, 1, 11, OwnBlocks, pl), h(7, 1, 11, OwnBlocks, pl))
  <2>1. PhaseStep(a, x2, 7, 1, 0, 11, 7)
    BY <1>n DEF PhaseStep
  <2>2. Way(a, p, <<x2>>, h(7, 1, 11, OwnBlocks, pl), h(7, 1, 11, OwnBlocks, pl))
    BY <2>1, <1>n, <1>8, WayAhead
  <2> QED BY <2>2, WayNothing
<1> HIDE DEF s2
<1>10. PICK n \in Nat : \E done :
         /\ n > 11
         /\ Way(a, p, GtcPrintStats(N, p, FALSE), h(7, 1, 11, OwnBlocks, pl), h(7, 1, n, OwnBlocks, done))
         /\ t(7, 1, n, OwnBlocks, done)
  <2>1. FALSE \in BOOLEAN /\ (FALSE <=> a.prog = "tasks") /\ OwnBlocks \subseteq OwnBlocks
        /\ "mine" \notin pl /\ "totals" \notin pl
    BY <1>n DEF pl
  <2> QED BY <2>1, <1>8, WayPrintStats
<1>11. PICK done :
         /\ n > 11
         /\ Way(a, p, GtcPrintStats(N, p, FALSE), h(7, 1, 11, OwnBlocks, pl), h(7, 1, n, OwnBlocks, done))
         /\ t(7, 1, n, OwnBlocks, done)
  BY <1>10
<1>12. Way(a, p, <<Barrier>>, h(7, 1, n, OwnBlocks, done), h(7, 1, n + 1, OwnBlocks, done)) /\ t(7, 1, n + 1, OwnBlocks, done)
  BY <1>n, <1>11, WayMeet
<1>13. Way(a, p, GtcDestroy, h(7, 1, n + 1, OwnBlocks, done), h(9, 1, n + 1 + 3, {LockBlock}, done)) /\ t(9, 1, n + 1 + 3, {LockBlock}, done)
  <2>1. Entry(a) \in Nat /\ n + 1 >= Entry(a)
    BY <1>0, <1>11
  <2> QED BY <2>1, <1>12, WayGtcDestroy
<1> DEFINE z == h(10, 1, n + 1 + 3 + 2, {LockBlock}, done)
<1>14. Way(a, p, GtcFini, h(9, 1, n + 1 + 3, {LockBlock}, done), z) /\ t(10, 1, n + 1 + 3 + 2, {LockBlock}, done)
  BY <1>13, WayGtcFini
<1>e. Ending(z)
  BY <1>14, EndingAt
<1>15. Way(a, p, <<x1, Barrier>>, h(4, 1, 8, OwnBlocks, {}), h(4, 1, 9, OwnBlocks, pl))
  BY <1>4, <1>5, WayTwo
<1> DEFINE i1 == ((<<x1, Barrier>> \o s1) \o <<Barrier>>) \o GtcProcess
<1>20. Main(a, p) = (((((((GtcInit \o GtcCreate(CfgInit)) \o <<y1>>) \o i1) \o s2) \o GtcPrintStats(N, p, FALSE))
                     \o <<Barrier>>) \o GtcDestroy) \o GtcFini
  <2>1. MadMain(a, N, p) = (((((((GtcInit \o GtcCreate(CfgInit)) \o <<y1>>) \o i1) \o s2) \o GtcPrintStats(N, p, FALSE))
                     \o <<Barrier>>) \o GtcDestroy) \o GtcFini
    BY Zenon DEF MadMain, InitFunction, s1, s2, x2
  <2> HIDE DEF y1, i1
  <2> QED BY <2>1 DEF Main
<1> HIDE DEF h, t, y1, z, x1
<1>21. Way(a, p, <<x1, Barrier>> \o s1, h(4, 1, 8, OwnBlocks, {}), h(4, 1, 9, OwnBlocks, pl))
  BY <1>15, <1>6, WayCat
<1>22. Way(a, p, (<<x1, Barrier>> \o s1) \o <<Barrier>>, h(4, 1, 8, OwnBlocks, {}), h(4, 1, 10, OwnBlocks, pl))
  BY <1>21, <1>7, WayCat
<1>23. Way(a, p, i1, h(4, 1, 8, OwnBlocks, {}), h(7, 1, 11, OwnBlocks, pl))
  BY <1>22, <1>8, WayCat
<1> HIDE DEF i1
<1>24. Way(a, p, GtcInit \o GtcCreate(CfgInit), Beginning, h(4, 0, 8, OwnBlocks, {}))
  BY <1>1, <1>2, WayCat
<1>25. Way(a, p, (GtcInit \o GtcCreate(CfgInit)) \o <<y1>>, Beginning, h(4, 1, 8, OwnBlocks, {}))
  BY <1>24, <1>3, WayCat
<1> DEFINE u1 == ((GtcInit \o GtcCreate(CfgInit)) \o <<y1>>) \o i1
<1>26. Way(a, p, u1, Beginning, h(7, 1, 11, OwnBlocks, pl))
  BY <1>25, <1>23, WayCat
<1> HIDE DEF u1
<1>27. Way(a, p, u1 \o s2, Beginning, h(7, 1, 11, OwnBlocks, pl))
  BY <1>26, <1>9, WayCat
<1>28. Way(a, p, (u1 \o s2) \o GtcPrintStats(N, p, FALSE), Beginning, h(7, 1, n, OwnBlocks, done))
  BY <1>27, <1>11, WayCat
<1> DEFINE u2 == ((u1 \o s2) \o GtcPrintStats(N, p, FALSE)) \o <<Barrier>>
<1>29. Way(a, p, u2, Beginning, h(7, 1, n + 1, OwnBlocks, done))
  BY <1>28, <1>12, WayCat
<1> HIDE DEF u2
<1>30. Way(a, p, u2 \o GtcDestroy, Beginning, h(9, 1, n + 1 + 3, {LockBlock}, done))
  BY <1>29, <1>13, WayCat
<1>31. Way(a, p, (u2 \o GtcDestroy) \o GtcFini, Beginning, z)
  BY <1>30, <1>14, WayCat
<1>32. Main(a, p) = (u2 \o GtcDestroy) \o GtcFini
  BY <1>20, Zenon DEF u1, u2
<1>33. Way(a, p, Main(a, p), Beginning, z)
  BY <1>31, <1>32, Zenon
<1> QED BY <1>33, <1>e

\* Every process's program, to its end.
LEMMA MainWay ==
  ASSUME NEW a, WellFormed(a), NEW p \in Procs
  PROVE  \E h : Ending(h) /\ Way(a, p, Full(a, p), Beginning, h)
<1>1. CASE a.prog = "bpc"
  <2>1. Full(a, p) = Main(a, p)
    BY <1>1 DEF Full
  <2> QED BY <2>1, <1>1, WayBpc
<1>2. CASE a.prog = "uts"
  <2>1. Full(a, p) = Main(a, p)
    BY <1>2 DEF Full
  <2> QED BY <2>1, <1>2, WayUts
<1>3. CASE a.prog = "mad3d"
  <2>1. Full(a, p) = Main(a, p)
    BY <1>3 DEF Full
  <2> QED BY <2>1, <1>3, WayMad
<1>4. CASE a.prog = "tasks"
  BY <1>4, WayTasks
<1> QED BY <1>1, <1>2, <1>3, <1>4 DEF WellFormed
-----------------------------------------------------------------------------
(***************************************************************************)
(* The processes' programs have the same collectives in the same order.    *)
(***************************************************************************)
Same(a, s, t) == /\ s \in Seq(Steps(a)) /\ t \in Seq(Steps(a))
                 /\ Picked(s, CollectiveOps) = Picked(t, CollectiveOps)

LEMMA SameCat ==
  ASSUME NEW a, NEW s, NEW t, NEW u, NEW v, Same(a, s, t), Same(a, u, v)
  PROVE  Same(a, s \o u, t \o v)
<1> DEFINE S == Steps(a)
<1>1. s \in Seq(S) /\ t \in Seq(S) /\ u \in Seq(S) /\ v \in Seq(S)
      /\ Picked(s, CollectiveOps) = Picked(t, CollectiveOps)
      /\ Picked(u, CollectiveOps) = Picked(v, CollectiveOps)
  BY DEF Same
<1> HIDE DEF S
<1>2. Cat(s, u) \in Seq(S) /\ Cat(t, v) \in Seq(S)
  BY <1>1, CatType
<1>3. Picked(Cat(s, u), CollectiveOps) = Cat(Picked(s, CollectiveOps), Picked(u, CollectiveOps))
  BY <1>1, PickedCat
<1>4. Picked(Cat(t, v), CollectiveOps) = Cat(Picked(t, CollectiveOps), Picked(v, CollectiveOps))
  BY <1>1, PickedCat
<1>5. Same(a, Cat(s, u), Cat(t, v))
  BY <1>1, <1>2, <1>3, <1>4 DEF Same, S
<1> QED BY <1>5, Zenon DEF Cat

LEMMA SameSelf ==
  ASSUME NEW a, NEW s \in Seq(Steps(a))
  PROVE  Same(a, s, s)
BY DEF Same

\* Steps that are no collectives, on either process.
LEMMA SameNone ==
  ASSUME NEW a, NEW s \in Seq(Steps(a)), NEW t \in Seq(Steps(a)),
         Ops(s) \cap CollectiveOps = {}, Ops(t) \cap CollectiveOps = {}
  PROVE  Same(a, s, t)
BY PickedOthers DEF Same

\* One step, which is no collective, or none.
LEMMA SameOne ==
  ASSUME NEW a, NEW x \in Steps(a), x.op \notin CollectiveOps, NEW b \in BOOLEAN, NEW c \in BOOLEAN
  PROVE  Same(a, IF b THEN <<x>> ELSE <<>>, IF c THEN <<x>> ELSE <<>>)
<1> DEFINE s == IF b THEN <<x>> ELSE <<>>  t == IF c THEN <<x>> ELSE <<>>
<1>1. <<x>> \in Seq(Steps(a)) /\ <<>> \in Seq(Steps(a))
  BY SingleSeq
<1>2. Ops(<<x>>) = {x.op} /\ Ops(<<>>) = {}
  BY OpsOfOne, OpsOfNothing
<1>3. s \in Seq(Steps(a)) /\ t \in Seq(Steps(a))
  BY <1>1
<1>4. Ops(s) \cap CollectiveOps = {} /\ Ops(t) \cap CollectiveOps = {}
  BY <1>2
<1> HIDE DEF s, t
<1> QED BY <1>3, <1>4, SameNone DEF s, t

\* Calls that tasks are made of, or none.
LEMMA SameWork ==
  ASSUME NEW a, NEW p, NEW kept, NEW s \in WorkCalls(a, p, kept), NEW b \in BOOLEAN, NEW c \in BOOLEAN
  PROVE  Same(a, IF b THEN s ELSE <<>>, IF c THEN s ELSE <<>>)
<1> DEFINE u == IF b THEN s ELSE <<>>  v == IF c THEN s ELSE <<>>
<1>1. s \in Seq(Steps(a)) /\ <<>> \in Seq(Steps(a)) /\ Ops(s) \subseteq WorkOps /\ Ops(<<>>) = {}
  <2>1. <<>> \in Seq(Steps(a))
    OBVIOUS
  <2> QED BY <2>1, OpsOfNothing DEF WorkCalls
<1>2. WorkOps \cap CollectiveOps = {}
  BY DEF WorkOps, CollectiveOps
<1>3. u \in Seq(Steps(a)) /\ v \in Seq(Steps(a))
  BY <1>1
<1>4. Ops(u) \cap CollectiveOps = {} /\ Ops(v) \cap CollectiveOps = {}
  BY <1>1, <1>2
<1> HIDE DEF u, v
<1> QED BY <1>3, <1>4, SameNone DEF u, v

\* What the library's calls consist of.
LEMMA CallsMade ==
  ASSUME NEW a, NEW p \in Procs
  PROVE  /\ GtcInit \in Seq(Steps(a)) /\ GtcCreate(CfgInit) \in Seq(Steps(a))
         /\ GtcProcess \in Seq(Steps(a)) /\ StatReduce \in Seq(Steps(a))
         /\ QueueGstats \in Seq(Steps(a)) /\ GtcDestroy \in Seq(Steps(a))
         /\ GtcFini \in Seq(Steps(a))
         /\ a.prog = "tasks" => NodeStats(N, p) \in Seq(Steps(a))
<1> DEFINE ph == IF a.prog = "tasks" THEN 0 ELSE 1  e == Entry(a)
<1>0. e \in Nat /\ e >= 8 /\ 8 = 0 + 8 /\ Turns(a) \in Nat /\ N \in Nat
  BY NAssumption DEF Entry, Turns
<1> HIDE DEF e
<1>t. \A n \in Nat : Telling(7, 0, 0, 0, n, {}, {}) /\ Telling(7, 0, 0, 0, n, OwnBlocks, {})
                     /\ Telling(9, 0, 0, 0, n, {}, {}) /\ Telling(ph, 0, 0, 0, n, {}, {})
  <2>1. {} \in SUBSET Blocks /\ OwnBlocks \in SUBSET Blocks
    BY BlockFacts DEF OwnBlocks
  <2> QED BY <2>1 DEF Telling
<1>1. GtcInit \in Seq(Steps(a)) /\ GtcProcess \in Seq(Steps(a))
  <2>1. Step("init") \in Steps(a) /\ Step("start") \in Steps(a) /\ Barrier \in Steps(a)
    BY StepNames
  <2> QED BY <2>1 DEF GtcInit, GtcProcess
<1>2. GtcCreate(CfgInit) \in Seq(Steps(a))
  <2> HIDE DEF ph
  <2>1. Telling(ph, 0, 0, 0, 0, {}, {}) /\ ph = (IF a.prog = "tasks" THEN 0 ELSE 1) /\ 8 <= Entry(a) /\ Entry(a) \in Nat
    BY <1>0, <1>t DEF ph, e
  <2>2. Way(a, p, GtcCreate(CfgInit), At(ph, 0, 0, 0, 0, {}, {}), At(4, 0, 0, 0, 8, OwnBlocks, {}))
    BY <2>1, <1>0, WayGtcCreate
  <2> QED BY <2>2 DEF Way
<1>3. StatReduce \in Seq(Steps(a))
  <2>1. 4 = 0 + 4 /\ Telling(7, 0, 0, 0, 0, {}, {})
    BY <1>t
  <2>2. Way(a, p, StatReduce, At(7, 0, 0, 0, 0, {}, {}), At(7, 0, 0, 0, 4, {}, {}))
    BY <2>1, WayStatReduce
  <2> QED BY <2>2 DEF Way
<1>4. QueueGstats \in Seq(Steps(a))
  <2>1. 6 = 0 + 6 /\ Telling(7, 0, 0, 0, 0, {}, {}) /\ StatBlocks("queue") \notin {}
    BY <1>t
  <2>2. Way(a, p, QueueGstats, At(7, 0, 0, 0, 0, {}, {}), At(7, 0, 0, 0, 6, {}, {}))
    BY <2>1, WayQueueGstats
  <2> QED BY <2>2 DEF Way
<1>5. GtcDestroy \in Seq(Steps(a))
  <2>1. Telling(7, 0, 0, 0, e, OwnBlocks, {}) /\ Entry(a) \in Nat /\ e >= Entry(a)
    BY <1>0, <1>t DEF e
  <2>2. Way(a, p, GtcDestroy, At(7, 0, 0, 0, e, OwnBlocks, {}), At(9, 0, 0, 0, e + 3, {LockBlock}, {}))
    BY <2>1, WayGtcDestroy
  <2> QED BY <2>2 DEF Way
<1>6. GtcFini \in Seq(Steps(a))
  <2>1. Telling(9, 0, 0, 0, 0, {}, {})
    BY <1>t
  <2>2. Way(a, p, GtcFini, At(9, 0, 0, 0, 0, {}, {}), At(10, 0, 0, 0, 0 + 2, {}, {}))
    BY <2>1, WayGtcFini
  <2> QED BY <2>2 DEF Way
<1>7. ASSUME a.prog = "tasks" PROVE NodeStats(N, p) \in Seq(Steps(a))
  <2> DEFINE k == Turns(a)  n == k + N + 1
  <2>1. Telling(7, 0, 0, 0, k, {}, {}) /\ k = Turns(a) /\ n = k + N + 1
    BY <1>0, <1>t
  <2> HIDE DEF k, n
  <2>2. Way(a, p, NodeStats(N, p), At(7, 0, 0, 0, k, {}, {}), At(7, 0, 0, 0, n, {}, {"mine"}))
    BY <2>1, <1>7, WayNodeStats
  <2> QED BY <2>2 DEF Way
<1> QED BY <1>1, <1>2, <1>3, <1>4, <1>5, <1>6, <1>7

\* Each process prints in its turn, and all of them meet N + 1 times.
LEMMA SameTurns ==
  ASSUME NEW a, a.prog = "tasks", NEW p \in Procs, NEW q \in Procs
  PROVE  Same(a, NodeStats(N, p), NodeStats(N, q))
<1> DEFINE S == Steps(a)  last == N + 1
           turns(r) == [i \in 1..last |-> (IF i - 1 = r THEN MyStats ELSE <<>>) \o <<Barrier>>]
           meets == [i \in 1..last |-> <<Barrier>>]
<1>0. last \in Nat
  BY NAssumption
<1>1. Barrier \in S /\ Barrier.op \in CollectiveOps /\ <<Barrier>> \in Seq(S) /\ <<>> \in Seq(S)
  <2>1. Barrier \in S /\ Barrier.op = "barrier"
    BY StepNames
  <2> QED BY <2>1 DEF CollectiveOps
<1> DEFINE x == [op |-> "print", what |-> "my stats"]
<1>2. x \in S /\ x.op \notin CollectiveOps /\ MyStats = <<x>>
  <2>1. MyStats = <<x>>
    BY DEF MyStats
  <2> QED BY <2>1 DEF Steps, OtherSteps, CollectiveOps
<1> HIDE DEF x, S
<1>3. ASSUME NEW c \in BOOLEAN
      PROVE  Same(a, (IF c THEN MyStats ELSE <<>>) \o <<Barrier>>, <<>> \o <<Barrier>>)
  <2>1. Same(a, IF c THEN <<x>> ELSE <<>>, IF FALSE THEN <<x>> ELSE <<>>)
    BY <1>2, SameOne DEF S
  <2>2. Same(a, <<Barrier>>, <<Barrier>>)
    BY <1>1, SameSelf DEF S
  <2>3. Same(a, IF c THEN MyStats ELSE <<>>, <<>>)
    BY <2>1, <1>2, Zenon
  <2> QED BY <2>2, <2>3, SameCat
<1>4. <<>> \o <<Barrier>> = <<Barrier>>
  BY <1>1, CatEmpty, Zenon DEF Cat
<1>5. Picked(<<Barrier>>, CollectiveOps) = <<Barrier>>
  BY <1>1, PickedBasic
<1>6. ASSUME NEW r \in Procs
      PROVE  NodeStats(N, r) \in Seq(S) /\ Picked(NodeStats(N, r), CollectiveOps) = FlattenSeq(meets)
  <2>1. ASSUME NEW i \in 1..last
        PROVE  /\ (IF i - 1 = r THEN MyStats ELSE <<>>) \o <<Barrier>> \in Seq(S)
               /\ Picked((IF i - 1 = r THEN MyStats ELSE <<>>) \o <<Barrier>>, CollectiveOps) = <<Barrier>>
    <3> DEFINE c == i - 1 = r  u == (IF c THEN MyStats ELSE <<>>) \o <<Barrier>>
    <3>1. c \in BOOLEAN
      OBVIOUS
    <3> HIDE DEF c
    <3>2. Same(a, u, <<Barrier>>)
      BY <3>1, <1>3, <1>4
    <3> HIDE DEF u
    <3>3. u \in Seq(S) /\ Picked(u, CollectiveOps) = <<Barrier>>
      BY <3>2, <1>5 DEF Same, S
    <3> QED BY <3>3 DEF u, c
  <2> DEFINE mine == turns(r)
  <2>2. mine \in [1..last -> Seq(S)] /\ meets \in [1..last -> Seq(S)] /\ \A i \in 1..last : Picked(mine[i], CollectiveOps) = meets[i]
    <3> DEFINE w(i) == (IF i - 1 = r THEN MyStats ELSE <<>>) \o <<Barrier>>
    <3>1. \A i \in 1..last : w(i) \in Seq(S) /\ Picked(w(i), CollectiveOps) = <<Barrier>>
      BY <2>1
    <3>2. mine = [i \in 1..last |-> w(i)]
      OBVIOUS
    <3> HIDE DEF w, mine, last
    <3> QED BY <3>1, <3>2, <1>1
  <2>3. NodeStats(N, r) = FlattenSeq(mine)
    BY DEF NodeStats
  <2> HIDE DEF mine, meets, last
  <2>4. Picked(FlattenSeq(mine), CollectiveOps) = FlattenSeq(meets)
    <3>1. PicksEach(mine, meets, last, S, CollectiveOps)
      BY <2>2 DEF PicksEach
    <3> QED BY <3>1, <1>0, PickedJoined
  <2>5. NodeStats(N, r) \in Seq(S)
    BY CallsMade DEF S
  <2> QED BY <2>3, <2>4, <2>5
<1> HIDE DEF meets
<1> QED BY <1>6 DEF Same, S

LEMMA SamePrinting ==
  ASSUME NEW a, NEW x \in BOOLEAN, x => a.prog = "tasks", NEW p \in Procs, NEW q \in Procs
  PROVE  Same(a, GtcPrintStats(N, p, x), GtcPrintStats(N, q, x))
<1> DEFINE b == StatBlocks("common")
           s0(r) == IF x THEN NodeStats(N, r) ELSE <<>>
           y == [op |-> "print", what |-> "totals"]
           s1(r) == IF r = 0 THEN <<y>> ELSE <<>>
           whole(r) == ((((((<<Barrier>> \o s0(r)) \o <<Barrier>>) \o <<Alloc(b)>>) \o StatReduce) \o s1(r))
                        \o QueueGstats) \o <<Free(b), Barrier>>
<1>1. \A r : GtcPrintStats(N, r, x) = whole(r)
  BY Zenon DEF GtcPrintStats
<1>2. Same(a, s0(p), s0(q))
  <2>0. <<>> \in Seq(Steps(a))
    OBVIOUS
  <2>1. Same(a, <<>>, <<>>)
    BY <2>0, SameSelf
  <2> QED BY <2>1, SameTurns
<1>3. Same(a, s1(p), s1(q))
  <2> DEFINE c == p = 0  d == q = 0
  <2>1. y \in Steps(a) /\ y.op \notin CollectiveOps /\ c \in BOOLEAN /\ d \in BOOLEAN
    BY DEF Steps, OtherSteps, CollectiveOps
  <2> HIDE DEF y, c, d
  <2>2. Same(a, IF c THEN <<y>> ELSE <<>>, IF d THEN <<y>> ELSE <<>>)
    BY <2>1, SameOne
  <2> QED BY <2>2 DEF c, d
<1>4. /\ Same(a, <<Barrier>>, <<Barrier>>) /\ Same(a, <<Alloc(b)>>, <<Alloc(b)>>)
      /\ Same(a, StatReduce, StatReduce) /\ Same(a, QueueGstats, QueueGstats)
      /\ Same(a, <<Free(b), Barrier>>, <<Free(b), Barrier>>)
  <2>1. /\ <<Barrier>> \in Seq(Steps(a)) /\ <<Alloc(b)>> \in Seq(Steps(a))
        /\ <<Free(b), Barrier>> \in Seq(Steps(a))
    <3>1. Alloc(b) \in Steps(a) /\ Free(b) \in Steps(a) /\ Barrier \in Steps(a)
      <4>1. b \in Blocks
        BY BlockFacts
      <4> HIDE DEF b
      <4> QED BY <4>1, StepNames DEF Alloc, Free, Steps, OtherSteps
    <3> HIDE DEF b
    <3> QED BY <3>1
  <2> QED BY <2>1, CallsMade, SameSelf
<1> HIDE DEF s0, s1, b
<1>5. Same(a, <<Barrier>> \o s0(p), <<Barrier>> \o s0(q))
  BY <1>2, <1>4, SameCat
<1>6. Same(a, (<<Barrier>> \o s0(p)) \o <<Barrier>>, (<<Barrier>> \o s0(q)) \o <<Barrier>>)
  BY <1>5, <1>4, SameCat
<1> DEFINE u(r) == (<<Barrier>> \o s0(r)) \o <<Barrier>>
<1> HIDE DEF u
<1>7. Same(a, u(p) \o <<Alloc(b)>>, u(q) \o <<Alloc(b)>>)
  BY <1>6, <1>4, SameCat DEF u
<1>8. Same(a, (u(p) \o <<Alloc(b)>>) \o StatReduce, (u(q) \o <<Alloc(b)>>) \o StatReduce)
  BY <1>7, <1>4, SameCat
<1>9. Same(a, ((u(p) \o <<Alloc(b)>>) \o StatReduce) \o s1(p), ((u(q) \o <<Alloc(b)>>) \o StatReduce) \o s1(q))
  BY <1>8, <1>3, SameCat
<1> DEFINE v(r) == ((u(r) \o <<Alloc(b)>>) \o StatReduce) \o s1(r)
<1> HIDE DEF v
<1>10. Same(a, v(p) \o QueueGstats, v(q) \o QueueGstats)
  BY <1>9, <1>4, SameCat DEF v
<1>11. Same(a, (v(p) \o QueueGstats) \o <<Free(b), Barrier>>, (v(q) \o QueueGstats) \o <<Free(b), Barrier>>)
  BY <1>10, <1>4, SameCat
<1>12. /\ whole(p) = (v(p) \o QueueGstats) \o <<Free(b), Barrier>>
       /\ whole(q) = (v(q) \o QueueGstats) \o <<Free(b), Barrier>>
  BY Zenon DEF u, v
<1>13. GtcPrintStats(N, p, x) = whole(p) /\ GtcPrintStats(N, q, x) = whole(q)
  BY <1>1, Zenon
<1> HIDE DEF whole
<1>14. Same(a, whole(p), whole(q))
  BY <1>11, <1>12, Zenon
<1> QED BY <1>13, <1>14, Zenon
-----------------------------------------------------------------------------
\* A chain of calls, one process's next to another's.
LEMMA SameThree ==
  ASSUME NEW a, NEW s1, NEW t1, NEW s2, NEW t2, NEW s3, NEW t3,
         Same(a, s1, t1), Same(a, s2, t2), Same(a, s3, t3)
  PROVE  Same(a, (s1 \o s2) \o s3, (t1 \o t2) \o t3)
<1>1. Same(a, s1 \o s2, t1 \o t2)
  BY SameCat
<1> QED BY <1>1, SameCat

LEMMA SameFive ==
  ASSUME NEW a, NEW s1, NEW t1, NEW s2, NEW t2, NEW s3, NEW t3, NEW s4, NEW t4, NEW s5, NEW t5,
         Same(a, s1, t1), Same(a, s2, t2), Same(a, s3, t3), Same(a, s4, t4), Same(a, s5, t5)
  PROVE  Same(a, (((s1 \o s2) \o s3) \o s4) \o s5, (((t1 \o t2) \o t3) \o t4) \o t5)
<1>1. Same(a, (s1 \o s2) \o s3, (t1 \o t2) \o t3)
  BY SameThree
<1> DEFINE s == (s1 \o s2) \o s3  t == (t1 \o t2) \o t3
<1> HIDE DEF s, t
<1>2. Same(a, (s \o s4) \o s5, (t \o t4) \o t5)
  BY <1>1, SameThree DEF s, t
<1> QED BY <1>2 DEF s, t

LEMMA SameSeven ==
  ASSUME NEW a, NEW s1, NEW t1, NEW s2, NEW t2, NEW s3, NEW t3, NEW s4, NEW t4, NEW s5, NEW t5,
         NEW s6, NEW t6, NEW s7, NEW t7,
         Same(a, s1, t1), Same(a, s2, t2), Same(a, s3, t3), Same(a, s4, t4), Same(a, s5, t5),
         Same(a, s6, t6), Same(a, s7, t7)
  PROVE  Same(a, (((((s1 \o s2) \o s3) \o s4) \o s5) \o s6) \o s7,
                 (((((t1 \o t2) \o t3) \o t4) \o t5) \o t6) \o t7)
<1>1. Same(a, (((s1 \o s2) \o s3) \o s4) \o s5, (((t1 \o t2) \o t3) \o t4) \o t5)
  BY SameFive
<1> DEFINE s == (((s1 \o s2) \o s3) \o s4) \o s5  t == (((t1 \o t2) \o t3) \o t4) \o t5
<1> HIDE DEF s, t
<1>2. Same(a, (s \o s6) \o s7, (t \o t6) \o t7)
  BY <1>1, SameThree DEF s, t
<1> QED BY <1>2 DEF s, t

\* The pieces of the programs that do not depend on the process.
LEMMA PiecesMade ==
  ASSUME NEW a
  PROVE  /\ <<Barrier>> \in Seq(Steps(a)) /\ <<Step("create_tree"), Barrier>> \in Seq(Steps(a))
         /\ \A f \in FcnNames : <<Class(f)>> \in Seq(Steps(a))
         /\ \A f, g \in FcnNames : <<Class(f), Class(g)>> \in Seq(Steps(a))
         /\ \A u, v, w \in ObjectSet : <<Associate(u), Associate(v), Associate(w)>> \in Seq(Steps(a))
         /\ \A v \in ReduceVars : /\ <<Reduce("sum", v)>> \in Seq(Steps(a))
                                  /\ <<Reduce("sum", v), Barrier>> \in Seq(Steps(a))
         /\ \A v, w \in ReduceVars : <<Reduce("sum", v), Reduce("max", w)>> \in Seq(Steps(a))
         /\ <<Create(1)>> \in Seq(Steps(a)) /\ <<Destroy(1)>> \in Seq(Steps(a))
<1>1. Barrier \in Steps(a)
  BY StepNames
<1>2. Step("create_tree") \in Steps(a)
  BY DEF Step, Steps, PlainSteps
<1>3. \A f \in FcnNames : Class(f) \in Steps(a)
  BY DEF Class, Steps, OtherSteps
<1>4. \A u \in ObjectSet : Associate(u) \in Steps(a)
  BY DEF Associate, Steps, OtherSteps
<1>5. \A v \in ReduceVars : Reduce("sum", v) \in Steps(a) /\ Reduce("max", v) \in Steps(a)
  BY ReduceSteps
<1>6. Create(1) \in Steps(a) /\ Destroy(1) \in Steps(a)
  BY DEF Create, Destroy, Steps, WorkSteps, Classes
<1> QED BY <1>1, <1>2, <1>3, <1>4, <1>5, <1>6

LEMMA SameBpc ==
  ASSUME NEW a, a.prog = "bpc", WellFormed(a), NEW p \in Procs, NEW q \in Procs
  PROVE  Same(a, Main(a, p), Main(a, q))
<1> DEFINE A == <<Associate("ntasks"), Associate("nproducers"), Associate("nconsumers")>>
           K == <<Class("producer_task_fcn"), Class("consumer_task_fcn")>>
           R == <<Reduce("sum", <<"ntasks", "nproducers", "nconsumers">>), Barrier>>
           s(r) == IF r = 0 THEN <<Step("seed")>> ELSE <<>>
           u(r) == (((((GtcInit \o GtcCreate(CfgInit)) \o A) \o K) \o s(r)) \o GtcProcess) \o R
           w(r) == (((u(r) \o GtcPrintStats(N, r, FALSE)) \o <<Barrier>>) \o GtcDestroy) \o GtcFini
<1>1. A \in Seq(Steps(a)) /\ K \in Seq(Steps(a)) /\ R \in Seq(Steps(a)) /\ <<Barrier>> \in Seq(Steps(a))
  <2>1. "producer_task_fcn" \in FcnNames /\ "consumer_task_fcn" \in FcnNames
    BY DEF FcnNames
  <2>2. "ntasks" \in ObjectSet /\ "nproducers" \in ObjectSet /\ "nconsumers" \in ObjectSet
    BY DEF ObjectSet
  <2>3. <<"ntasks", "nproducers", "nconsumers">> \in ReduceVars
    BY DEF ReduceVars
  <2> QED BY <2>1, <2>2, <2>3, PiecesMade
<1>2. Same(a, s(p), s(q))
  <2> DEFINE c == p = 0  d == q = 0  x == Step("seed")
  <2>1. x \in Steps(a) /\ x.op \notin CollectiveOps /\ c \in BOOLEAN /\ d \in BOOLEAN
    BY DEF Step, Steps, PlainSteps, CollectiveOps
  <2> HIDE DEF x, c, d
  <2>2. Same(a, IF c THEN <<x>> ELSE <<>>, IF d THEN <<x>> ELSE <<>>)
    BY <2>1, SameOne
  <2> QED BY <2>2 DEF x, c, d
<1>3. Same(a, GtcPrintStats(N, p, FALSE), GtcPrintStats(N, q, FALSE))
  BY SamePrinting
<1>4. ASSUME NEW r \in Procs PROVE Main(a, r) = w(r)
  <2>1. BpcMain(a, N, r) = w(r)
    BY Zenon DEF BpcMain, BpcClasses
  <2> HIDE DEF w
  <2> QED BY <2>1 DEF Main
<1> HIDE DEF A, K, R, s
<1>5. Same(a, u(p), u(q))
  BY <1>1, <1>2, CallsMade, SameSelf, SameSeven
<1> HIDE DEF u
<1>6. Same(a, w(p), w(q))
  BY <1>1, <1>3, <1>5, CallsMade, SameSelf, SameFive
<1>7. Main(a, p) = w(p) /\ Main(a, q) = w(q)
  BY <1>4
<1> HIDE DEF w
<1> QED BY <1>6, <1>7

LEMMA SameUts ==
  ASSUME NEW a, a.prog = "uts", WellFormed(a), NEW p \in Procs, NEW q \in Procs
  PROVE  Same(a, Main(a, p), Main(a, q))
<1> DEFINE f == IF a.strict THEN "strict_dfs_task_fcn" ELSE "task_fcn"
           K == <<Class(f)>>  C == <<Create(1)>>  D == <<Destroy(1)>>
           R == <<Reduce("sum", <<"nNodes", "nLeaves">>), Reduce("max", <<"maxDepth">>)>>
           s(r) == IF r = 0 THEN UtsSeed ELSE <<>>
           u(r) == (((((K \o GtcCreate(CfgInit)) \o C) \o s(r)) \o <<Barrier>>) \o GtcProcess) \o GtcPrintStats(N, r, FALSE)
           v(r) == (u(r) \o D) \o GtcDestroy
           w(r) == (((GtcInit \o <<Barrier>>) \o v(r)) \o R) \o GtcFini
<1>1. K \in Seq(Steps(a)) /\ C \in Seq(Steps(a)) /\ D \in Seq(Steps(a)) /\ R \in Seq(Steps(a))
      /\ <<Barrier>> \in Seq(Steps(a))
  <2>1. f \in FcnNames
    BY DEF FcnNames
  <2>3. <<"nNodes", "nLeaves">> \in ReduceVars /\ <<"maxDepth">> \in ReduceVars
    BY DEF ReduceVars
  <2> HIDE DEF f
  <2> QED BY <2>1, <2>3, PiecesMade
<1>2. Same(a, s(p), s(q))
  <2> DEFINE c == p = 0  d == q = 0
  <2>1. UtsSeed \in WorkCalls(a, p, FALSE)
    <3>1. Iterator(<<>>) \in Bodies(a)
      BY DEF Iterator, Bodies, NodeSet, WellFormed
    <3> QED BY <3>1, UtsAdds DEF UtsSeed
  <2>2. c \in BOOLEAN /\ d \in BOOLEAN
    OBVIOUS
  <2> HIDE DEF c, d
  <2>3. Same(a, IF c THEN UtsSeed ELSE <<>>, IF d THEN UtsSeed ELSE <<>>)
    BY <2>1, <2>2, SameWork
  <2> QED BY <2>3 DEF c, d
<1>3. Same(a, GtcPrintStats(N, p, FALSE), GtcPrintStats(N, q, FALSE))
  BY SamePrinting
<1>4. ASSUME NEW r \in Procs PROVE Main(a, r) = w(r)
  <2>1. UtsMain(a, N, r) = w(r)
    BY Zenon DEF UtsMain, LdbalScioto
  <2> HIDE DEF w
  <2> QED BY <2>1 DEF Main
<1> HIDE DEF K, C, D, R, s
<1>5. Same(a, u(p), u(q))
  BY <1>1, <1>2, <1>3, CallsMade, SameSelf, SameSeven
<1> HIDE DEF u
<1>6. Same(a, v(p), v(q))
  BY <1>1, <1>5, CallsMade, SameSelf, SameThree
<1> HIDE DEF v
<1>7. Same(a, w(p), w(q))
  BY <1>1, <1>6, CallsMade, SameSelf, SameFive
<1>8. Main(a, p) = w(p) /\ Main(a, q) = w(q)
  BY <1>4
<1> HIDE DEF w
<1> QED BY <1>7, <1>8

LEMMA SameMad ==
  ASSUME NEW a, a.prog = "mad3d", WellFormed(a), NEW p \in Procs, NEW q \in Procs
  PROVE  Same(a, Main(a, p), Main(a, q))
<1> DEFINE K == <<Class("refine_task_wrapper")>>  T == <<Step("create_tree"), Barrier>>
           x == Refine(TRUE, <<>>, RootBox(a))  y == Step("evaluate")
           s(r) == IF r = 0 THEN <<x>> ELSE <<>>
           e(r) == IF r = 0 /\ a.test_eval THEN <<y>> ELSE <<>>
           u(r) == InitFunction(a, r)
           v(r) == ((((GtcInit \o GtcCreate(CfgInit)) \o K) \o u(r)) \o e(r))
           w(r) == (((v(r) \o GtcPrintStats(N, r, FALSE)) \o <<Barrier>>) \o GtcDestroy) \o GtcFini
<1>1. K \in Seq(Steps(a)) /\ T \in Seq(Steps(a)) /\ <<Barrier>> \in Seq(Steps(a))
  <2>1. "refine_task_wrapper" \in FcnNames
    BY DEF FcnNames
  <2> QED BY <2>1, PiecesMade
<1>2. Same(a, s(p), s(q))
  <2> DEFINE c == p = 0  d == q = 0
  <2>1. x \in Steps(a) /\ x.op \notin CollectiveOps
    <3>1. RootBox(a) \in BoxSet(a) /\ <<>> \in Seq(Nat)
      BY DEF RootBox, Box, BoxSet
    <3> QED BY <3>1 DEF Refine, Steps, WorkSteps, CollectiveOps
  <2>2. c \in BOOLEAN /\ d \in BOOLEAN
    OBVIOUS
  <2> HIDE DEF x, c, d
  <2>3. Same(a, IF c THEN <<x>> ELSE <<>>, IF d THEN <<x>> ELSE <<>>)
    BY <2>1, <2>2, SameOne
  <2> QED BY <2>3 DEF c, d
<1>3. Same(a, e(p), e(q))
  <2> DEFINE c == p = 0 /\ a.test_eval  d == q = 0 /\ a.test_eval
  <2>1. y \in Steps(a) /\ y.op \notin CollectiveOps /\ c \in BOOLEAN /\ d \in BOOLEAN
    BY DEF Step, Steps, PlainSteps, CollectiveOps
  <2> HIDE DEF y, c, d
  <2>2. Same(a, IF c THEN <<y>> ELSE <<>>, IF d THEN <<y>> ELSE <<>>)
    BY <2>1, SameOne
  <2> QED BY <2>2 DEF c, d
<1>4. Same(a, GtcPrintStats(N, p, FALSE), GtcPrintStats(N, q, FALSE))
  BY SamePrinting
<1>5. ASSUME NEW r \in Procs PROVE Main(a, r) = w(r)
  <2>1. MadMain(a, N, r) = w(r)
    BY Zenon DEF MadMain
  <2> HIDE DEF w
  <2> QED BY <2>1 DEF Main
<1>6. ASSUME NEW r \in Procs PROVE u(r) = ((T \o s(r)) \o <<Barrier>>) \o GtcProcess
  BY Zenon DEF InitFunction
<1> HIDE DEF K, T, s, e, u
<1>7. Same(a, (T \o s(p)) \o <<Barrier>>, (T \o s(q)) \o <<Barrier>>)
  BY <1>1, <1>2, SameSelf, SameThree
<1>8. Same(a, ((T \o s(p)) \o <<Barrier>>) \o GtcProcess, ((T \o s(q)) \o <<Barrier>>) \o GtcProcess)
  BY <1>7, CallsMade, SameSelf, SameCat
<1>9. Same(a, u(p), u(q))
  <2>1. u(p) = ((T \o s(p)) \o <<Barrier>>) \o GtcProcess /\ u(q) = ((T \o s(q)) \o <<Barrier>>) \o GtcProcess
    BY <1>6
  <2> QED BY <1>8, <2>1, Zenon
<1>10. Same(a, v(p), v(q))
  BY <1>1, <1>3, <1>9, CallsMade, SameSelf, SameFive
<1> HIDE DEF v
<1>11. Same(a, w(p), w(q))
  BY <1>1, <1>4, <1>10, CallsMade, SameSelf, SameFive
<1>12. Main(a, p) = w(p) /\ Main(a, q) = w(q)
  BY <1>5
<1> HIDE DEF w
<1> QED BY <1>11, <1>12

LEMMA SameTasks ==
  ASSUME NEW a, a.prog = "tasks", WellFormed(a), NEW p \in Procs, NEW q \in Procs
  PROVE  Same(a, Main(a, p), Main(a, q))
<1> DEFINE K == <<Class("task_fcn")>>  R == <<Reduce("sum", <<"sleep_time">>)>>
           s(r) == IF r = 0 THEN TasksSeed(a) ELSE <<>>
           u(r) == (((GtcCreate(CfgInit) \o K) \o s(r)) \o GtcProcess) \o <<Barrier>>
           w(r) == (((u(r) \o GtcPrintStats(N, r, TRUE)) \o <<Barrier>>) \o R) \o GtcDestroy
<1>1. K \in Seq(Steps(a)) /\ R \in Seq(Steps(a)) /\ <<Barrier>> \in Seq(Steps(a))
  <2>1. "task_fcn" \in FcnNames /\ <<"sleep_time">> \in ReduceVars
    BY DEF FcnNames, ReduceVars
  <2> QED BY <2>1, PiecesMade
<1>2. Same(a, s(p), s(q))
  <2> DEFINE c == p = 0  d == q = 0
  <2>1. TasksSeed(a) \in WorkCalls(a, p, FALSE) /\ c \in BOOLEAN /\ d \in BOOLEAN
    BY TasksCalls
  <2> HIDE DEF c, d
  <2>3. Same(a, IF c THEN TasksSeed(a) ELSE <<>>, IF d THEN TasksSeed(a) ELSE <<>>)
    BY <2>1, SameWork
  <2> QED BY <2>3 DEF c, d
<1>3. Same(a, GtcPrintStats(N, p, TRUE), GtcPrintStats(N, q, TRUE))
  BY SamePrinting
<1>4. ASSUME NEW r \in Procs PROVE Main(a, r) = w(r)
  <2>1. TasksMain(a, N, r) = w(r)
    BY Zenon DEF TasksMain
  <2> HIDE DEF w
  <2> QED BY <2>1 DEF Main
<1> HIDE DEF K, R, s
<1>5. Same(a, u(p), u(q))
  BY <1>1, <1>2, CallsMade, SameSelf, SameFive
<1> HIDE DEF u
<1>6. Same(a, w(p), w(q))
  BY <1>1, <1>3, <1>5, CallsMade, SameSelf, SameFive
<1>7. Main(a, p) = w(p) /\ Main(a, q) = w(q)
  BY <1>4
<1> HIDE DEF w
<1> QED BY <1>6, <1>7

LEMMA MainsSame ==
  ASSUME NEW a, WellFormed(a), NEW p \in Procs, NEW q \in Procs
  PROVE  Same(a, Main(a, p), Main(a, q)) /\ Same(a, Full(a, p), Full(a, q))
<1>1. Same(a, Main(a, p), Main(a, q))
  <2>1. a.prog \in {"bpc", "uts", "mad3d", "tasks"}
    BY DEF WellFormed
  <2> QED BY <2>1, SameBpc, SameUts, SameMad, SameTasks
<1>2. Same(a, Main(a, p) \o GtcFini, Main(a, q) \o GtcFini)
  BY <1>1, CallsMade, SameSelf, SameCat
<1>3. CASE a.prog = "tasks"
  <2>1. Full(a, p) = Main(a, p) \o GtcFini /\ Full(a, q) = Main(a, q) \o GtcFini
    BY <1>3, Zenon DEF Full
  <2> QED BY <1>1, <1>2, <2>1, Zenon
<1>4. CASE a.prog # "tasks"
  <2>1. Full(a, p) = Main(a, p) /\ Full(a, q) = Main(a, q)
    BY <1>4, Zenon DEF Full
  <2> QED BY <1>1, <2>1, Zenon
<1> QED BY <1>3, <1>4
=============================================================================
