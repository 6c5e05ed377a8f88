-------------------------- MODULE TerminationProofs --------------------------
(***************************************************************************)
(* Termination detection is safe for every number of processes when a token*)
(* and the vote that announces it arrive together (SignalComms).           *)
(***************************************************************************)
EXTENDS Termination, Lemmas, FiniteSetTheorems

-----------------------------------------------------------------------------
(***************************************************************************)
(* Sums over the processes.                                                *)
(***************************************************************************)
LEMMA ProcsBelow == N \in Nat /\ Procs = Below(N) /\ \A f : Total(f) = SumTo(N, f)
BY NAssumption DEF Procs, Below, Total

LEMMA TotalType ==
  ASSUME NEW f \in [Procs -> Nat]
  PROVE  Total(f) \in Nat
BY ProcsBelow, SumType

\* A change of one summand changes the sum by as much.
LEMMA TotalUpdate ==
  ASSUME NEW f \in [Procs -> Nat], NEW g \in [Procs -> Nat], NEW p \in Procs,
         \A q \in Procs : q # p => g[q] = f[q]
  PROVE  Total(g) + f[p] = Total(f) + g[p]
BY ProcsBelow, SumUpdate

LEMMA TotalZero ==
  ASSUME NEW f \in [Procs -> Nat], \A p \in Procs : f[p] = 0
  PROVE  Total(f) = 0
BY ProcsBelow, SumZero

LEMMA TotalSingle ==
  ASSUME NEW f \in [Procs -> Nat], NEW p \in Procs,
         \A q \in Procs : q # p => f[q] = 0
  PROVE  Total(f) = f[p]
BY ProcsBelow, SumSingle

LEMMA TotalMember ==
  ASSUME NEW f \in [Procs -> Nat], NEW p \in Procs
  PROVE  f[p] <= Total(f)
BY ProcsBelow, SumMember

\* The tree: children have larger numbers, and every process but the root is the
\* child of its parent, on its side.
LEMMA TreeFacts ==
  ASSUME NEW c \in Procs \ {Root}
  PROVE  /\ Parent(c) \in Procs /\ Parent(c) < c /\ c \in Children(Parent(c))
         /\ Side(c) \in {"left", "right"}
         /\ c = IF Side(c) = "left" THEN 2 * Parent(c) + 1 ELSE 2 * Parent(c) + 2
BY NAssumption DEF Procs, Root, Parent, Children, Side

LEMMA ChildFacts ==
  ASSUME NEW p \in Procs, NEW c \in Children(p)
  PROVE  c \in Procs \ {Root} /\ Parent(c) = p /\ c # p
BY NAssumption DEF Procs, Root, Parent, Children

\* What the left and the right child of p hold, nothing if there is none.
At(f, c) == IF c < N THEN f[c] ELSE 0

\* p collects what its children hold: the sum stays.
LEMMA TotalGather ==
  ASSUME NEW f \in [Procs -> Nat], NEW g \in [Procs -> Nat], NEW p \in Procs,
         g[p] = f[p] + At(f, 2*p + 1) + At(f, 2*p + 2),
         \A c \in Children(p) : g[c] = 0,
         \A q \in Procs \ Children(p) : q # p => g[q] = f[q]
  PROVE  Total(g) = Total(f)
<1> DEFINE l == 2*p + 1
           r == 2*p + 2
           f1 == [q \in Procs |-> IF q = l THEN 0 ELSE f[q]]
           f2 == [q \in Procs |-> IF q = r THEN 0 ELSE f1[q]]
<1>1. f1 \in [Procs -> Nat] /\ f2 \in [Procs -> Nat]
  OBVIOUS
<1>2. Total(f1) + At(f, l) = Total(f)
  <2>1. CASE l \in Procs
    <3>1. f1[l] = 0 /\ \A q \in Procs : q # l => f1[q] = f[q]
      BY <2>1
    <3>2. At(f, l) = f[l]
      BY <2>1, NAssumption DEF Procs, At
    <3> HIDE DEF f1, l
    <3>3. Total(f1) + f[l] = Total(f) + f1[l]
      BY <2>1, <3>1, <1>1, TotalUpdate
    <3> QED BY <3>1, <3>2, <3>3, <1>1, TotalType
  <2>2. CASE l \notin Procs
    <3>1. f1 = f
      BY <2>2
    <3>2. At(f, l) = 0
      BY <2>2, NAssumption DEF Procs, At
    <3> HIDE DEF f1, l
    <3> QED BY <3>1, <3>2, TotalType
  <2> QED BY <2>1, <2>2
<1>3. Total(f2) + At(f, r) = Total(f1)
  <2>1. CASE r \in Procs
    <3>1. f2[r] = 0 /\ \A q \in Procs : q # r => f2[q] = f1[q]
      BY <2>1
    <3>2. At(f, r) = f[r] /\ f1[r] = f[r]
      BY <2>1, NAssumption DEF Procs, At
    <3> HIDE DEF f1, f2, r
    <3>3. Total(f2) + f1[r] = Total(f1) + f2[r]
      BY <2>1, <3>1, <1>1, TotalUpdate
    <3> QED BY <3>1, <3>2, <3>3, <1>1, TotalType
  <2>2. CASE r \notin Procs
    <3>1. f2 = f1
      BY <2>2
    <3>2. At(f, r) = 0
      BY <2>2, NAssumption DEF Procs, At
    <3> HIDE DEF f1, f2, r
    <3> QED BY <1>1, <3>1, <3>2, TotalType
  <2> QED BY <2>1, <2>2
<1>4. \A q \in Procs : q # p => g[q] = f2[q]
  BY NAssumption DEF Children, Procs
<1>5. f2[p] = f[p]
  BY DEF Procs
<1>6. At(f, l) \in Nat /\ At(f, r) \in Nat
  BY NAssumption DEF At, Procs
<1>7. g[p] = f[p] + At(f, l) + At(f, r)
  OBVIOUS
<1> HIDE DEF f1, f2, l, r
<1>8. Total(g) + f2[p] = Total(f2) + g[p]
  BY <1>1, <1>4, TotalUpdate
<1>9. /\ Total(g) \in Nat /\ Total(f) \in Nat /\ Total(f1) \in Nat /\ Total(f2) \in Nat
      /\ f[p] \in Nat /\ g[p] \in Nat
  BY <1>1, TotalType
<1> QED BY <1>2, <1>3, <1>5, <1>6, <1>7, <1>8, <1>9

-----------------------------------------------------------------------------
(***************************************************************************)
(* The inductive invariant.  It speaks of V, the processes that have voted *)
(* since the root last decided, and of F and G, the counters in the votes  *)
(* their parents have not used yet.                                        *)
(***************************************************************************)
Msgs(q, s) == {m \in wire : m.to = q /\ m.slot = s}

\* The slot s of q: nothing sent, t sent by p and not acknowledged, or nothing
\* under way and the vote, if any, never to be acknowledged.
Blank(q, s) == votes[q][s] = 0 /\ Msgs(q, s) = {}
Sent(p, q, s, t) ==
  \/ votes[q][s] = 1 /\ Msgs(q, s) = {} /\ token[q][s] = t
  \/ votes[q][s] = 0 /\ Msgs(q, s) = {Message(p, q, s, "both", t)}
Spent(q, s) ==
  /\ votes[q][s] = 0 \/ (votes[q][s] = 1 /\ terminated[q])
  /\ Msgs(q, s) = {}

(***************************************************************************)
(* The edge between c and its parent p goes round through these states.    *)
(***************************************************************************)
\* c collects votes.
Idle(c, p, V) ==
  /\ dir[c] = "UP" /\ ~terminated[c] /\ c \notin V
  /\ dir[p] = "UP" /\ ~terminated[p] /\ p \notin V
  /\ Blank(p, Side(c)) /\ Blank(c, "parent")

\* c has voted, p has not used it.
Voted(c, p, V, F, G) ==
  /\ dir[c] = "DOWN" /\ ~terminated[c] /\ c \in V
  /\ dir[p] = "UP" /\ ~terminated[p] /\ p \notin V
  /\ Sent(c, p, Side(c), [over |-> FALSE, spawned |-> F[c], completed |-> G[c]])
  /\ Blank(c, "parent")

\* p has passed the vote on, or the root has decided and p has not heard it.
Waiting(c, p, V) ==
  /\ dir[c] = "DOWN" /\ ~terminated[c] /\ (c \in V <=> p \in V)
  /\ dir[p] = "DOWN" /\ ~terminated[p] /\ p # Root
  /\ Blank(p, Side(c)) /\ Blank(c, "parent")

\* p has passed the verdict to c.
Told(c, p, V) ==
  /\ dir[c] = "DOWN" /\ ~terminated[c] /\ c \notin V
  /\ dir[p] = "UP" /\ p \notin V
  /\ Spent(p, Side(c))
  /\ \E t \in Tokens : t.over = terminated[p] /\ Sent(p, c, "parent", t)

\* c has left.
Gone(c, p, V) ==
  /\ terminated[c] /\ c \notin V /\ (Children(c) # {} => dir[c] = "UP")
  /\ terminated[p] /\ dir[p] = "UP" /\ p \notin V
  /\ Spent(p, Side(c)) /\ Spent(c, "parent")

Edge(c, V, F, G) ==
  \/ Voted(c, Parent(c), V, F, G)
  \/ /\ F[c] = 0 /\ G[c] = 0
     /\ \/ Idle(c, Parent(c), V) \/ Waiting(c, Parent(c), V)
        \/ Told(c, Parent(c), V) \/ Gone(c, Parent(c), V)

\* Slots no edge ends in.
Spare(q, s) ==
  IF s = "parent" THEN q = Root
  ELSE \A c \in Procs \ {Root} : ~(Parent(c) = q /\ Side(c) = s)

TreeInv(V, F, G) ==
  /\ V \subseteq Procs \ {Root} /\ F \in [Procs -> Nat] /\ G \in [Procs -> Nat]
  /\ \A c \in Procs \ {Root} : Edge(c, V, F, G)
  /\ F[Root] = 0 /\ G[Root] = 0 /\ dir[Root] = "UP"
  /\ \A q \in Procs, s \in Slots : Spare(q, s) => Blank(q, s) /\ token[q][s] = NoToken

\* What the wave will count at least: the votes on their way, and the counters of
\* those that have not voted.
Counted(V, F, f) == [p \in Procs |-> F[p] + IF p \in V THEN 0 ELSE f[p]]

\* As long as there is work, this wave counts more tasks spawned than the wave
\* before counted completions; so the two cannot agree.
WaveInv(V, F, G) ==
  /\ Total(Counted(V, F, spawned)) <= Total(spawned)
  /\ Total(Counted(V, G, completed)) <= Total(completed)
  /\ WorkLeft => last.completed < Total(Counted(V, F, spawned))

Busy == [p \in Procs |-> IF running[p] THEN 1 ELSE 0]

\* Every task is queued, running or completed.
WorkInv ==
  /\ Total(spawned) = Total(completed) + Total(tasks) + Total(Busy)
  /\ Total(spawned) <= MaxTasks

Types ==
  /\ tasks \in [Procs -> Nat] /\ running \in [Procs -> BOOLEAN]
  /\ spawned \in [Procs -> Nat] /\ completed \in [Procs -> Nat]
  /\ dir \in [Procs -> {"UP", "DOWN"}] /\ terminated \in [Procs -> BOOLEAN]
  /\ token \in [Procs -> [Slots -> Tokens]]
  /\ votes \in [Procs -> [Slots -> Nat]]
  /\ last \in [spawned : 0..MaxTasks, completed : 0..MaxTasks]
  /\ wire \subseteq Messages

IInv(V, F, G) ==
  Types /\ WorkInv /\ DetectsOnlyTermination /\ TreeInv(V, F, G) /\ WaveInv(V, F, G)

Inv == \E V, F, G : IInv(V, F, G)

-----------------------------------------------------------------------------
(***************************************************************************)
(* What it gives.                                                          *)
(***************************************************************************)
LEMMA WorkBounds ==
  ASSUME Types, WorkInv
  PROVE  /\ Total(spawned) \in Nat /\ Total(completed) \in Nat
         /\ Total(completed) <= Total(spawned)
         /\ WorkLeft => Total(completed) < Total(spawned)
         /\ \A p \in Procs : /\ tasks[p] <= MaxTasks /\ spawned[p] <= MaxTasks
                             /\ completed[p] <= MaxTasks
<1>1. /\ tasks \in [Procs -> Nat] /\ spawned \in [Procs -> Nat]
      /\ completed \in [Procs -> Nat] /\ Busy \in [Procs -> Nat]
  BY DEF Types, Busy
<1>2. /\ Total(tasks) \in Nat /\ Total(spawned) \in Nat
      /\ Total(completed) \in Nat /\ Total(Busy) \in Nat
  BY <1>1, TotalType
<1>3. \A p \in Procs : /\ tasks[p] <= Total(tasks) /\ spawned[p] <= Total(spawned)
                       /\ completed[p] <= Total(completed) /\ Busy[p] <= Total(Busy)
  BY <1>1, TotalMember
<1>4. ASSUME NEW p \in Procs, tasks[p] > 0 \/ running[p]
      PROVE  tasks[p] > 0 \/ Busy[p] > 0
  BY <1>4 DEF Busy
<1>5. Total(spawned) = Total(completed) + Total(tasks) + Total(Busy)
      /\ Total(spawned) <= MaxTasks
  BY DEF WorkInv
<1>6. WorkLeft => Total(tasks) > 0 \/ Total(Busy) > 0
  <2> SUFFICES ASSUME NEW p \in Procs, tasks[p] > 0 \/ running[p]
               PROVE  Total(tasks) > 0 \/ Total(Busy) > 0
    BY DEF WorkLeft
  <2>1. tasks[p] \in Nat /\ Busy[p] \in Nat
    BY <1>1
  <2> QED BY <2>1, <1>2, <1>3, <1>4
<1>7. MaxTasks \in Nat
  BY BuildAssumption
<1>8. \A p \in Procs : tasks[p] \in Nat /\ spawned[p] \in Nat /\ completed[p] \in Nat
  BY <1>1
<1> QED BY <1>2, <1>3, <1>5, <1>6, <1>7, <1>8

LEMMA InvType ==
  ASSUME NEW V, NEW F, NEW G, IInv(V, F, G)
  PROVE  TypeOK
<1>1. Types /\ WorkInv
  BY DEF IInv
<1>2. \A p \in Procs : /\ tasks[p] <= MaxTasks /\ spawned[p] <= MaxTasks
                       /\ completed[p] <= MaxTasks
  BY <1>1, WorkBounds
<1>3. /\ tasks \in [Procs -> 0..MaxTasks] /\ spawned \in [Procs -> 0..MaxTasks]
      /\ completed \in [Procs -> 0..MaxTasks]
  BY <1>1, <1>2, BuildAssumption DEF Types
<1> QED BY <1>1, <1>3 DEF Types, TypeOK

\* A slot is spare, or it is the upper or the lower end of an edge.
LEMMA SlotCases ==
  ASSUME NEW q \in Procs, NEW s \in Slots
  PROVE  \/ Spare(q, s)
         \/ q \in Procs \ {Root} /\ s = "parent"
         \/ \E c \in Procs \ {Root} : Parent(c) = q /\ Side(c) = s
BY DEF Spare, Slots

LEMMA InvOneVote ==
  ASSUME NEW V, NEW F, NEW G, IInv(V, F, G)
  PROVE  OneVotePerEdge
<1> SUFFICES ASSUME NEW q \in Procs, NEW s \in Slots
             PROVE  votes[q][s] + Cardinality({m \in wire : /\ m.to = q /\ m.slot = s
                                                            /\ m.part # "token"}) <= 1
  BY DEF OneVotePerEdge
<1> DEFINE sent == {m \in wire : m.to = q /\ m.slot = s /\ m.part # "token"}
<1>1. sent \subseteq Msgs(q, s)
  BY DEF Msgs
<1>2. ASSUME votes[q][s] \in {0, 1}, Msgs(q, s) = {}
      PROVE  votes[q][s] + Cardinality(sent) <= 1
  <2>1. sent = {}
    BY <1>1, <1>2
  <2>2. Cardinality(sent) = 0
    BY <2>1, FS_EmptySet
  <2> QED BY <1>2, <2>2
<1>3. ASSUME NEW x, votes[q][s] = 0, Msgs(q, s) = {x}
      PROVE  votes[q][s] + Cardinality(sent) <= 1
  <2>1. sent = {} \/ sent = {x}
    BY <1>1, <1>3
  <2>2. Cardinality(sent) \in {0, 1}
    BY <2>1, FS_EmptySet, FS_Singleton
  <2> QED BY <1>3, <2>2
<1> SUFFICES votes[q][s] + Cardinality(sent) <= 1
  OBVIOUS
<1> HIDE DEF sent
<1>4. CASE Spare(q, s)
  BY <1>4, <1>2 DEF IInv, TreeInv, Blank
<1>5. ASSUME NEW p, NEW t, Sent(p, q, s, t) PROVE votes[q][s] + Cardinality(sent) <= 1
  BY <1>5, <1>2, <1>3 DEF Sent
<1>6. CASE Spent(q, s) \/ Blank(q, s)
  BY <1>6, <1>2 DEF Spent, Blank
<1>7. CASE q # Root /\ s = "parent"
  <2>1. Edge(q, V, F, G)
    BY <1>7 DEF IInv, TreeInv
  <2>2. (\E p, t : Sent(p, q, s, t)) \/ Spent(q, s) \/ Blank(q, s)
    BY <1>7, <2>1 DEF Edge, Idle, Voted, Waiting, Told, Gone
  <2> QED BY <2>2, <1>5, <1>6
<1>8. ASSUME NEW c \in Procs \ {Root}, Parent(c) = q, Side(c) = s
      PROVE votes[q][s] + Cardinality(sent) <= 1
  <2>1. Edge(c, V, F, G)
    BY DEF IInv, TreeInv
  <2>2. (\E p, t : Sent(p, q, s, t)) \/ Spent(q, s) \/ Blank(q, s)
    BY <1>8, <2>1 DEF Edge, Idle, Voted, Waiting, Told, Gone
  <2> QED BY <2>2, <1>5, <1>6
<1> QED BY <1>4, <1>7, <1>8, SlotCases

\* An edge on whose ends nothing changes keeps its state.
LEMMA EdgeFrame ==
  ASSUME NEW V, NEW F, NEW G, NEW W, NEW D, NEW H, NEW c, Edge(c, V, F, G),
         \A q \in {c, Parent(c)} : /\ dir'[q] = dir[q] /\ terminated'[q] = terminated[q]
                                   /\ q \in W <=> q \in V,
         votes'[Parent(c)][Side(c)] = votes[Parent(c)][Side(c)],
         votes'[c]["parent"] = votes[c]["parent"],
         token'[Parent(c)][Side(c)] = token[Parent(c)][Side(c)],
         token'[c]["parent"] = token[c]["parent"],
         Msgs(Parent(c), Side(c))' = Msgs(Parent(c), Side(c)),
         Msgs(c, "parent")' = Msgs(c, "parent"),
         D[c] = F[c], H[c] = G[c]
  PROVE  Edge(c, W, D, H)'
BY DEF Edge, Idle, Voted, Waiting, Told, Gone, Blank, Sent, Spent

\* Every process has voted when the root has both votes.
LEMMA AllVoted ==
  ASSUME NEW V, NEW F, NEW G, TreeInv(V, F, G), ~terminated[Root], HaveVotes(Root)
  PROVE  V = Procs \ {Root}
<1> DEFINE B == Procs \ ({Root} \cup V)
<1> SUFFICES ASSUME B # {} PROVE FALSE
  BY DEF TreeInv
<1>1. PICK c \in B : \A d \in B : c <= d
  <2>1. B \in SUBSET Nat
    BY DEF Procs
  <2> QED BY <2>1, LeastElement
<1>2. /\ Parent(c) \in Procs /\ Parent(c) < c /\ c \in Children(Parent(c))
      /\ c \in Procs \ {Root}
  BY TreeFacts
<1>3. Edge(c, V, F, G) /\ c \notin V
  BY <1>2 DEF TreeInv
<1>4. CASE Parent(c) = Root
  <2>1. votes[Root][Side(c)] > 0
    BY <1>2, <1>4 DEF HaveVotes
  <2> QED BY <1>3, <1>4, <2>1
        DEF Edge, Idle, Voted, Waiting, Told, Gone, Blank, Spent
<1>5. CASE Parent(c) # Root
  <2>1. Parent(c) \notin B
    <3>1. Parent(c) \in Nat /\ c \in Nat
      BY <1>2 DEF Procs
    <3> QED BY <1>1, <1>2, <3>1
  <2>2. Parent(c) \in V
    BY <1>2, <1>5, <2>1
  <2> QED BY <1>3, <2>2 DEF Edge, Idle, Voted, Waiting, Told, Gone
<1> QED BY <1>4, <1>5

\* What a process with all votes holds for each child is what the child voted.
LEMMA VotesHeld ==
  ASSUME NEW V, NEW F, NEW G, TreeInv(V, F, G), Types,
         NEW p \in Procs, HaveVotes(p), ~terminated[p]
  PROVE  /\ \A c \in Children(p) : Voted(c, p, V, F, G) /\ Msgs(p, Side(c)) = {}
         /\ Spawned(p) = spawned[p] + At(F, 2*p + 1) + At(F, 2*p + 2)
         /\ Completed(p) = completed[p] + At(G, 2*p + 1) + At(G, 2*p + 2)
<1>1. ASSUME NEW c \in Children(p)
      PROVE  /\ Voted(c, p, V, F, G) /\ Msgs(p, Side(c)) = {}
             /\ token[p][Side(c)].spawned = F[c] /\ token[p][Side(c)].completed = G[c]
  <2>1. c \in Procs \ {Root} /\ Parent(c) = p /\ Edge(c, V, F, G)
    BY ChildFacts DEF TreeInv
  <2>2. votes[p][Side(c)] > 0
    BY DEF HaveVotes
  <2>3. Voted(c, p, V, F, G)
    BY <2>1, <2>2 DEF Edge, Idle, Waiting, Told, Gone, Blank, Spent
  <2> QED BY <2>2, <2>3 DEF Voted, Sent
<1>2. ASSUME NEW s \in {"left", "right"}, NEW d,
             d = IF s = "left" THEN 2*p + 1 ELSE 2*p + 2
      PROVE  token[p][s].spawned = At(F, d) /\ token[p][s].completed = At(G, d)
  <2>1. CASE d < N
    <3>1. d \in Children(p) /\ Side(d) = s
      BY <1>2, <2>1 DEF Children, Side, Procs
    <3> QED BY <3>1, <1>1, <2>1 DEF At
  <2>2. CASE ~(d < N)
    <3>1. Spare(p, s)
      <4> SUFFICES ASSUME NEW c \in Procs \ {Root}, Parent(c) = p, Side(c) = s PROVE FALSE
        BY <1>2 DEF Spare
      <4>1. c = d
        BY <1>2, TreeFacts
      <4> QED BY <4>1, <2>2, NAssumption DEF Procs
    <3>2. token[p][s] = NoToken
      BY <3>1, <1>2 DEF TreeInv, Slots
    <3> QED BY <3>2, <2>2 DEF At, NoToken
  <2> QED BY <2>1, <2>2
<1>3. /\ token[p]["left"].spawned = At(F, 2*p + 1)
      /\ token[p]["left"].completed = At(G, 2*p + 1)
      /\ token[p]["right"].spawned = At(F, 2*p + 2)
      /\ token[p]["right"].completed = At(G, 2*p + 2)
  BY <1>2
<1> QED BY <1>1, <1>3 DEF Spawned, Completed

-----------------------------------------------------------------------------
(***************************************************************************)
(* The beginning of a phase.                                               *)
(***************************************************************************)
LEMMA CountedType ==
  ASSUME NEW V, NEW F \in [Procs -> Nat], NEW f \in [Procs -> Nat]
  PROVE  Counted(V, F, f) \in [Procs -> Nat]
BY DEF Counted

\* Before anyone votes the wave counts everything.
LEMMA CountedFresh ==
  ASSUME NEW f \in [Procs -> Nat]
  PROVE  Counted({}, [p \in Procs |-> 0], f) = f
<1>1. \A p \in Procs : Counted({}, [q \in Procs |-> 0], f)[p] = f[p]
  BY DEF Counted
<1>2. Counted({}, [p \in Procs |-> 0], f) \in [Procs -> Nat]
  BY DEF Counted
<1> QED BY <1>1, <1>2

LEMMA InitInv == Init => Inv
<1> SUFFICES ASSUME Init PROVE Inv
  OBVIOUS
<1> DEFINE Z == [p \in Procs |-> 0]
<1>1. Z \in [Procs -> Nat] /\ \A p \in Procs : Z[p] = 0
  OBVIOUS
<1>2. tasks \in [Procs -> Nat] /\ Total(tasks) <= MaxTasks /\ spawned = tasks
  BY BuildAssumption DEF Init, Seeds
<1>3. completed = Z /\ Busy = Z
  BY DEF Init, All, Busy
<1>4. Types
  <2>1. NoToken \in Tokens
    BY BuildAssumption DEF NoToken, Tokens
  <2>2. token \in [Procs -> [Slots -> Tokens]]
    BY <2>1 DEF Init, All, NoTokens
  <2>3. votes \in [Procs -> [Slots -> Nat]]
    BY DEF Init, All, NoVotes
  <2>4. last \in [spawned : 0..MaxTasks, completed : 0..MaxTasks]
    BY BuildAssumption DEF Init, NoWaveYet
  <2>5. completed \in [Procs -> Nat]
    BY <1>3
  <2> QED BY <1>2, <2>2, <2>3, <2>4, <2>5 DEF Init, All, Types
<1> HIDE DEF Z
<1>5. Total(Z) = 0
  BY <1>1, TotalZero
<1>6. WorkInv
  BY <1>2, <1>3, <1>5, TotalType DEF WorkInv
<1>7. ASSUME NEW q \in Procs, NEW s \in Slots PROVE Blank(q, s) /\ token[q][s] = NoToken
  BY DEF Init, All, NoVotes, NoTokens, Blank, Msgs
<1>8. TreeInv({}, Z, Z)
  <2>1. Root \in Procs
    BY NAssumption DEF Root, Procs
  <2>2. ASSUME NEW c \in Procs \ {Root} PROVE Edge(c, {}, Z, Z)
    <3>1. Parent(c) \in Procs /\ Side(c) \in Slots /\ "parent" \in Slots
      BY TreeFacts DEF Slots
    <3>2. Idle(c, Parent(c), {})
      BY <3>1, <1>7 DEF Idle, Init, All
    <3> QED BY <1>1, <3>2 DEF Edge
  <2>3. dir[Root] = "UP"
    BY <2>1 DEF Init, All
  <2> QED BY <1>1, <1>7, <2>1, <2>2, <2>3 DEF TreeInv
<1>9. WaveInv({}, Z, Z)
  <2>1. Counted({}, Z, spawned) = spawned /\ Counted({}, Z, completed) = completed
    BY <1>1, <1>2, <1>3, CountedFresh DEF Z
  <2>2. last.completed = 0
    BY DEF Init, NoWaveYet
  <2>3. WorkLeft => 0 < Total(spawned)
    BY <1>3, <1>4, <1>5, <1>6, WorkBounds
  <2>4. Total(spawned) \in Nat /\ Total(completed) \in Nat
    BY <1>4, <1>6, WorkBounds
  <2> QED BY <2>1, <2>2, <2>3, <2>4 DEF WaveInv
<1>10. DetectsOnlyTermination
  BY DEF Init, All, DetectsOnlyTermination
<1> QED BY <1>4, <1>6, <1>8, <1>9, <1>10 DEF Inv, IInv

\* When everybody has left and nobody waits for the network, it is empty.
LEMMA ResetFresh ==
  ASSUME Types, Reset
  PROVE  Init'
<1>1. wire = {}
  BY DEF Reset, Types, Messages, Quiet
<1> QED BY <1>1 DEF Reset, Init

LEMMA ResetInv ==
  ASSUME Types, Reset
  PROVE  Inv'
<1>1. Init' => Inv'
  BY InitInv, PTL
<1> QED BY <1>1, ResetFresh

-----------------------------------------------------------------------------
(***************************************************************************)
(* Steps of the scheduler.                                                 *)
(***************************************************************************)
LEMMA TreeFrame ==
  ASSUME NEW V, NEW F, NEW G, TreeInv(V, F, G), UNCHANGED <<td, wire>>
  PROVE  TreeInv(V, F, G)'
<1>1. dir' = dir /\ terminated' = terminated /\ token' = token /\ votes' = votes
      /\ wire' = wire
  BY DEF td
<1>2. \A q, s : Msgs(q, s)' = Msgs(q, s)
  BY <1>1 DEF Msgs
<1>3. \A c \in Procs \ {Root} : Edge(c, V, F, G)'
  BY <1>1, <1>2, EdgeFrame DEF TreeInv
<1> QED BY <1>1, <1>2, <1>3 DEF TreeInv, Blank

\* A counter goes up by one: so does its sum, and what the wave counts of it does
\* not go down, nor up by more.
LEMMA CountOne ==
  ASSUME NEW V, NEW F \in [Procs -> Nat], NEW f \in [Procs -> Nat],
         NEW p \in Procs, NEW g \in [Procs -> Nat],
         g[p] = f[p] + 1, \A q \in Procs : q # p => g[q] = f[q]
  PROVE  /\ Total(g) = Total(f) + 1
         /\ Total(Counted(V, F, f)) <= Total(Counted(V, F, g))
         /\ Total(Counted(V, F, g)) <= Total(Counted(V, F, f)) + 1
         /\ Total(Counted(V, F, f)) \in Nat /\ Total(Counted(V, F, g)) \in Nat
<1>1. g[p] = f[p] + 1 /\ \A q \in Procs : q # p => g[q] = f[q]
  OBVIOUS
<1>2. Total(g) + f[p] = Total(f) + g[p]
  BY <1>1, TotalUpdate
<1>3. Counted(V, F, f) \in [Procs -> Nat] /\ Counted(V, F, g) \in [Procs -> Nat]
  BY CountedType
<1>4. \A q \in Procs : q # p => Counted(V, F, g)[q] = Counted(V, F, f)[q]
  BY <1>1 DEF Counted
<1>5. /\ Counted(V, F, f)[p] <= Counted(V, F, g)[p]
      /\ Counted(V, F, g)[p] <= Counted(V, F, f)[p] + 1
      /\ Counted(V, F, f)[p] \in Nat /\ Counted(V, F, g)[p] \in Nat
  BY <1>1 DEF Counted
<1>6. Total(Counted(V, F, g)) + Counted(V, F, f)[p]
        = Total(Counted(V, F, f)) + Counted(V, F, g)[p]
  BY <1>3, <1>4, TotalUpdate
<1>7. /\ Total(f) \in Nat /\ Total(g) \in Nat /\ f[p] \in Nat
      /\ Total(Counted(V, F, f)) \in Nat /\ Total(Counted(V, F, g)) \in Nat
  BY <1>1, <1>3, TotalType
<1> QED BY <1>1, <1>2, <1>5, <1>6, <1>7

\* What remains to be shown of a step that leaves the detection alone.
LEMMA WorkStep ==
  ASSUME NEW V, NEW F, NEW G, IInv(V, F, G), UNCHANGED <<td, wire>>,
         Types', WorkInv', WorkLeft' => WorkLeft,
         Total(Counted(V, F, spawned))' <= Total(spawned)',
         Total(Counted(V, G, completed))' <= Total(completed)',
         Total(Counted(V, F, spawned)) <= Total(Counted(V, F, spawned))',
         Total(Counted(V, F, spawned)) \in Nat, Total(Counted(V, F, spawned))' \in Nat
  PROVE  IInv(V, F, G)'
<1>1. TreeInv(V, F, G)'
  BY TreeFrame DEF IInv
<1>2. terminated' = terminated /\ last' = last
  BY DEF td
<1>3. DetectsOnlyTermination'
  BY <1>2 DEF IInv, DetectsOnlyTermination
<1>4. last.completed \in Nat
  BY DEF IInv, Types
<1>5. WaveInv(V, F, G)'
  BY <1>2, <1>4 DEF IInv, WaveInv
<1> QED BY <1>1, <1>3, <1>5 DEF IInv

LEMMA CountedNat ==
  ASSUME NEW V, NEW F, NEW G, IInv(V, F, G)
  PROVE  /\ F \in [Procs -> Nat] /\ G \in [Procs -> Nat]
         /\ Total(Counted(V, F, spawned)) \in Nat /\ Total(Counted(V, G, completed)) \in Nat
<1>1. F \in [Procs -> Nat] /\ G \in [Procs -> Nat] /\ spawned \in [Procs -> Nat]
      /\ completed \in [Procs -> Nat]
  BY DEF IInv, TreeInv, Types
<1>2. Counted(V, F, spawned) \in [Procs -> Nat] /\ Counted(V, G, completed) \in [Procs -> Nat]
  BY <1>1, CountedType
<1> QED BY <1>1, <1>2, TotalType

LEMMA GetInv ==
  ASSUME NEW V, NEW F, NEW G, IInv(V, F, G), NEW p \in Procs, Get(p)
  PROVE  IInv(V, F, G)'
<1>1. /\ tasks \in [Procs -> Nat] /\ running \in [Procs -> BOOLEAN]
      /\ tasks[p] > 0 /\ ~running[p]
      /\ tasks' = [tasks EXCEPT ![p] = tasks[p] - 1]
      /\ running' = [running EXCEPT ![p] = TRUE]
      /\ UNCHANGED <<spawned, completed, td, wire>>
  BY DEF IInv, Types, Get, Searching
<1>2. tasks' \in [Procs -> Nat] /\ tasks'[p] = tasks[p] - 1
      /\ \A q \in Procs : q # p => tasks'[q] = tasks[q]
  BY <1>1
<1>3. Types'
  BY <1>1, <1>2 DEF IInv, Types, td
<1>4. WorkInv'
  <2>1. Busy \in [Procs -> Nat] /\ Busy' \in [Procs -> Nat] /\ Busy[p] = 0 /\ Busy'[p] = 1
        /\ \A q \in Procs : q # p => Busy'[q] = Busy[q]
    BY <1>1 DEF Busy
  <2>2. Total(tasks') + tasks[p] = Total(tasks) + tasks'[p]
    BY <1>1, <1>2, TotalUpdate
  <2>3. Total(Busy') + Busy[p] = Total(Busy) + Busy'[p]
    BY <2>1, TotalUpdate
  <2>4. /\ Total(tasks) \in Nat /\ Total(tasks') \in Nat /\ Total(Busy) \in Nat
        /\ Total(Busy') \in Nat /\ tasks[p] \in Nat
    BY <1>1, <1>2, <2>1, TotalType
  <2>5. Total(spawned) = Total(completed) + Total(tasks) + Total(Busy)
        /\ Total(spawned) <= MaxTasks /\ Total(spawned) \in Nat /\ Total(completed) \in Nat
    BY WorkBounds DEF IInv, WorkInv
  <2>6. Total(tasks') = Total(tasks) - 1 /\ Total(Busy') = Total(Busy) + 1
    BY <1>2, <2>1, <2>2, <2>3, <2>4
  <2>7. Total(spawned) = Total(completed) + Total(tasks') + Total(Busy')
    BY <2>4, <2>5, <2>6
  <2> QED BY <1>1, <2>5, <2>7 DEF WorkInv
<1>5. WorkLeft' => WorkLeft
  BY <1>1, <1>2 DEF WorkLeft
<1>6. /\ Total(Counted(V, F, spawned)) <= Total(spawned)
      /\ Total(Counted(V, G, completed)) <= Total(completed)
  BY DEF IInv, WaveInv
<1>7. Total(Counted(V, F, spawned)) \in Nat
  BY CountedNat
<1> QED BY <1>1, <1>3, <1>4, <1>5, <1>6, <1>7, WorkStep

LEMMA SpawnInv ==
  ASSUME NEW V, NEW F, NEW G, IInv(V, F, G), NEW p \in Procs, Spawn(p)
  PROVE  IInv(V, F, G)'
<1>1. /\ tasks \in [Procs -> Nat] /\ spawned \in [Procs -> Nat] /\ running[p]
      /\ Total(spawned) < MaxTasks
      /\ tasks' = [tasks EXCEPT ![p] = tasks[p] + 1]
      /\ spawned' = [spawned EXCEPT ![p] = spawned[p] + 1]
      /\ UNCHANGED <<running, completed, td, wire>>
  BY DEF IInv, Types, Spawn
<1>2. F \in [Procs -> Nat] /\ Total(Counted(V, F, spawned)) \in Nat
  BY CountedNat
<1>3. tasks' \in [Procs -> Nat] /\ Total(tasks') = Total(tasks) + 1
  <2>1. tasks' \in [Procs -> Nat] /\ tasks'[p] = tasks[p] + 1
        /\ \A q \in Procs : q # p => tasks'[q] = tasks[q]
    BY <1>1
  <2>2. Total(tasks') + tasks[p] = Total(tasks) + tasks'[p]
    BY <1>1, <2>1, TotalUpdate
  <2>3. Total(tasks') \in Nat /\ Total(tasks) \in Nat /\ tasks[p] \in Nat
    BY <1>1, <2>1, TotalType
  <2> QED BY <2>1, <2>2, <2>3
<1>a. spawned' \in [Procs -> Nat] /\ spawned'[p] = spawned[p] + 1
      /\ \A q \in Procs : q # p => spawned'[q] = spawned[q]
  BY <1>1
<1>4. /\ spawned' \in [Procs -> Nat] /\ Total(spawned') = Total(spawned) + 1
      /\ Total(Counted(V, F, spawned)) <= Total(Counted(V, F, spawned'))
      /\ Total(Counted(V, F, spawned')) <= Total(Counted(V, F, spawned)) + 1
      /\ Total(Counted(V, F, spawned')) \in Nat
  <2>1. spawned \in [Procs -> Nat] /\ F \in [Procs -> Nat]
    BY <1>1, <1>2
  <2> QED BY <2>1, <1>a, CountOne
<1>5. Types'
  BY <1>1, <1>3, <1>4 DEF IInv, Types, td
<1>6. Busy' = Busy
  BY <1>1 DEF Busy
<1>7. /\ Total(spawned) = Total(completed) + Total(tasks) + Total(Busy)
      /\ Total(spawned) \in Nat /\ Total(completed) \in Nat
      /\ Total(tasks) \in Nat /\ Total(Busy) \in Nat
  <2>1. Busy \in [Procs -> Nat]
    BY DEF Busy
  <2> QED BY <1>1, <2>1, TotalType, WorkBounds DEF IInv, WorkInv
<1>8. WorkInv'
  <2>1. Total(spawned') = Total(completed) + Total(tasks') + Total(Busy)
    BY <1>3, <1>4, <1>7
  <2>2. Total(spawned') <= MaxTasks
    BY <1>1, <1>4, <1>7, BuildAssumption
  <2> QED BY <1>1, <1>6, <2>1, <2>2 DEF WorkInv
<1>9. WorkLeft
  BY <1>1 DEF WorkLeft
<1>10. /\ Total(Counted(V, F, spawned)) <= Total(spawned)
       /\ Total(Counted(V, G, completed)) <= Total(completed)
  BY DEF IInv, WaveInv
<1>11. Total(Counted(V, F, spawned')) <= Total(spawned')
  BY <1>2, <1>4, <1>7, <1>10
<1> QED BY <1>1, <1>2, <1>4, <1>5, <1>8, <1>9, <1>10, <1>11, WorkStep

LEMMA FinishInv ==
  ASSUME NEW V, NEW F, NEW G, IInv(V, F, G), NEW p \in Procs, Finish(p)
  PROVE  IInv(V, F, G)'
<1>1. /\ completed \in [Procs -> Nat] /\ running \in [Procs -> BOOLEAN] /\ running[p]
      /\ running' = [running EXCEPT ![p] = FALSE]
      /\ completed' = [completed EXCEPT ![p] = completed[p] + 1]
      /\ UNCHANGED <<tasks, spawned, td, wire>>
  BY DEF IInv, Types, Finish
<1>2. G \in [Procs -> Nat] /\ Total(Counted(V, F, spawned)) \in Nat
      /\ Total(Counted(V, G, completed)) \in Nat
  BY CountedNat
<1>a. completed' \in [Procs -> Nat] /\ completed'[p] = completed[p] + 1
      /\ \A q \in Procs : q # p => completed'[q] = completed[q]
  BY <1>1
<1>3. /\ completed' \in [Procs -> Nat] /\ Total(completed') = Total(completed) + 1
      /\ Total(Counted(V, G, completed')) <= Total(Counted(V, G, completed)) + 1
      /\ Total(Counted(V, G, completed')) \in Nat
  <2>1. completed \in [Procs -> Nat] /\ G \in [Procs -> Nat]
    BY <1>1, <1>2
  <2> QED BY <2>1, <1>a, CountOne
<1>4. Types'
  BY <1>1, <1>3 DEF IInv, Types, td
<1>5. Busy \in [Procs -> Nat] /\ Busy' \in [Procs -> Nat] /\ Busy[p] = 1 /\ Busy'[p] = 0
      /\ \A q \in Procs : q # p => Busy'[q] = Busy[q]
  BY <1>1 DEF Busy
<1>6. Total(Busy') + Busy[p] = Total(Busy) + Busy'[p]
  BY <1>5, TotalUpdate
<1>7. /\ Total(spawned) = Total(completed) + Total(tasks) + Total(Busy)
      /\ Total(spawned) <= MaxTasks /\ Total(spawned) \in Nat /\ Total(completed) \in Nat
      /\ Total(tasks) \in Nat /\ Total(Busy) \in Nat /\ Total(Busy') \in Nat
  <2>1. tasks \in [Procs -> Nat]
    BY DEF IInv, Types
  <2> QED BY <1>5, <2>1, TotalType, WorkBounds DEF IInv, WorkInv
<1>8. WorkInv'
  <2>1. Total(Busy') = Total(Busy) - 1
    BY <1>5, <1>6, <1>7
  <2>2. Total(spawned) = Total(completed') + Total(tasks) + Total(Busy')
    BY <1>3, <1>7, <2>1
  <2> QED BY <1>1, <1>7, <2>2 DEF WorkInv
<1>9. WorkLeft
  BY <1>1 DEF WorkLeft
<1>10. /\ Total(Counted(V, F, spawned)) <= Total(spawned)
       /\ Total(Counted(V, G, completed)) <= Total(completed)
  BY DEF IInv, WaveInv
<1>11. Total(Counted(V, G, completed')) <= Total(completed')
  BY <1>2, <1>3, <1>7, <1>10
<1>12. /\ Total(Counted(V, F, spawned))' = Total(Counted(V, F, spawned))
       /\ Total(spawned)' = Total(spawned)
       /\ Total(Counted(V, F, spawned)) <= Total(Counted(V, F, spawned))
  BY <1>1, <1>2
<1>13. UNCHANGED <<td, wire>>
  BY <1>1
<1> QED BY <1>2, <1>4, <1>8, <1>9, <1>10, <1>11, <1>12, <1>13, WorkStep

LEMMA StealInv ==
  ASSUME NEW V, NEW F, NEW G, IInv(V, F, G),
         NEW p \in Procs, NEW v \in Procs, NEW n \in 1..MaxTasks, Steal(p, v, n)
  PROVE  IInv(V, F, G)'
<1>1. /\ tasks \in [Procs -> Nat] /\ tasks[p] = 0 /\ v # p /\ n <= tasks[v] /\ n \in Nat
      /\ n > 0 /\ tasks' = [tasks EXCEPT ![p] = n, ![v] = tasks[v] - n]
      /\ UNCHANGED <<running, spawned, completed, td, wire>>
  BY BuildAssumption DEF IInv, Types, Steal
<1> DEFINE mid == [tasks EXCEPT ![p] = n]
<1>2. mid \in [Procs -> Nat] /\ mid[p] = n /\ mid[v] = tasks[v]
      /\ \A q \in Procs : q # p => mid[q] = tasks[q]
  BY <1>1
<1>3. tasks' \in [Procs -> Nat] /\ tasks'[v] = tasks[v] - n
      /\ \A q \in Procs : q # v => tasks'[q] = mid[q]
  BY <1>1
<1> HIDE DEF mid
<1>4. Total(mid) + tasks[p] = Total(tasks) + mid[p]
  BY <1>1, <1>2, TotalUpdate
<1>5. Total(tasks') + mid[v] = Total(mid) + tasks'[v]
  BY <1>2, <1>3, TotalUpdate
<1>6. Total(tasks) \in Nat /\ Total(mid) \in Nat /\ Total(tasks') \in Nat /\ tasks[v] \in Nat
  BY <1>1, <1>2, <1>3, TotalType
<1>7. Total(tasks') = Total(tasks)
  BY <1>1, <1>2, <1>3, <1>4, <1>5, <1>6
<1>8. Types'
  BY <1>1, <1>3 DEF IInv, Types, td
<1>9. Busy' = Busy
  BY <1>1 DEF Busy
<1>10. WorkInv'
  BY <1>1, <1>7, <1>9 DEF IInv, WorkInv
<1>11. WorkLeft
  BY <1>1 DEF WorkLeft
<1>12. /\ Total(Counted(V, F, spawned)) <= Total(spawned)
       /\ Total(Counted(V, G, completed)) <= Total(completed)
  BY DEF IInv, WaveInv
<1>13. Total(Counted(V, F, spawned)) \in Nat
  BY CountedNat
<1> QED BY <1>1, <1>8, <1>10, <1>11, <1>12, <1>13, WorkStep

-----------------------------------------------------------------------------
(***************************************************************************)
(* Steps of the detection.                                                 *)
(***************************************************************************)
\* What a vote step leaves alone: the work, and so most of the invariant.
LEMMA VoteStep ==
  ASSUME NEW V, NEW F, NEW G, NEW W, NEW D, NEW H, IInv(V, F, G), UNCHANGED work,
         Types', DetectsOnlyTermination', TreeInv(W, D, H)', WaveInv(W, D, H)'
  PROVE  IInv(W, D, H)'
<1>1. UNCHANGED <<tasks, running, spawned, completed>>
  BY DEF work
<1>2. Busy' = Busy
  BY <1>1 DEF Busy
<1>3. WorkInv'
  BY <1>1, <1>2 DEF IInv, WorkInv
<1> QED BY <1>3 DEF IInv

LEMMA WaveFrame ==
  ASSUME NEW V, NEW F, NEW G, IInv(V, F, G), UNCHANGED <<work, last>>
  PROVE  WaveInv(V, F, G)'
<1>1. UNCHANGED <<tasks, running, spawned, completed, last>>
  BY DEF work
<1>2. WorkLeft' = WorkLeft
  BY <1>1 DEF WorkLeft
<1> QED BY <1>1, <1>2 DEF IInv, WaveInv

\* A message under way is the only one of its slot and fills it.
LEMMA MessageSent ==
  ASSUME NEW V, NEW F, NEW G, IInv(V, F, G), NEW m \in wire
  PROVE  /\ m.to \in Procs /\ m.slot \in Slots /\ m.part = "both"
         /\ votes[m.to][m.slot] = 0 /\ Msgs(m.to, m.slot) = {m}
<1> DEFINE q == m.to
           s == m.slot
<1>1. q \in Procs /\ s \in Slots
  BY DEF IInv, Types, Messages
<1>2. m \in Msgs(q, s)
  BY DEF Msgs
<1> HIDE DEF q, s
<1>3. ~Blank(q, s) /\ ~Spent(q, s)
  BY <1>2 DEF Blank, Spent
<1>4. \E p, t : Sent(p, q, s, t)
  <2>1. CASE Spare(q, s)
    BY <2>1, <1>1, <1>3 DEF IInv, TreeInv
  <2>2. CASE q \in Procs \ {Root} /\ s = "parent"
    <3>1. Edge(q, V, F, G)
      BY <2>2 DEF IInv, TreeInv
    <3> QED BY <2>2, <3>1, <1>3 DEF Edge, Idle, Voted, Waiting, Told, Gone
  <2>3. ASSUME NEW c \in Procs \ {Root}, Parent(c) = q, Side(c) = s
        PROVE  \E p, t : Sent(p, q, s, t)
    <3>1. Edge(c, V, F, G)
      BY DEF IInv, TreeInv
    <3> QED BY <2>3, <3>1, <1>3 DEF Edge, Idle, Voted, Waiting, Told, Gone
  <2> QED BY <2>1, <2>2, <2>3, <1>1, SlotCases
<1>5. PICK p, t : Sent(p, q, s, t)
  BY <1>4
<1>6. votes[q][s] = 0 /\ Msgs(q, s) = {Message(p, q, s, "both", t)}
  BY <1>2, <1>5 DEF Sent
<1>7. m = Message(p, q, s, "both", t)
  BY <1>2, <1>6
<1>8. m.part = "both"
  BY <1>7 DEF Message
<1> QED BY <1>1, <1>6, <1>7, <1>8 DEF q, s

LEMMA DeliverInv ==
  ASSUME NEW V, NEW F, NEW G, IInv(V, F, G), NEW m \in wire, Deliver(m)
  PROVE  IInv(V, F, G)'
<1>1. /\ m.to \in Procs /\ m.slot \in Slots /\ m.part = "both"
      /\ votes[m.to][m.slot] = 0 /\ Msgs(m.to, m.slot) = {m}
  BY MessageSent
<1>2. /\ wire' = wire \ {m} /\ UNCHANGED <<work, dir, terminated, last>>
      /\ token' = [token EXCEPT ![m.to][m.slot] = m.token]
      /\ votes' = [votes EXCEPT ![m.to][m.slot] = votes[m.to][m.slot] + 1]
  BY <1>1 DEF Deliver
<1>3. /\ token \in [Procs -> [Slots -> Tokens]] /\ votes \in [Procs -> [Slots -> Nat]]
      /\ m.token \in Tokens /\ wire \subseteq Messages
  BY DEF IInv, Types, Messages
<1>4. token' \in [Procs -> [Slots -> Tokens]] /\ votes' \in [Procs -> [Slots -> Nat]]
      /\ wire' \subseteq Messages
  BY <1>1, <1>2, <1>3
<1>5. Types'
  BY <1>2, <1>4 DEF IInv, Types, work
<1>6. \A q \in Procs, s \in Slots : ~(q = m.to /\ s = m.slot) =>
        votes'[q][s] = votes[q][s] /\ token'[q][s] = token[q][s] /\ Msgs(q, s)' = Msgs(q, s)
  BY <1>1, <1>2, <1>3 DEF Msgs
<1>7. /\ votes'[m.to][m.slot] = 1 /\ token'[m.to][m.slot] = m.token
      /\ Msgs(m.to, m.slot)' = {}
  <2>1. Msgs(m.to, m.slot)' = Msgs(m.to, m.slot) \ {m}
    BY <1>2 DEF Msgs
  <2> QED BY <1>1, <1>2, <1>3, <2>1
<1>8. ASSUME NEW q \in Procs, NEW s \in Slots
      PROVE  /\ Blank(q, s) => Blank(q, s)' /\ token'[q][s] = token[q][s]
             /\ Spent(q, s) => Spent(q, s)'
             /\ \A p, t : Sent(p, q, s, t) => Sent(p, q, s, t)'
  <2>1. CASE q = m.to /\ s = m.slot
    <3>1. ~Blank(q, s) /\ ~Spent(q, s)
      BY <1>1, <2>1 DEF Blank, Spent
    <3>2. ASSUME NEW p, NEW t, Sent(p, q, s, t) PROVE Sent(p, q, s, t)'
      <4>1. m = Message(p, q, s, "both", t)
        BY <1>1, <2>1, <3>2 DEF Sent
      <4>2. m.token = t
        BY <4>1 DEF Message
      <4> QED BY <1>7, <2>1, <4>2 DEF Sent
    <3> QED BY <3>1, <3>2
  <2>2. CASE ~(q = m.to /\ s = m.slot)
    BY <1>2, <1>6, <2>2 DEF Blank, Spent, Sent
  <2> QED BY <2>1, <2>2
<1>9. ASSUME NEW c \in Procs \ {Root} PROVE Edge(c, V, F, G)'
  <2>1. Edge(c, V, F, G)
    BY DEF IInv, TreeInv
  <2>2. Parent(c) \in Procs /\ Side(c) \in Slots /\ "parent" \in Slots
    BY TreeFacts DEF Slots
  <2> QED BY <1>2, <1>8, <2>1, <2>2 DEF Edge, Idle, Voted, Waiting, Told, Gone
<1>10. TreeInv(V, F, G)'
  BY <1>2, <1>8, <1>9 DEF IInv, TreeInv
<1>11. WaveInv(V, F, G)'
  BY <1>2, WaveFrame
<1>12. DetectsOnlyTermination'
  BY <1>2 DEF IInv, DetectsOnlyTermination, WorkLeft, work
<1> QED BY <1>2, <1>5, <1>10, <1>11, <1>12, VoteStep

\* D is F after p's vote has taken over the votes of its children.
TakesOver(p, V, F, D, f) ==
  /\ p \in Procs /\ p \notin V /\ F[p] = 0 /\ \A c \in Children(p) : c \in V
  /\ F \in [Procs -> Nat] /\ D \in [Procs -> Nat] /\ f \in [Procs -> Nat]
  /\ D[p] = f[p] + At(F, 2*p + 1) + At(F, 2*p + 2)
  /\ \A c \in Children(p) : D[c] = 0
  /\ \A q \in Procs \ Children(p) : q # p => D[q] = F[q]

\* The wave then counts what it did before.
LEMMA CountedVote ==
  ASSUME NEW V, NEW F, NEW D, NEW f, NEW p, TakesOver(p, V, F, D, f)
  PROVE  /\ Total(Counted(V \cup {p}, D, f)) = Total(Counted(V, F, f))
         /\ D[p] <= Total(Counted(V, F, f))
<1> USE DEF TakesOver
<1> DEFINE a == Counted(V, F, f)
           b == Counted(V \cup {p}, D, f)
<1>1. a \in [Procs -> Nat] /\ b \in [Procs -> Nat]
  BY CountedType
<1>2. a[p] = f[p] /\ b[p] = D[p]
  BY DEF Counted
<1>3. \A c \in Children(p) : c \in Procs /\ c # p
  BY ChildFacts
<1>4. \A c \in Children(p) : a[c] = F[c] /\ b[c] = 0
  BY <1>3 DEF Counted
<1>5. \A q \in Procs \ Children(p) : q # p => b[q] = a[q]
  BY DEF Counted
<1>6. At(a, 2*p + 1) = At(F, 2*p + 1) /\ At(a, 2*p + 2) = At(F, 2*p + 2)
  BY <1>4 DEF At, Children
<1> HIDE DEF a, b
<1>7. Total(b) = Total(a)
  BY <1>1, <1>2, <1>4, <1>5, <1>6, TotalGather
<1>8. b[p] <= Total(b)
  BY <1>1, TotalMember
<1> QED BY <1>2, <1>7, <1>8 DEF a, b

\* A vote passed up: by an inner node or a leaf in a first wave, or by a leaf that
\* has heard that it is not over.
PassesUp(p, V, F, G, a, b) ==
  /\ p \in Procs \ {Root} /\ HaveVotes(p) /\ ~terminated[p]
  /\ p \notin V /\ F[p] = 0 /\ G[p] = 0
  /\ dir[Parent(p)] = "UP" /\ ~terminated[Parent(p)] /\ Parent(p) \notin V
  /\ Blank(Parent(p), Side(p)) /\ Msgs(p, "parent") = {}
  /\ a = Spawned(p) /\ b = Completed(p)
  /\ wire' = wire \cup PutUp(p, [over |-> FALSE, spawned |-> a, completed |-> b])
  /\ dir' = [dir EXCEPT ![p] = "DOWN"] /\ UNCHANGED <<work, terminated, token, last>>
  /\ votes' \in [Procs -> [Slots -> Nat]] /\ votes'[p]["parent"] = 0
  /\ \A q \in Procs, s \in Slots : q # p => votes'[q][s] = votes[q][s]
  /\ \A s \in {"left", "right"} :
       votes'[p][s] = IF \E c \in Children(p) : Side(c) = s THEN 0 ELSE votes[p][s]

LEMMA PassUp ==
  ASSUME NEW V, NEW F, NEW G, IInv(V, F, G), SignalComms,
         NEW p, NEW a, NEW b, PassesUp(p, V, F, G, a, b)
  PROVE  Inv'
<1> USE DEF PassesUp
<1>1. Types /\ TreeInv(V, F, G)
  BY DEF IInv
<1>2. /\ \A c \in Children(p) : Voted(c, p, V, F, G) /\ Msgs(p, Side(c)) = {}
      /\ a = spawned[p] + At(F, 2*p + 1) + At(F, 2*p + 2)
      /\ b = completed[p] + At(G, 2*p + 1) + At(G, 2*p + 2)
  BY <1>1, VotesHeld
<1>3. /\ F \in [Procs -> Nat] /\ G \in [Procs -> Nat]
      /\ spawned \in [Procs -> Nat] /\ completed \in [Procs -> Nat]
      /\ V \subseteq Procs \ {Root}
  BY <1>1 DEF TreeInv, Types
<1>4. a \in Nat /\ b \in Nat
  <2>1. \A d \in Nat : At(F, d) \in Nat /\ At(G, d) \in Nat
    BY <1>3, NAssumption DEF At, Procs
  <2>2. 2*p + 1 \in Nat /\ 2*p + 2 \in Nat /\ spawned[p] \in Nat /\ completed[p] \in Nat
    BY <1>3 DEF Procs
  <2> QED BY <1>2, <2>1, <2>2
<1> DEFINE W == V \cup {p}
           D == [c \in Procs |-> IF c = p THEN a ELSE IF c \in Children(p) THEN 0 ELSE F[c]]
           H == [c \in Procs |-> IF c = p THEN b ELSE IF c \in Children(p) THEN 0 ELSE G[c]]
           t == [over |-> FALSE, spawned |-> a, completed |-> b]
           m == Message(p, Parent(p), Side(p), "both", t)
<1>5. D \in [Procs -> Nat] /\ H \in [Procs -> Nat]
  BY <1>3, <1>4
<1>6. \A c \in Children(p) : c \in Procs \ {Root} /\ c # p /\ Parent(c) = p /\ c \in V
  BY <1>2, ChildFacts DEF Voted
<1>7. /\ D[p] = a /\ H[p] = b
      /\ \A c \in Children(p) : D[c] = 0 /\ H[c] = 0
      /\ \A q \in Procs \ Children(p) : q # p => D[q] = F[q] /\ H[q] = G[q]
  BY <1>6
<1> HIDE DEF D, H
<1>8. /\ Total(Counted(W, D, spawned)) = Total(Counted(V, F, spawned))
      /\ a <= Total(Counted(V, F, spawned))
  <2>a. D[p] = a
    BY <1>7
  <2>1. /\ F \in [Procs -> Nat] /\ D \in [Procs -> Nat] /\ spawned \in [Procs -> Nat]
        /\ p \in Procs /\ p \notin V /\ F[p] = 0
    BY <1>3, <1>5
  <2>2. \A c \in Children(p) : c \in V
    BY <1>6
  <2>3. D[p] = spawned[p] + At(F, 2*p + 1) + At(F, 2*p + 2)
    BY <1>2, <1>7
  <2>4. \A c \in Children(p) : D[c] = 0
    BY <1>7
  <2>5. \A q \in Procs \ Children(p) : q # p => D[q] = F[q]
    BY <1>7
  <2> HIDE DEF PassesUp
  <2>6. TakesOver(p, V, F, D, spawned)
    BY <2>1, <2>2, <2>3, <2>4, <2>5 DEF TakesOver
  <2>7. /\ Total(Counted(V \cup {p}, D, spawned)) = Total(Counted(V, F, spawned))
        /\ D[p] <= Total(Counted(V, F, spawned))
    BY <2>6, CountedVote
  <2> QED BY <2>7, <2>a
<1>9. /\ Total(Counted(W, H, completed)) = Total(Counted(V, G, completed))
      /\ b <= Total(Counted(V, G, completed))
  <2>a. H[p] = b
    BY <1>7
  <2>1. /\ G \in [Procs -> Nat] /\ H \in [Procs -> Nat] /\ completed \in [Procs -> Nat]
        /\ p \in Procs /\ p \notin V /\ G[p] = 0
    BY <1>3, <1>5
  <2>2. \A c \in Children(p) : c \in V
    BY <1>6
  <2>3. H[p] = completed[p] + At(G, 2*p + 1) + At(G, 2*p + 2)
    BY <1>2, <1>7
  <2>4. \A c \in Children(p) : H[c] = 0
    BY <1>7
  <2>5. \A q \in Procs \ Children(p) : q # p => H[q] = G[q]
    BY <1>7
  <2> HIDE DEF PassesUp
  <2>6. TakesOver(p, V, G, H, completed)
    BY <2>1, <2>2, <2>3, <2>4, <2>5 DEF TakesOver
  <2>7. /\ Total(Counted(V \cup {p}, H, completed)) = Total(Counted(V, G, completed))
        /\ H[p] <= Total(Counted(V, G, completed))
    BY <2>6, CountedVote
  <2> QED BY <2>7, <2>a
<1>10. t \in Tokens
  <2>1. /\ Total(Counted(V, F, spawned)) <= Total(spawned) /\ Total(spawned) <= MaxTasks
        /\ Total(Counted(V, G, completed)) <= Total(completed)
    BY DEF IInv, WaveInv, WorkInv
  <2>2. /\ Total(Counted(V, F, spawned)) \in Nat /\ Total(Counted(V, G, completed)) \in Nat
    BY CountedNat
  <2>3. /\ Total(spawned) \in Nat /\ Total(completed) \in Nat
        /\ Total(completed) <= Total(spawned)
    BY WorkBounds DEF IInv
  <2>4. a \in 0..MaxTasks /\ b \in 0..MaxTasks
    BY <1>4, <1>8, <1>9, <2>1, <2>2, <2>3, BuildAssumption
  <2> QED BY <2>4 DEF Tokens
<1>11. wire' = wire \cup {m}
  BY DEF PutUp, Put
<1>12. Parent(p) \in Procs /\ Side(p) \in {"left", "right"} /\ Parent(p) # p
  <2>1. Parent(p) \in Procs /\ Side(p) \in {"left", "right"} /\ Parent(p) < p
    BY TreeFacts
  <2> QED BY <2>1 DEF Procs
<1>13. Types'
  <2>1. m \in Messages
    BY <1>10, <1>12 DEF Message, Messages, Slots
  <2>2. wire' \subseteq Messages
    BY <1>1, <1>11, <2>1 DEF Types
  <2>3. dir' \in [Procs -> {"UP", "DOWN"}]
    BY <1>1 DEF Types
  <2> QED BY <1>1, <2>2, <2>3 DEF Types, work
<1>14. /\ Msgs(Parent(p), Side(p))' = Msgs(Parent(p), Side(p)) \cup {m}
       /\ \A q, s : ~(q = Parent(p) /\ s = Side(p)) => Msgs(q, s)' = Msgs(q, s)
  <2>1. m.to = Parent(p) /\ m.slot = Side(p)
    BY DEF Message
  <2> HIDE DEF m
  <2> QED BY <1>11, <2>1 DEF Msgs
<1>15. \A q \in Procs : q # p => dir'[q] = dir[q]
  BY <1>1 DEF Types
<1>16. dir'[p] = "DOWN"
  BY <1>1 DEF Types
<1>17. ASSUME NEW c \in Procs \ {Root} PROVE Edge(c, W, D, H)'
  <2>1. Edge(c, V, F, G)
    BY <1>1 DEF TreeInv
  <2>2. Parent(c) \in Procs /\ Side(c) \in {"left", "right"} /\ c \in Children(Parent(c))
    BY TreeFacts
  <2>3. CASE c = p
    <3>1. Sent(p, Parent(p), Side(p), t)'
      <4>1. votes'[Parent(p)][Side(p)] = 0
        BY <1>12 DEF Blank, Slots
      <4>2. Msgs(Parent(p), Side(p))' = {m}
        BY <1>14 DEF Blank
      <4> QED BY <4>1, <4>2 DEF Sent
    <3>2. Blank(p, "parent")'
      BY <1>12, <1>14 DEF Blank
    <3>3. dir'[Parent(p)] = "UP"
      BY <1>12, <1>15
    <3>4. Voted(p, Parent(p), W, D, H)'
      BY <3>1, <3>2, <3>3, <1>7, <1>12, <1>16 DEF Voted
    <3> QED BY <2>3, <3>4 DEF Edge
  <2>4. CASE c \in Children(p)
    <3>1. Voted(c, p, V, F, G) /\ Parent(c) = p /\ c # p /\ Msgs(p, Side(c)) = {}
      BY <2>4, <1>2, <1>6
    <3>2. Blank(p, Side(c))'
      <4>1. votes'[p][Side(c)] = 0
        BY <2>2, <2>4
      <4> QED BY <3>1, <4>1, <1>12, <1>14 DEF Blank
    <3>3. Blank(c, "parent")'
      <4>1. votes'[c]["parent"] = votes[c]["parent"]
        BY <3>1 DEF Slots
      <4> QED BY <3>1, <4>1, <1>12, <1>14 DEF Voted, Blank
    <3>4. Waiting(c, p, W)'
      BY <3>1, <3>2, <3>3, <1>15, <1>16 DEF Voted, Waiting
    <3> QED BY <3>1, <3>4, <1>7, <2>4 DEF Edge
  <2>5. CASE c # p /\ c \notin Children(p)
    <3>1. Parent(c) # p
      BY <2>2, <2>5
    <3>2. ~(Parent(c) = Parent(p) /\ Side(c) = Side(p))
      BY <2>5, TreeFacts
    <3>3. votes'[Parent(c)][Side(c)] = votes[Parent(c)][Side(c)]
          /\ votes'[c]["parent"] = votes[c]["parent"]
      BY <2>2, <2>5, <3>1 DEF Slots
    <3>4. Msgs(Parent(c), Side(c))' = Msgs(Parent(c), Side(c))
          /\ Msgs(c, "parent")' = Msgs(c, "parent")
      BY <1>12, <1>14, <3>2
    <3>5. \A q \in {c, Parent(c)} : /\ dir'[q] = dir[q] /\ terminated'[q] = terminated[q]
                                    /\ q \in W <=> q \in V
      BY <1>15, <2>2, <2>5, <3>1
    <3>6. D[c] = F[c] /\ H[c] = G[c]
      BY <1>7, <2>5
    <3> HIDE DEF W
    <3> QED BY <2>1, <3>3, <3>4, <3>5, <3>6, EdgeFrame
  <2> QED BY <2>3, <2>4, <2>5
<1>18. TreeInv(W, D, H)'
  <2>1. Root \in Procs /\ Root # p /\ Root \notin Children(p)
    BY NAssumption, ChildFacts DEF Root, Procs
  <2>2. D[Root] = 0 /\ H[Root] = 0 /\ dir'[Root] = "UP"
    BY <1>1, <1>7, <1>15, <2>1 DEF TreeInv
  <2>3. ASSUME NEW q \in Procs, NEW s \in Slots, Spare(q, s)
        PROVE  Blank(q, s)' /\ token'[q][s] = NoToken
    <3>1. Blank(q, s) /\ token[q][s] = NoToken
      BY <1>1, <2>3 DEF TreeInv
    <3>2. ~(q = Parent(p) /\ s = Side(p))
      BY <2>3, <1>12 DEF Spare
    <3>3. votes'[q][s] = 0
      BY <3>1 DEF Blank, Slots
    <3> QED BY <3>1, <3>2, <3>3, <1>14 DEF Blank
  <2>4. \A q \in Procs, s \in Slots : Spare(q, s)' <=> Spare(q, s)
    OBVIOUS
  <2> QED BY <1>3, <1>5, <1>17, <2>2, <2>3, <2>4 DEF TreeInv
<1>19. WaveInv(W, D, H)'
  <2>1. UNCHANGED <<tasks, running, spawned, completed, last>>
    BY DEF work
  <2>2. WorkLeft' = WorkLeft
    BY <2>1 DEF WorkLeft
  <2> QED BY <1>8, <1>9, <2>1, <2>2 DEF IInv, WaveInv
<1>20. DetectsOnlyTermination'
  BY DEF IInv, DetectsOnlyTermination, WorkLeft, work
<1>21. IInv(W, D, H)'
  BY <1>13, <1>18, <1>19, <1>20, VoteStep
<1> QED BY <1>21 DEF Inv

LEMMA AcknowledgeFacts ==
  ASSUME Types, NEW p \in Procs, NEW A \in SUBSET Slots, votes' = Acknowledge(p, A)
  PROVE  /\ votes' \in [Procs -> [Slots -> Nat]]
         /\ \A q \in Procs, s \in Slots :
              votes'[q][s] = IF q = p /\ s \in A THEN 0 ELSE votes[q][s]
BY DEF Types, Acknowledge

LEMMA VoteUpInv ==
  ASSUME NEW V, NEW F, NEW G, IInv(V, F, G), SignalComms, NEW p \in Procs, VoteUp(p)
  PROVE  Inv'
<1>1. /\ p \in Procs \ {Root} /\ ~terminated[p] /\ dir[p] = "UP" /\ HaveVotes(p)
      /\ dir' = [dir EXCEPT ![p] = "DOWN"] /\ UNCHANGED <<work, terminated, token, last>>
      /\ votes' = Acknowledge(p, {"left", "right"})
      /\ wire' = wire \cup PutUp(p, [over |-> FALSE, spawned |-> Spawned(p),
                                     completed |-> Completed(p)])
  BY DEF VoteUp, MayVote, Searching
<1>2. Types /\ TreeInv(V, F, G)
  BY DEF IInv
<1>3. PICK a, b : a = Spawned(p) /\ b = Completed(p)
  OBVIOUS
<1>4. Idle(p, Parent(p), V) /\ F[p] = 0 /\ G[p] = 0
  <2>1. Edge(p, V, F, G)
    BY <1>1, <1>2 DEF TreeInv
  <2> QED BY <1>1, <2>1 DEF Edge, Voted, Waiting, Told, Gone
<1>5. {"left", "right"} \in SUBSET Slots
  BY DEF Slots
<1>6. /\ votes' \in [Procs -> [Slots -> Nat]]
      /\ \A q \in Procs, s \in Slots :
           votes'[q][s] = IF q = p /\ s \in {"left", "right"} THEN 0 ELSE votes[q][s]
  BY <1>1, <1>2, <1>5, AcknowledgeFacts
<1>7. ASSUME NEW s \in {"left", "right"}
      PROVE  votes'[p][s] = IF \E c \in Children(p) : Side(c) = s THEN 0 ELSE votes[p][s]
  <2>1. votes'[p][s] = 0 /\ s \in Slots
    BY <1>6 DEF Slots
  <2>2. ASSUME ~\E c \in Children(p) : Side(c) = s PROVE votes[p][s] = 0
    <3>1. Spare(p, s)
      BY <2>2, TreeFacts DEF Spare
    <3> QED BY <1>2, <2>1, <3>1 DEF TreeInv, Blank
  <2> QED BY <2>1, <2>2
<1>8. votes'[p]["parent"] = 0 /\ Msgs(p, "parent") = {}
  BY <1>4, <1>6 DEF Idle, Blank, Slots
<1>9. /\ dir[Parent(p)] = "UP" /\ ~terminated[Parent(p)] /\ Parent(p) \notin V /\ p \notin V
      /\ Blank(Parent(p), Side(p))
  BY <1>4 DEF Idle
<1>10. \A q \in Procs, s \in Slots : q # p => votes'[q][s] = votes[q][s]
  BY <1>6
<1>11. wire' = wire \cup PutUp(p, [over |-> FALSE, spawned |-> a, completed |-> b])
  BY <1>1, <1>3
<1>12. PassesUp(p, V, F, G, a, b)
  BY <1>1, <1>3, <1>4, <1>6, <1>7, <1>8, <1>9, <1>10, <1>11 DEF PassesUp
<1> QED BY <1>12, PassUp

\* What a process that has its parent's verdict finds.
LEMMA VerdictHeld ==
  ASSUME NEW V, NEW F, NEW G, IInv(V, F, G), NEW p \in Procs \ {Root},
         ~terminated[p], HasVerdict(p)
  PROVE  /\ Told(p, Parent(p), V) /\ F[p] = 0 /\ G[p] = 0
         /\ Verdict(p) = terminated[Parent(p)] /\ token[p]["parent"] \in Tokens
         /\ votes[p]["parent"] = 1 /\ Msgs(p, "parent") = {}
<1>1. Edge(p, V, F, G) /\ dir[p] = "DOWN" /\ votes[p]["parent"] > 0
  BY DEF IInv, TreeInv, HasVerdict
<1>2. Told(p, Parent(p), V) /\ F[p] = 0 /\ G[p] = 0
  BY <1>1 DEF Edge, Idle, Voted, Waiting, Gone, Blank
<1>3. PICK t \in Tokens : t.over = terminated[Parent(p)] /\ Sent(Parent(p), p, "parent", t)
  BY <1>2 DEF Told
<1>4. votes[p]["parent"] = 1 /\ Msgs(p, "parent") = {} /\ token[p]["parent"] = t
  BY <1>1, <1>3 DEF Sent
<1> QED BY <1>2, <1>3, <1>4 DEF Verdict

LEMMA VoteAgainInv ==
  ASSUME NEW V, NEW F, NEW G, IInv(V, F, G), SignalComms, NEW p \in Procs, VoteAgain(p)
  PROVE  Inv'
<1>1. /\ p \in Procs \ {Root} /\ ~terminated[p] /\ HasVerdict(p) /\ Children(p) = {}
      /\ ~Verdict(p) /\ UNCHANGED <<work, dir, terminated, token, last>>
      /\ votes' = Acknowledge(p, {"parent"})
      /\ wire' = wire \cup PutUp(p, [over |-> FALSE, spawned |-> spawned[p],
                                     completed |-> completed[p]])
  BY DEF VoteAgain, MayVote, Searching
<1>2. Types /\ TreeInv(V, F, G)
  BY DEF IInv
<1>3. /\ Told(p, Parent(p), V) /\ F[p] = 0 /\ G[p] = 0 /\ ~terminated[Parent(p)]
      /\ Msgs(p, "parent") = {}
  BY <1>1, VerdictHeld
<1>4. HaveVotes(p)
  BY <1>1 DEF HaveVotes
<1>5. PICK a, b : a = spawned[p] /\ b = completed[p]
  OBVIOUS
<1>6. a = Spawned(p) /\ b = Completed(p)
  <2>1. /\ Spawned(p) = spawned[p] + At(F, 2*p + 1) + At(F, 2*p + 2)
        /\ Completed(p) = completed[p] + At(G, 2*p + 1) + At(G, 2*p + 2)
    BY <1>1, <1>2, <1>4, VotesHeld
  <2>2. At(F, 2*p + 1) = 0 /\ At(F, 2*p + 2) = 0 /\ At(G, 2*p + 1) = 0 /\ At(G, 2*p + 2) = 0
    BY <1>1 DEF Children, At
  <2>3. spawned[p] \in Nat /\ completed[p] \in Nat
    BY <1>2 DEF Types
  <2> QED BY <1>5, <2>1, <2>2, <2>3
<1>7. {"parent"} \in SUBSET Slots
  BY DEF Slots
<1>8. /\ votes' \in [Procs -> [Slots -> Nat]]
      /\ \A q \in Procs, s \in Slots :
           votes'[q][s] = IF q = p /\ s \in {"parent"} THEN 0 ELSE votes[q][s]
  BY <1>1, <1>2, <1>7, AcknowledgeFacts
<1>9. \A s \in {"left", "right"} :
        votes'[p][s] = IF \E c \in Children(p) : Side(c) = s THEN 0 ELSE votes[p][s]
  BY <1>1, <1>8 DEF Slots
<1>10. votes'[p]["parent"] = 0 /\ \A q \in Procs, s \in Slots : q # p => votes'[q][s] = votes[q][s]
  BY <1>8 DEF Slots
<1>11. /\ dir[Parent(p)] = "UP" /\ Parent(p) \notin V /\ p \notin V
       /\ Blank(Parent(p), Side(p))
  BY <1>3 DEF Told, Spent, Blank
<1>12. dir' = [dir EXCEPT ![p] = "DOWN"]
  BY <1>1, <1>2 DEF HasVerdict, Types
<1>13. wire' = wire \cup PutUp(p, [over |-> FALSE, spawned |-> a, completed |-> b])
  BY <1>1, <1>5
<1>14. PassesUp(p, V, F, G, a, b)
  BY <1>1, <1>3, <1>4, <1>6, <1>8, <1>9, <1>10, <1>11, <1>12, <1>13 DEF PassesUp
<1> QED BY <1>14, PassUp

\* What a verdict adds to the network: one message for each child.
LEMMA PutDownMsgs ==
  ASSUME SignalComms, NEW p \in Procs, NEW t, wire' = wire \cup PutDown(p, t)
  PROVE  /\ \A c \in Children(p) :
              Msgs(c, "parent")' = Msgs(c, "parent") \cup {Message(p, c, "parent", "both", t)}
         /\ \A q, s : ~(q \in Children(p) /\ s = "parent") => Msgs(q, s)' = Msgs(q, s)
         /\ wire \subseteq Messages /\ t \in Tokens => wire' \subseteq Messages
<1>1. PutDown(p, t) = {Message(p, c, "parent", "both", t) : c \in Children(p)}
  BY DEF PutDown, Put
<1>2. \A m : m \in wire' <=>
        m \in wire \/ \E c \in Children(p) : m = Message(p, c, "parent", "both", t)
  BY <1>1
<1>3. \A c : LET m == Message(p, c, "parent", "both", t)
             IN  m.to = c /\ m.slot = "parent"
  BY DEF Message
<1>4. ASSUME NEW c \in Children(p)
      PROVE  Msgs(c, "parent")' = Msgs(c, "parent") \cup {Message(p, c, "parent", "both", t)}
  BY <1>2, <1>3 DEF Msgs
<1>5. ASSUME NEW q, NEW s, ~(q \in Children(p) /\ s = "parent")
      PROVE  Msgs(q, s)' = Msgs(q, s)
  BY <1>2, <1>3, <1>5 DEF Msgs
<1>6. ASSUME wire \subseteq Messages, t \in Tokens PROVE wire' \subseteq Messages
  <2>1. \A c \in Children(p) : Message(p, c, "parent", "both", t) \in Messages
    BY <1>6, ChildFacts DEF Message, Messages, Slots
  <2> QED BY <1>2, <1>6, <2>1
<1> QED BY <1>4, <1>5, <1>6

\* p passes its parent's verdict to its children, and leaves or collects votes again:
\* an inner node, or a leaf that leaves (it has no children to pass it to).
LEMMA PassDown ==
  ASSUME NEW V, NEW F, NEW G, IInv(V, F, G), SignalComms, NEW p \in Procs \ {Root},
         ~terminated[p], HasVerdict(p),
         wire' = wire \cup PutDown(p, token[p]["parent"]),
         UNCHANGED <<work, token, last>>,
         terminated' = [terminated EXCEPT ![p] = Verdict(p)],
         dir' \in [Procs -> {"UP", "DOWN"}],
         \A q \in Procs : q # p => dir'[q] = dir[q],
         dir'[p] = "UP" \/ (Children(p) = {} /\ Verdict(p)),
         votes' \in [Procs -> [Slots -> Nat]],
         \A q \in Procs, s \in Slots :
           votes'[q][s] = IF q = p /\ s = "parent" /\ ~Verdict(p) THEN 0 ELSE votes[q][s]
  PROVE  IInv(V, F, G)'
<1>1. Types /\ TreeInv(V, F, G)
  BY DEF IInv
<1>2. /\ Told(p, Parent(p), V) /\ F[p] = 0 /\ G[p] = 0
      /\ Verdict(p) = terminated[Parent(p)] /\ token[p]["parent"] \in Tokens
      /\ votes[p]["parent"] = 1 /\ Msgs(p, "parent") = {} /\ dir[p] = "DOWN"
  BY VerdictHeld DEF HasVerdict
<1>3. Verdict(p) \in BOOLEAN /\ token[p]["parent"].over = Verdict(p)
  BY <1>2 DEF Tokens, Verdict
<1>4. /\ Parent(p) \in Procs /\ Side(p) \in {"left", "right"} /\ Parent(p) # p
      /\ p \notin Children(p) /\ Parent(p) \notin Children(p) /\ Root \in Procs
  <2>1. Parent(p) \in Procs /\ Side(p) \in {"left", "right"} /\ Parent(p) < p
    BY TreeFacts
  <2> QED BY <2>1, NAssumption DEF Procs, Children, Root
<1>5. \A c \in Children(p) : c \in Procs \ {Root} /\ Parent(c) = p /\ c # p
  BY ChildFacts
<1>6. terminated'[p] = Verdict(p) /\ terminated' \in [Procs -> BOOLEAN]
      /\ \A q \in Procs : q # p => terminated'[q] = terminated[q]
  BY <1>1, <1>3 DEF Types
<1>7. /\ \A c \in Children(p) :
           Msgs(c, "parent")' = Msgs(c, "parent")
                                  \cup {Message(p, c, "parent", "both", token[p]["parent"])}
      /\ \A q, s : ~(q \in Children(p) /\ s = "parent") => Msgs(q, s)' = Msgs(q, s)
      /\ wire' \subseteq Messages
  BY <1>1, <1>2, PutDownMsgs DEF Types
<1>8. Types'
  BY <1>1, <1>6, <1>7 DEF Types, work
<1>9. ASSUME NEW c \in Procs \ {Root} PROVE Edge(c, V, F, G)'
  <2>1. Edge(c, V, F, G)
    BY <1>1 DEF TreeInv
  <2>2. /\ Parent(c) \in Procs /\ Side(c) \in {"left", "right"} /\ c \in Children(Parent(c))
        /\ Side(c) \in Slots /\ "parent" \in Slots /\ Side(c) # "parent"
    BY TreeFacts DEF Slots
  <2>3. CASE c = p
    <3>1. /\ dir[Parent(p)] = "UP" /\ Parent(p) \notin V /\ p \notin V
          /\ Spent(Parent(p), Side(p))
      BY <1>2 DEF Told
    <3>2. dir'[Parent(p)] = "UP" /\ terminated'[Parent(p)] = terminated[Parent(p)]
      BY <1>4, <1>6, <3>1
    <3>3. Spent(Parent(p), Side(p))'
      <4>1. votes'[Parent(p)][Side(p)] = votes[Parent(p)][Side(p)]
        BY <1>4, <2>2, <2>3
      <4>2. Msgs(Parent(p), Side(p))' = Msgs(Parent(p), Side(p))
        BY <1>4, <1>7
      <4> QED BY <3>1, <3>2, <4>1, <4>2 DEF Spent
    <3>4. Msgs(p, "parent")' = {}
      BY <1>2, <1>4, <1>7
    <3>5. CASE Verdict(p)
      <4>1. Spent(p, "parent")'
        BY <1>2, <1>6, <2>2, <3>4, <3>5 DEF Spent
      <4>2. Gone(p, Parent(p), V)'
        BY <1>2, <1>6, <3>1, <3>2, <3>3, <3>5, <4>1 DEF Gone
      <4> QED BY <1>2, <2>3, <4>2 DEF Edge
    <3>6. CASE ~Verdict(p)
      <4>1. Blank(p, "parent")'
        BY <2>2, <3>4, <3>6 DEF Blank
      <4>2. Blank(Parent(p), Side(p))'
        BY <1>2, <3>2, <3>3, <3>6 DEF Spent, Blank
      <4>3. Idle(p, Parent(p), V)'
        BY <1>2, <1>6, <3>1, <3>2, <3>6, <4>1, <4>2 DEF Idle
      <4> QED BY <1>2, <2>3, <4>3 DEF Edge
    <3> QED BY <3>5, <3>6
  <2>4. CASE c \in Children(p)
    <3>1. Parent(c) = p /\ c # p
      BY <1>5, <2>4
    <3>2. Waiting(c, p, V) /\ F[c] = 0 /\ G[c] = 0
      BY <1>2, <2>1, <3>1 DEF Edge, Idle, Voted, Told, Gone
    <3>3. c \notin V /\ p \notin V
      BY <1>2, <3>2 DEF Waiting, Told
    <3>4. dir'[c] = "DOWN" /\ ~terminated'[c] /\ dir'[p] = "UP"
      BY <1>6, <2>4, <3>1, <3>2 DEF Waiting
    <3>5. Spent(p, Side(c))'
      <4>1. votes'[p][Side(c)] = votes[p][Side(c)]
        BY <2>2
      <4>2. Msgs(p, Side(c))' = Msgs(p, Side(c))
        BY <1>7, <2>2
      <4> QED BY <3>2, <4>1, <4>2 DEF Waiting, Blank, Spent
    <3>6. Sent(p, c, "parent", token[p]["parent"])'
      <4>1. votes'[c]["parent"] = votes[c]["parent"]
        BY <2>2, <3>1
      <4>2. Msgs(c, "parent")' = {Message(p, c, "parent", "both", token[p]["parent"])}
        BY <1>7, <2>4, <3>2 DEF Waiting, Blank
      <4> QED BY <3>2, <4>1, <4>2 DEF Waiting, Blank, Sent
    <3>7. token'[p]["parent"].over = terminated'[p] /\ token'[p]["parent"] \in Tokens
      BY <1>2, <1>3, <1>6
    <3>8. Told(c, p, V)'
      BY <3>3, <3>4, <3>5, <3>6, <3>7 DEF Told
    <3> QED BY <3>1, <3>2, <3>8 DEF Edge
  <2>5. CASE c # p /\ c \notin Children(p)
    <3>1. Parent(c) # p
      BY <2>2, <2>5
    <3>2. votes'[Parent(c)][Side(c)] = votes[Parent(c)][Side(c)]
          /\ votes'[c]["parent"] = votes[c]["parent"]
      BY <2>2, <2>5, <3>1
    <3>3. Msgs(Parent(c), Side(c))' = Msgs(Parent(c), Side(c))
          /\ Msgs(c, "parent")' = Msgs(c, "parent")
      BY <1>7, <2>2, <2>5
    <3>4. \A q \in {c, Parent(c)} : /\ dir'[q] = dir[q] /\ terminated'[q] = terminated[q]
                                    /\ q \in V <=> q \in V
      BY <1>6, <2>2, <2>5, <3>1
    <3> QED BY <2>1, <3>2, <3>3, <3>4, EdgeFrame
  <2> QED BY <2>3, <2>4, <2>5
<1>10. TreeInv(V, F, G)'
  <2>1. dir'[Root] = "UP"
    BY <1>1, <1>4 DEF TreeInv
  <2>2. ASSUME NEW q \in Procs, NEW s \in Slots, Spare(q, s)
        PROVE  Blank(q, s)' /\ token'[q][s] = NoToken
    <3>1. Blank(q, s) /\ token[q][s] = NoToken
      BY <1>1, <2>2 DEF TreeInv
    <3>2. ~(q \in Children(p) /\ s = "parent")
      BY <2>2, <1>5 DEF Spare
    <3> QED BY <1>7, <3>1, <3>2 DEF Blank
  <2> QED BY <1>1, <1>9, <2>1, <2>2 DEF TreeInv
<1>11. WaveInv(V, F, G)'
  BY WaveFrame
<1>12. DetectsOnlyTermination'
  <2>1. WorkLeft' = WorkLeft
    BY DEF WorkLeft, work
  <2>2. (\E q \in Procs : terminated'[q]) => \E q \in Procs : terminated[q]
    BY <1>2, <1>4, <1>6
  <2> QED BY <2>1, <2>2 DEF IInv, DetectsOnlyTermination
<1> QED BY <1>8, <1>10, <1>11, <1>12, VoteStep

LEMMA RelayInv ==
  ASSUME NEW V, NEW F, NEW G, IInv(V, F, G), SignalComms, NEW p \in Procs, Relay(p)
  PROVE  IInv(V, F, G)'
<1>1. /\ p \in Procs \ {Root} /\ ~terminated[p] /\ HasVerdict(p)
      /\ terminated' = [terminated EXCEPT ![p] = Verdict(p)]
      /\ wire' = wire \cup PutDown(p, token[p]["parent"])
      /\ dir' = [dir EXCEPT ![p] = "UP"]
      /\ votes' = IF Verdict(p) THEN votes ELSE Acknowledge(p, {"parent"})
      /\ UNCHANGED <<work, token, last>>
  BY DEF Relay, MayVote, Searching
<1>2. Types
  BY DEF IInv
<1>3. /\ dir' \in [Procs -> {"UP", "DOWN"}] /\ dir'[p] = "UP"
      /\ \A q \in Procs : q # p => dir'[q] = dir[q]
  BY <1>1, <1>2 DEF Types
<1>4. /\ votes' \in [Procs -> [Slots -> Nat]]
      /\ \A q \in Procs, s \in Slots :
           votes'[q][s] = IF q = p /\ s = "parent" /\ ~Verdict(p) THEN 0 ELSE votes[q][s]
  <2>1. CASE Verdict(p)
    BY <1>1, <1>2, <2>1 DEF Types
  <2>2. CASE ~Verdict(p)
    <3>1. {"parent"} \in SUBSET Slots
      BY DEF Slots
    <3> QED BY <1>1, <1>2, <2>2, <3>1, AcknowledgeFacts
  <2> QED BY <2>1, <2>2
<1> QED BY <1>1, <1>3, <1>4, PassDown

LEMMA LeaveInv ==
  ASSUME NEW V, NEW F, NEW G, IInv(V, F, G), SignalComms, NEW p \in Procs, Leave(p)
  PROVE  IInv(V, F, G)'
<1>1. /\ p \in Procs \ {Root} /\ ~terminated[p] /\ HasVerdict(p)
      /\ Children(p) = {} /\ Verdict(p) = TRUE
      /\ terminated' = [terminated EXCEPT ![p] = TRUE]
      /\ UNCHANGED <<work, dir, token, votes, last, wire>>
  <2>1. p \in Procs \ {Root} /\ ~terminated[p] /\ HasVerdict(p)
    BY DEF Leave, MayVote, Searching
  <2>2. Verdict(p) \in BOOLEAN
    BY <2>1, VerdictHeld DEF Verdict, Tokens
  <2> QED BY <2>1, <2>2 DEF Leave
<1>2. Types
  BY DEF IInv
<1>3. terminated' = [terminated EXCEPT ![p] = Verdict(p)]
  BY <1>1
<1>4. wire' = wire \cup PutDown(p, token[p]["parent"])
  BY <1>1 DEF PutDown
<1>5. /\ dir' \in [Procs -> {"UP", "DOWN"}] /\ votes' \in [Procs -> [Slots -> Nat]]
      /\ \A q \in Procs : q # p => dir'[q] = dir[q]
      /\ \A q \in Procs, s \in Slots :
           votes'[q][s] = IF q = p /\ s = "parent" /\ ~Verdict(p) THEN 0 ELSE votes[q][s]
  BY <1>1, <1>2 DEF Types
<1> QED BY <1>1, <1>3, <1>4, <1>5, PassDown

\* When all others have voted, the root's sums are what the wave counted.
LEMMA RootCounts ==
  ASSUME NEW V, NEW F \in [Procs -> Nat], NEW f \in [Procs -> Nat],
         V = Procs \ {Root}, F[Root] = 0,
         \A c \in Procs \ {Root} : c \notin Children(Root) => F[c] = 0
  PROVE  Total(Counted(V, F, f)) = f[Root] + At(F, 2*Root + 1) + At(F, 2*Root + 2)
<1>1. Root \in Procs
  BY NAssumption DEF Root, Procs
<1> DEFINE a == Counted(V, F, f)
           s == f[Root] + At(F, 2*Root + 1) + At(F, 2*Root + 2)
           g == [q \in Procs |-> IF q = Root THEN s ELSE 0]
<1>2. a \in [Procs -> Nat] /\ a[Root] = f[Root]
      /\ \A c \in Procs \ {Root} : a[c] = F[c]
  <2>1. a \in [Procs -> Nat]
    BY CountedType
  <2> QED BY <1>1, <2>1 DEF Counted
<1>3. \A c \in Children(Root) : c \in Procs \ {Root}
  BY <1>1, ChildFacts
<1>4. At(a, 2*Root + 1) = At(F, 2*Root + 1) /\ At(a, 2*Root + 2) = At(F, 2*Root + 2)
  BY <1>2, <1>3 DEF At, Children
<1>5. s \in Nat
  <2>1. \A d \in Nat : At(F, d) \in Nat
    BY NAssumption DEF At, Procs
  <2>2. 2*Root + 1 \in Nat /\ 2*Root + 2 \in Nat /\ f[Root] \in Nat
    BY <1>1 DEF Root
  <2> QED BY <2>1, <2>2
<1>6. s = a[Root] + At(a, 2*Root + 1) + At(a, 2*Root + 2)
  BY <1>2, <1>4
<1> HIDE DEF a, s
<1>7. g \in [Procs -> Nat] /\ g[Root] = s /\ \A q \in Procs : q # Root => g[q] = 0
  BY <1>1, <1>5
<1> HIDE DEF g
<1>8. \A q \in Procs \ Children(Root) : q # Root => g[q] = a[q]
  BY <1>2, <1>7
<1>9. \A c \in Children(Root) : g[c] = 0
  BY <1>3, <1>7
<1>10. g[Root] = a[Root] + At(a, 2*Root + 1) + At(a, 2*Root + 2)
  BY <1>6, <1>7
<1>11. Total(g) = Total(a)
  BY <1>1, <1>2, <1>7, <1>8, <1>9, <1>10, TotalGather
<1>12. Total(g) = g[Root]
  BY <1>1, <1>7, TotalSingle
<1> QED BY <1>7, <1>11, <1>12 DEF a, s

LEMMA DecideInv ==
  ASSUME NEW V, NEW F, NEW G, IInv(V, F, G), SignalComms, Decide
  PROVE  Inv' /\ (terminated'[Root] => ~WorkLeft)
<1>1. PICK s, c, over : s = Spawned(Root) /\ c = Completed(Root) /\ over = Over(s, c)
  OBVIOUS
<1> DEFINE t == [over |-> over, spawned |-> s, completed |-> c]
<1>2. /\ HaveVotes(Root) /\ ~terminated[Root]
      /\ terminated' = [terminated EXCEPT ![Root] = over]
      /\ last' = [spawned |-> s, completed |-> c]
      /\ wire' = wire \cup PutDown(Root, t)
      /\ votes' = IF over THEN votes ELSE Acknowledge(Root, {"left", "right"})
      /\ UNCHANGED <<work, dir, token>>
  BY <1>1 DEF Decide, MayVote, Searching
<1>3. Types /\ TreeInv(V, F, G) /\ WaveInv(V, F, G)
  BY DEF IInv
<1>4. Root \in Procs
  BY NAssumption DEF Root, Procs
<1>5. V = Procs \ {Root}
  BY <1>2, <1>3, AllVoted
<1>6. /\ \A d \in Children(Root) : Voted(d, Root, V, F, G) /\ Msgs(Root, Side(d)) = {}
      /\ s = spawned[Root] + At(F, 2*Root + 1) + At(F, 2*Root + 2)
      /\ c = completed[Root] + At(G, 2*Root + 1) + At(G, 2*Root + 2)
  BY <1>1, <1>2, <1>3, <1>4, VotesHeld
<1>7. ASSUME NEW d \in Procs \ {Root}, d \notin Children(Root)
      PROVE  Waiting(d, Parent(d), V) /\ F[d] = 0 /\ G[d] = 0 /\ Parent(d) # Root
  <2>1. d \in Children(Parent(d)) /\ Parent(d) \in Procs
    BY TreeFacts
  <2>2. Parent(d) # Root /\ Parent(d) \in V
    BY <1>5, <1>7, <2>1
  <2>3. Edge(d, V, F, G)
    BY <1>3 DEF TreeInv
  <2> QED BY <2>2, <2>3 DEF Edge, Idle, Voted, Told, Gone
<1>8. /\ s = Total(Counted(V, F, spawned)) /\ c = Total(Counted(V, G, completed))
  <2>1. F \in [Procs -> Nat] /\ G \in [Procs -> Nat] /\ F[Root] = 0 /\ G[Root] = 0
        /\ spawned \in [Procs -> Nat] /\ completed \in [Procs -> Nat]
    BY <1>3 DEF TreeInv, Types
  <2>2. Total(Counted(V, F, spawned)) = spawned[Root] + At(F, 2*Root + 1) + At(F, 2*Root + 2)
    BY <1>5, <1>7, <2>1, RootCounts
  <2>3. Total(Counted(V, G, completed))
          = completed[Root] + At(G, 2*Root + 1) + At(G, 2*Root + 2)
    BY <1>5, <1>7, <2>1, RootCounts
  <2> QED BY <1>6, <2>2, <2>3
<1>9. /\ s \in Nat /\ c \in Nat /\ s <= Total(spawned) /\ c <= Total(completed)
      /\ Total(spawned) \in Nat /\ Total(completed) \in Nat /\ Total(spawned) <= MaxTasks
      /\ Total(completed) <= Total(spawned) /\ (WorkLeft => Total(completed) < Total(spawned))
  BY <1>3, <1>8, CountedNat, WorkBounds DEF IInv, WaveInv, WorkInv
<1>10. s \in 0..MaxTasks /\ c \in 0..MaxTasks
  BY <1>9, BuildAssumption
<1>11. over \in BOOLEAN /\ t \in Tokens
  <2>1. over \in BOOLEAN
    BY <1>1 DEF Over
  <2> QED BY <1>10, <2>1 DEF Tokens
<1>12. over => ~WorkLeft
  <2>1. WorkLeft => last.completed < s
    BY <1>3, <1>8 DEF WaveInv
  <2>2. over => s = last.completed
    BY <1>1 DEF Over
  <2> QED BY <1>9, <2>1, <2>2
<1>13. terminated'[Root] = over /\ terminated' \in [Procs -> BOOLEAN]
       /\ \A q \in Procs : q # Root => terminated'[q] = terminated[q]
  BY <1>2, <1>3, <1>4, <1>11 DEF Types
<1>14. /\ votes' \in [Procs -> [Slots -> Nat]]
       /\ \A q \in Procs, z \in Slots :
            votes'[q][z] = IF q = Root /\ z \in {"left", "right"} /\ ~over THEN 0 ELSE votes[q][z]
  <2>1. CASE over
    BY <1>2, <1>3, <2>1 DEF Types
  <2>2. CASE ~over
    <3>1. {"left", "right"} \in SUBSET Slots
      BY DEF Slots
    <3> QED BY <1>2, <1>3, <1>4, <2>2, <3>1, AcknowledgeFacts
  <2> QED BY <2>1, <2>2
<1> HIDE DEF t
<1>15. /\ \A d \in Children(Root) :
            Msgs(d, "parent")' = Msgs(d, "parent") \cup {Message(Root, d, "parent", "both", t)}
       /\ \A q, z : ~(q \in Children(Root) /\ z = "parent") => Msgs(q, z)' = Msgs(q, z)
       /\ wire' \subseteq Messages
  BY <1>2, <1>3, <1>4, <1>11, PutDownMsgs DEF Types
<1>16. Types'
  BY <1>2, <1>3, <1>10, <1>13, <1>14, <1>15 DEF Types, work
<1> DEFINE Z == [p \in Procs |-> 0]
<1>17. Z \in [Procs -> Nat] /\ \A p \in Procs : Z[p] = 0
  OBVIOUS
<1>18. /\ Counted({}, Z, spawned) = spawned /\ Counted({}, Z, completed) = completed
  BY <1>3, CountedFresh DEF Types
<1> HIDE DEF Z
<1>19. t.over = over
  BY DEF t
<1>20. ASSUME NEW d \in Procs \ {Root} PROVE Edge(d, {}, Z, Z)'
  <2>1. /\ Parent(d) \in Procs /\ Side(d) \in {"left", "right"} /\ d \in Children(Parent(d))
        /\ Side(d) \in Slots /\ "parent" \in Slots /\ Side(d) # "parent"
    BY TreeFacts DEF Slots
  <2>2. Z[d] = 0 /\ d # Root
    BY <1>17
  <2>3. CASE d \in Children(Root)
    <3>1. Voted(d, Root, V, F, G) /\ Msgs(Root, Side(d)) = {} /\ Parent(d) = Root
      BY <1>4, <1>6, <2>3, ChildFacts
    <3>2. dir'[d] = "DOWN" /\ ~terminated'[d] /\ dir'[Root] = "UP"
      BY <1>2, <1>13, <2>2, <3>1 DEF Voted
    <3>3. Spent(Root, Side(d))'
      <4>1. votes[Root][Side(d)] = 1
        <5>1. votes[Root][Side(d)] > 0
          BY <1>2, <2>3 DEF HaveVotes
        <5> QED BY <3>1, <5>1 DEF Voted, Sent
      <4>2. Msgs(Root, Side(d))' = {}
        BY <1>15, <2>1, <3>1
      <4>3. votes'[Root][Side(d)] = IF over THEN 1 ELSE 0
        BY <1>4, <1>11, <1>14, <2>1, <4>1
      <4> QED BY <1>13, <4>2, <4>3 DEF Spent
    <3>4. Sent(Root, d, "parent", t)'
      <4>1. votes'[d]["parent"] = votes[d]["parent"]
        BY <1>14, <2>1, <2>2
      <4>2. Msgs(d, "parent")' = {Message(Root, d, "parent", "both", t)}
        BY <1>15, <2>3, <3>1 DEF Voted, Blank
      <4> QED BY <3>1, <4>1, <4>2 DEF Voted, Blank, Sent
    <3>5. Told(d, Root, {})'
      BY <1>11, <1>13, <1>19, <3>2, <3>3, <3>4 DEF Told
    <3> QED BY <2>2, <3>1, <3>5 DEF Edge
  <2>4. CASE d \notin Children(Root)
    <3>1. Waiting(d, Parent(d), V) /\ Parent(d) # Root
      BY <1>7, <2>4
    <3>2. /\ dir'[d] = "DOWN" /\ ~terminated'[d]
          /\ dir'[Parent(d)] = "DOWN" /\ ~terminated'[Parent(d)]
      BY <1>2, <1>13, <2>1, <2>2, <3>1 DEF Waiting
    <3>3. Blank(Parent(d), Side(d))' /\ Blank(d, "parent")'
      <4>1. votes'[Parent(d)][Side(d)] = votes[Parent(d)][Side(d)]
            /\ votes'[d]["parent"] = votes[d]["parent"]
        BY <1>14, <2>1, <2>2, <3>1
      <4>2. Msgs(Parent(d), Side(d))' = Msgs(Parent(d), Side(d))
            /\ Msgs(d, "parent")' = Msgs(d, "parent")
        BY <1>15, <2>1, <2>4
      <4> QED BY <3>1, <4>1, <4>2 DEF Waiting, Blank
    <3>4. Waiting(d, Parent(d), {})'
      BY <3>1, <3>2, <3>3 DEF Waiting
    <3> QED BY <2>2, <3>4 DEF Edge
  <2> QED BY <2>3, <2>4
<1>21. TreeInv({}, Z, Z)'
  <2>1. dir'[Root] = "UP"
    BY <1>2, <1>3 DEF TreeInv
  <2>2. ASSUME NEW q \in Procs, NEW z \in Slots, Spare(q, z)
        PROVE  Blank(q, z)' /\ token'[q][z] = NoToken
    <3>1. Blank(q, z) /\ token[q][z] = NoToken
      BY <1>3, <2>2 DEF TreeInv
    <3>2. ~(q \in Children(Root) /\ z = "parent")
      BY <1>4, <2>2, ChildFacts DEF Spare
    <3>3. votes'[q][z] = 0
      BY <1>14, <3>1 DEF Blank
    <3> QED BY <1>2, <1>15, <3>1, <3>2, <3>3 DEF Blank
  <2> QED BY <1>4, <1>17, <1>20, <2>1, <2>2 DEF TreeInv
<1>22. UNCHANGED <<tasks, running, spawned, completed>>
  BY <1>2 DEF work
<1>23. WorkLeft' = WorkLeft
  BY <1>22 DEF WorkLeft
<1>24. WaveInv({}, Z, Z)'
  <2>1. last'.completed = c
    BY <1>2
  <2>2. WorkLeft => c < Total(spawned)
    BY <1>9
  <2>3. /\ Total(Counted({}, Z, spawned))' = Total(spawned) /\ Total(spawned)' = Total(spawned)
        /\ Total(Counted({}, Z, completed))' = Total(completed)
        /\ Total(completed)' = Total(completed)
    BY <1>18, <1>22
  <2> QED BY <1>9, <1>23, <2>1, <2>2, <2>3 DEF WaveInv
<1>25. DetectsOnlyTermination'
  BY <1>12, <1>13, <1>23 DEF IInv, DetectsOnlyTermination
<1>26. IInv({}, Z, Z)'
  BY <1>2, <1>16, <1>21, <1>24, <1>25, VoteStep
<1> QED BY <1>12, <1>13, <1>26 DEF Inv

-----------------------------------------------------------------------------
(***************************************************************************)
(* The theorems.                                                           *)
(***************************************************************************)
LEMMA FrameInv ==
  ASSUME NEW V, NEW F, NEW G, IInv(V, F, G), UNCHANGED vars
  PROVE  IInv(V, F, G)'
<1>1. UNCHANGED <<work, td, wire, last>>
  BY DEF vars, td
<1>2. TreeInv(V, F, G)' /\ WaveInv(V, F, G)'
  BY <1>1, TreeFrame, WaveFrame DEF IInv
<1>3. Types' /\ DetectsOnlyTermination'
  BY <1>1 DEF IInv, Types, DetectsOnlyTermination, WorkLeft, work, td
<1> QED BY <1>1, <1>2, <1>3, VoteStep

LEMMA NextInv ==
  ASSUME SignalComms, Inv, [Next]_vars
  PROVE  Inv'
<1>1. PICK V, F, G : IInv(V, F, G)
  BY DEF Inv
<1>2. ASSUME IInv(V, F, G)' PROVE Inv'
  BY <1>2 DEF Inv
<1>3. CASE Decide
  BY <1>1, <1>3, DecideInv
<1>4. CASE Reset
  BY <1>1, <1>4, ResetInv DEF IInv
<1>5. ASSUME NEW p \in Procs, Get(p) \/ Spawn(p) \/ Finish(p) PROVE Inv'
  BY <1>1, <1>2, <1>5, GetInv, SpawnInv, FinishInv
<1>6. ASSUME NEW p \in Procs, Vote(p) PROVE Inv'
  <2>1. CASE VoteUp(p)
    BY <1>1, <2>1, VoteUpInv
  <2>2. CASE Relay(p)
    BY <1>1, <1>2, <2>2, RelayInv
  <2>3. CASE Leave(p)
    BY <1>1, <1>2, <2>3, LeaveInv
  <2>4. CASE VoteAgain(p)
    BY <1>1, <2>4, VoteAgainInv
  <2> QED BY <1>6, <2>1, <2>2, <2>3, <2>4 DEF Vote
<1>7. ASSUME NEW p \in Procs, NEW v \in Procs, NEW n \in 1..MaxTasks, Steal(p, v, n)
      PROVE  Inv'
  BY <1>1, <1>2, <1>7, StealInv
<1>8. ASSUME NEW m \in wire, Deliver(m) PROVE Inv'
  BY <1>1, <1>2, <1>8, DeliverInv
<1>9. CASE UNCHANGED vars
  BY <1>1, <1>2, <1>9, FrameInv
<1> QED BY <1>3, <1>4, <1>5, <1>6, <1>7, <1>8, <1>9 DEF Next

\* The invariant holds, for any number of processes.
LEMMA InvCorrect ==
  ASSUME SignalComms
  PROVE  Spec => []Inv
<1>1. Inv /\ [Next]_vars => Inv'
  BY NextInv
<1> QED BY <1>1, InitInv, PTL DEF Spec

\* Type correctness: no sum that travels in the tree ever exceeds the number of
\* tasks spawned (td_attempt_vote, termination.c:276-277).
THEOREM SumsStayBounded ==
  ASSUME SignalComms
  PROVE  Spec => []TypeOK
<1>1. Inv => TypeOK
  BY InvType DEF Inv
<1> QED BY <1>1, InvCorrect, PTL

\* No process leaves while a task is queued or running anywhere (td_attempt_vote
\* returns "Non-zero upon termination", termination.c:194).
THEOREM NobodyLeavesEarly ==
  ASSUME SignalComms
  PROVE  Spec => []DetectsOnlyTermination
<1>1. Inv => DetectsOnlyTermination
  BY DEF Inv, IInv
<1> QED BY <1>1, InvCorrect, PTL

\* On every edge of the tree a vote is used before the next one is sent.
THEOREM VotesNeverOvertake ==
  ASSUME SignalComms
  PROVE  Spec => []OneVotePerEdge
<1>1. Inv => OneVotePerEdge
  BY InvOneVote DEF Inv
<1> QED BY <1>1, InvCorrect, PTL

-----------------------------------------------------------------------------
(***************************************************************************)
(* The refinement: every step is one of Quiescence, or changes nothing in  *)
(* it.                                                                     *)
(***************************************************************************)
Detected == {p \in Procs : terminated[p]}

\* A step that tells nobody: work may end, it does not come back.
LEMMA WorkImplements ==
  ASSUME terminated' = terminated, WorkLeft' => WorkLeft
  PROVE  [Detection!Next]_(Detection!vars)
<1>1. Detected' = Detected
  BY DEF Detected
<1>2. WorkLeft \in BOOLEAN /\ WorkLeft' \in BOOLEAN
  BY DEF WorkLeft
<1>3. CASE WorkLeft' = WorkLeft
  BY <1>1, <1>3 DEF Detection!vars, Detected
<1>4. CASE WorkLeft' # WorkLeft
  <2>1. WorkLeft /\ WorkLeft' = FALSE
    BY <1>2, <1>4
  <2>2. Detection!Complete
    BY <1>1, <2>1 DEF Detection!Complete, Detected
  <2> QED BY <2>2 DEF Detection!Next
<1> QED BY <1>3, <1>4

\* A step that tells p, when there is no work.
LEMMA TellImplements ==
  ASSUME Types, Types', NEW p \in Procs, ~terminated[p], ~WorkLeft,
         WorkLeft' = WorkLeft, terminated'[p],
         \A q \in Procs : q # p => terminated'[q] = terminated[q]
  PROVE  Detection!Next
<1>1. Detected' = Detected \cup {p} /\ p \notin Detected
  BY DEF Detected, Types
<1>2. Detection!Detect(p)
  BY <1>1 DEF Detection!Detect, Detected
<1> QED BY <1>2 DEF Detection!Next

LEMMA StepImplements ==
  ASSUME SignalComms, Inv, Inv', [Next]_vars
  PROVE  [Detection!Next]_(Detection!vars)
<1>1. PICK V, F, G : IInv(V, F, G)
  BY DEF Inv
<1>2. Types /\ Types' /\ DetectsOnlyTermination /\ DetectsOnlyTermination'
  BY DEF Inv, IInv
<1>3. ASSUME NEW p \in Procs, UNCHANGED work, ~terminated[p],
             \A q \in Procs : q # p => terminated'[q] = terminated[q]
      PROVE  [Detection!Next]_(Detection!vars)
  <2>1. WorkLeft' = WorkLeft
    BY <1>3 DEF WorkLeft, work
  <2>2. CASE terminated'[p]
    <3>1. ~WorkLeft
      BY <1>2, <2>1, <2>2 DEF DetectsOnlyTermination
    <3> QED BY <1>2, <1>3, <2>1, <2>2, <3>1, TellImplements
  <2>3. CASE ~terminated'[p]
    <3>1. terminated' = terminated
      BY <1>2, <1>3, <2>3 DEF Types
    <3> QED BY <2>1, <3>1, WorkImplements
  <2> QED BY <2>2, <2>3
<1>4. CASE Decide
  <2>1. UNCHANGED work /\ ~terminated[Root] /\ Root \in Procs
        /\ \A q \in Procs : q # Root => terminated'[q] = terminated[q]
    BY <1>2, <1>4, NAssumption DEF Decide, MayVote, Searching, Types, Root, Procs
  <2> QED BY <1>3, <2>1
<1>5. CASE Reset
  <2>1. Detected = Procs /\ Detected' = {}
    BY <1>5 DEF Reset, Detected, All
  <2>2. WorkLeft' \in BOOLEAN
    BY DEF WorkLeft
  <2>3. Detection!Restart
    BY <2>1, <2>2 DEF Detection!Restart, Detected
  <2> QED BY <2>3 DEF Detection!Next
<1>6. ASSUME NEW p \in Procs, Get(p) \/ Spawn(p) \/ Finish(p)
      PROVE  [Detection!Next]_(Detection!vars)
  <2>1. WorkLeft' => WorkLeft
    <3>1. WorkLeft
      BY <1>6 DEF Get, Spawn, Finish, WorkLeft
    <3> QED BY <3>1
  <2>2. terminated' = terminated
    BY <1>6 DEF Get, Spawn, Finish, td
  <2> QED BY <2>1, <2>2, WorkImplements
<1>7. ASSUME NEW p \in Procs, Vote(p) PROVE [Detection!Next]_(Detection!vars)
  <2>1. UNCHANGED work /\ ~terminated[p]
        /\ \A q \in Procs : q # p => terminated'[q] = terminated[q]
    BY <1>2, <1>7 DEF Vote, VoteUp, Relay, Leave, VoteAgain, MayVote, Searching, Types
  <2> QED BY <1>3, <2>1
<1>8. ASSUME NEW p \in Procs, NEW v \in Procs, NEW n \in 1..MaxTasks, Steal(p, v, n)
      PROVE  [Detection!Next]_(Detection!vars)
  <2>1. tasks[v] > 0
    BY <1>2, <1>8, BuildAssumption DEF Steal, Types
  <2>2. WorkLeft /\ terminated' = terminated
    BY <1>8, <2>1 DEF Steal, td, WorkLeft
  <2> QED BY <2>2, WorkImplements
<1>9. ASSUME NEW m \in wire, Deliver(m) PROVE [Detection!Next]_(Detection!vars)
  <2>1. WorkLeft' = WorkLeft /\ terminated' = terminated
    BY <1>9 DEF Deliver, work, WorkLeft
  <2> QED BY <2>1, WorkImplements
<1>10. CASE UNCHANGED vars
  <2>1. WorkLeft' = WorkLeft /\ terminated' = terminated
    BY <1>10 DEF vars, work, td, WorkLeft
  <2> QED BY <2>1, WorkImplements
<1> QED BY <1>4, <1>5, <1>6, <1>7, <1>8, <1>9, <1>10 DEF Next

\* Seen from outside, the detection does what Quiescence allows: work ends, then
\* the processes are told one by one, and only when all have been told does a reset
\* begin anew.
THEOREM DetectionImplemented ==
  ASSUME SignalComms
  PROVE  Spec => ImplementsDetection
<1>1. Init => Detection!Init
  BY DEF Init, All, Detection!Init, WorkLeft
<1>2. Inv /\ Inv' /\ [Next]_vars => [Detection!Next]_(Detection!vars)
  BY StepImplements
<1> QED BY <1>1, <1>2, InvCorrect, PTL DEF Spec, ImplementsDetection, Detection!Spec
=============================================================================
