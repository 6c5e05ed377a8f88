--------------------------- MODULE SchedulerProofs ---------------------------
(***************************************************************************)
(* gtc_process keeps its promise, for every number of processes, every     *)
(* configuration and every number of tasks: the waves decide only when     *)
(* nothing is left, and the parts of gtc_reset never meet a search.        *)
(***************************************************************************)
EXTENDS Scheduler, Lemmas

\* The phases a collection goes through: between two calls of gtc_process the last
\* part of gtc_reset may still run elsewhere, within gtc_process its first part.
Preparing == Outside \cup {"clear_queue"}
Working   == Inside \cup {"left", "td_reset"}
Clearing  == {"clear_td", "td_ready"}
Places    == Outside \cup Inside \cup Resetting \cup {"left"}

SumPairs == [spawned : Nat, completed : Nat]

\* Types, but for the bounds: these follow from the sums below.
Types ==
  /\ conf \in Confs /\ pc \in [Procs -> Places]
  /\ local \in [Procs -> Nat] /\ shared \in [Procs -> Nat] /\ buf \in [Procs -> Nat]
  /\ unreclaimed \in [Procs -> BOOLEAN]
  /\ target \in [Procs -> Procs] /\ lastTarget \in [Procs -> Procs]
  /\ external \in [Procs -> BOOLEAN] /\ terminated \in [Procs -> BOOLEAN]
  /\ spawned \in [Procs -> Nat] /\ completed \in [Procs -> Nat]
  /\ wave \in [voted : SUBSET (Procs \ {Root}), spawned : Nat, completed : Nat]
  /\ last \in SumPairs /\ over \in BOOLEAN

\* Tasks in the keeping of each process.
Pend == [p \in Procs |-> local[p] + shared[p] + buf[p]
                         + IF pc[p] = "run" THEN 1 ELSE 0]

PhaseInv == \/ \A p \in Procs : pc[p] \in Preparing
            \/ \A p \in Procs : pc[p] \in Working
            \/ \A p \in Procs : pc[p] \in Clearing

\* The state of termination detection before its first vote.
Fresh == wave = NewWave /\ last = NoSums /\ over = FALSE

\* Whoever is told leaves; where loads are balanced nobody leaves otherwise.
VerdictInv ==
  /\ (\E p \in Procs : pc[p] \in Preparing \cup {"td_ready"}) => Fresh
  /\ ~conf.stealing => Fresh
  /\ \A p \in Procs : terminated[p] => over /\ pc[p] = "left"
  /\ conf.stealing /\ ~over => \A p \in Procs : pc[p] \notin {"left", "td_reset"}

\* What each process has, where it is.
KeepInv ==
  \A p \in Procs :
    /\ buf[p] > 0 <=> pc[p] = "copy"
    /\ pc[p] \in Searching => conf.stealing
    /\ pc[p] \notin Outside \cup Inside => Pend[p] = 0
    /\ pc[p] \in Outside => completed[p] = 0 /\ spawned[p] = Pend[p]
    /\ pc[p] \in Resetting => completed[p] = 0 /\ spawned[p] = 0
    /\ ~conf.stealing => spawned[p] = completed[p] + Pend[p]

\* While everyone is inside no task is missing; after the verdict there is none.
SumInv ==
  /\ Total(spawned) <= MaxTasks
  /\ (\A p \in Procs : pc[p] \in Inside) => Total(spawned) = Total(completed) + Total(Pend)
  /\ over => \A p \in Procs : Pend[p] = 0

\* The counters that are still to be added to the sums of this wave.
Uncounted(V, f) == [p \in Procs |-> IF p \in V THEN 0 ELSE f[p]]

\* The sums of a wave never exceed the counters.  While there are tasks this wave
\* will count more spawned tasks than the wave before has counted completed ones.
WaveInv ==
  ~over => /\ wave.spawned + Total(Uncounted(wave.voted, spawned)) <= Total(spawned)
           /\ wave.completed + Total(Uncounted(wave.voted, completed)) <= Total(completed)
           /\ Total(Pend) > 0 =>
                wave.spawned + Total(Uncounted(wave.voted, spawned)) > last.completed

\* Whoever has voted has no external work, until it has been through a reset.
ExternalInv ==
  \A p \in Procs : (p \in wave.voted \/ over) /\ pc[p] \in Inside => ~external[p]

IInv == /\ Types /\ PhaseInv /\ VerdictInv /\ KeepInv
        /\ SumInv /\ WaveInv /\ ExternalInv

-----------------------------------------------------------------------------
(***************************************************************************)
(* Sums over the processes, and halves.                                    *)
(***************************************************************************)
LEMMA ProcsBelow == N \in Nat /\ Procs = Below(N) /\ \A f : Total(f) = SumTo(N, f)
BY NAssumption DEF Procs, Below, Total

LEMMA RootProc == Root \in Procs
BY NAssumption DEF Procs, Root

LEMMA TotalType ==
  ASSUME NEW f \in [Procs -> Nat]
  PROVE  Total(f) \in Nat
BY ProcsBelow, SumType

LEMMA TotalUpdate ==
  ASSUME NEW f \in [Procs -> Nat], NEW g \in [Procs -> Nat], NEW p \in Procs,
         \A q \in Procs : q # p => g[q] = f[q]
  PROVE  Total(g) + f[p] = Total(f) + g[p]
BY ProcsBelow, SumUpdate

LEMMA TotalZero ==
  ASSUME NEW f \in [Procs -> Nat], \A p \in Procs : f[p] = 0
  PROVE  Total(f) = 0
BY ProcsBelow, SumZero

LEMMA TotalSingle ==
  ASSUME NEW f \in [Procs -> Nat], NEW p \in Procs,
         \A q \in Procs : q # p => f[q] = 0
  PROVE  Total(f) = f[p]
BY ProcsBelow, SumSingle

LEMMA TotalMember ==
  ASSUME NEW f \in [Procs -> Nat], NEW p \in Procs
  PROVE  f[p] <= Total(f)
BY ProcsBelow, SumMember

\* Something moves from one process to another: the sum stays.
LEMMA TotalMove ==
  ASSUME NEW f \in [Procs -> Nat], NEW g \in [Procs -> Nat], NEW p \in Procs,
         NEW v \in Procs, p # v, NEW n \in Nat,
         g[p] = f[p] + n, f[v] = g[v] + n,
         \A q \in Procs : q # p /\ q # v => g[q] = f[q]
  PROVE  Total(g) = Total(f)
<1> DEFINE h == [f EXCEPT ![p] = g[p]]
<1>1. /\ h \in [Procs -> Nat] /\ h[p] = g[p] /\ h[v] = f[v]
      /\ \A q \in Procs : q # p => h[q] = f[q]
      /\ \A q \in Procs : q # v => g[q] = h[q]
  OBVIOUS
<1> HIDE DEF h
<1>2. Total(h) + f[p] = Total(f) + h[p]
  BY <1>1, TotalUpdate
<1>3. Total(g) + h[v] = Total(h) + g[v]
  BY <1>1, TotalUpdate
<1>4. /\ Total(f) \in Nat /\ Total(g) \in Nat /\ Total(h) \in Nat
      /\ f[p] \in Nat /\ g[p] \in Nat /\ f[v] \in Nat /\ g[v] \in Nat
  BY <1>1, TotalType
<1> QED BY <1>1, <1>2, <1>3, <1>4

LEMMA UncountedType ==
  ASSUME NEW V, NEW f \in [Procs -> Nat]
  PROVE  /\ Uncounted(V, f) \in [Procs -> Nat] /\ Total(Uncounted(V, f)) \in Nat
         /\ \A p \in Procs : Uncounted(V, f)[p] = IF p \in V THEN 0 ELSE f[p]
<1>1. Uncounted(V, f) \in [Procs -> Nat]
  BY DEF Uncounted
<1> QED BY <1>1, TotalType DEF Uncounted

\* p's counter grows by one: the rest of the wave grows by at most that.
LEMMA UncountedGrows ==
  ASSUME NEW V, NEW f \in [Procs -> Nat], NEW g \in [Procs -> Nat], NEW p \in Procs,
         g[p] = f[p] + 1, \A q \in Procs : q # p => g[q] = f[q]
  PROVE  /\ Total(g) = Total(f) + 1
         /\ Total(Uncounted(V, f)) <= Total(Uncounted(V, g))
         /\ Total(Uncounted(V, g)) <= Total(Uncounted(V, f)) + 1
<1> DEFINE uf == Uncounted(V, f)
           ug == Uncounted(V, g)
<1>1. /\ uf \in [Procs -> Nat] /\ Total(uf) \in Nat
      /\ ug \in [Procs -> Nat] /\ Total(ug) \in Nat
      /\ \A q \in Procs : uf[q] = IF q \in V THEN 0 ELSE f[q]
      /\ \A q \in Procs : ug[q] = IF q \in V THEN 0 ELSE g[q]
  BY UncountedType
<1> HIDE DEF uf, ug
<1>2. Total(ug) + uf[p] = Total(uf) + ug[p]
  <2>1. \A q \in Procs : q # p => ug[q] = uf[q]
    BY <1>1
  <2> QED BY <1>1, <2>1, TotalUpdate
<1>3. Total(g) + f[p] = Total(f) + g[p]
  BY TotalUpdate
<1>4. /\ Total(f) \in Nat /\ Total(g) \in Nat /\ f[p] \in Nat
      /\ (uf[p] = 0 /\ ug[p] = 0) \/ (uf[p] = f[p] /\ ug[p] = g[p])
  BY <1>1, TotalType
<1>5. Total(g) = Total(f) + 1 /\ Total(uf) <= Total(ug) /\ Total(ug) <= Total(uf) + 1
  BY <1>1, <1>2, <1>3, <1>4
<1> QED BY <1>5 DEF uf, ug

\* p votes: its counter moves from the rest of the wave into the sums.
LEMMA UncountedVote ==
  ASSUME NEW V, NEW f \in [Procs -> Nat], NEW p \in Procs, p \notin V
  PROVE  Total(Uncounted(V, f)) = Total(Uncounted(V \cup {p}, f)) + f[p]
<1> DEFINE u == Uncounted(V, f)
           w == Uncounted(V \cup {p}, f)
<1>1. /\ u \in [Procs -> Nat] /\ Total(u) \in Nat
      /\ w \in [Procs -> Nat] /\ Total(w) \in Nat
      /\ \A q \in Procs : u[q] = IF q \in V THEN 0 ELSE f[q]
      /\ \A q \in Procs : w[q] = IF q \in V \cup {p} THEN 0 ELSE f[q]
  BY UncountedType
<1> HIDE DEF u, w
<1>2. \A q \in Procs : q # p => w[q] = u[q]
  BY <1>1
<1>3. Total(w) + u[p] = Total(u) + w[p]
  BY <1>1, <1>2, TotalUpdate
<1>4. u[p] = f[p] /\ w[p] = 0 /\ f[p] \in Nat
  BY <1>1
<1>5. Total(u) = Total(w) + f[p]
  BY <1>1, <1>3, <1>4
<1> QED BY <1>5 DEF u, w

LEMMA Halves ==
  ASSUME NEW n \in Nat
  PROVE  /\ Released(n) \in 0..n
         /\ Reacquired(n) \in 0..n /\ (n > 0 => Reacquired(n) > 0)
BY DEF Released, Reacquired

LEMMA BoundType ==
  ASSUME conf \in Confs
  PROVE  MaxTasks \in Nat /\ conf.stealing \in BOOLEAN
BY BoundAssumption, ConfAssumption DEF MaxTasks

LEMMA PendType ==
  ASSUME Types
  PROVE  /\ Pend \in [Procs -> Nat] /\ Total(Pend) \in Nat
         /\ Total(spawned) \in Nat /\ Total(completed) \in Nat
         /\ \A p \in Procs : Pend[p] = local[p] + shared[p] + buf[p]
                                       + IF pc[p] = "run" THEN 1 ELSE 0
<1>1. Pend \in [Procs -> Nat]
  BY DEF Types, Pend
<1> QED BY <1>1, TotalType DEF Types, Pend

-----------------------------------------------------------------------------
(***************************************************************************)
(* Types are preserved.                                                    *)
(***************************************************************************)
LEMMA ProgressType ==
  ASSUME Types, NEW p \in Procs, NEW n \in Nat, Progress(p, n)
  PROVE  /\ local' \in [Procs -> Nat] /\ shared' \in [Procs -> Nat]
         /\ local'[p] + shared'[p] = n + shared[p]
         /\ \A q \in Procs : q # p => local'[q] = local[q] /\ shared'[q] = shared[q]
<1>1. PICK r \in 0..n : /\ local'  = [local EXCEPT ![p] = n - r]
                        /\ shared' = [shared EXCEPT ![p] = shared[p] + r]
  <2>1. Released(n) \in 0..n /\ 0 \in 0..n
    BY Halves
  <2>2. Shares(p, n) \subseteq 0..n
    BY <2>1 DEF Shares
  <2>3. PICK r \in Shares(p, n) : /\ local'  = [local EXCEPT ![p] = n - r]
                                 /\ shared' = [shared EXCEPT ![p] = @ + r]
    BY DEF Progress
  <2> QED BY <2>2, <2>3 DEF Types
<1>2. local \in [Procs -> Nat] /\ shared \in [Procs -> Nat] /\ n - r \in Nat
  BY <1>1 DEF Types
<1>3. local'[p] = n - r /\ shared'[p] = shared[p] + r /\ shared[p] \in Nat /\ r \in Nat
  BY <1>1, <1>2
<1>4. local'[p] + shared'[p] = n + shared[p]
  BY <1>3
<1> QED BY <1>1, <1>2, <1>4

LEMMA ReclaimType ==
  ASSUME Types, NEW p \in Procs, Reclaim(p)
  PROVE  unreclaimed' \in [Procs -> BOOLEAN]
BY DEF Types, Reclaim, Reclaims

LEMMA TargetTypes ==
  ASSUME NEW v \in Procs
  PROVE  /\ Tried(v) \in Procs /\ Kept(v) \in Procs
         /\ v + 1 \in Nat /\ (v + 1) % N \in Procs
BY NAssumption DEF Tried, Kept, Procs

LEMMA AddType == ASSUME Types, NEW p \in Procs, Add(p) PROVE Types'
BY DEF Types, Add, Added, targets, td

LEMMA SetExternalType == ASSUME Types, NEW p \in Procs, SetExternal(p) PROVE Types'
BY DEF Types, SetExternal, queues, targets, counts, td

LEMMA CallProgressType == ASSUME Types, NEW p \in Procs, CallProgress(p) PROVE Types'
<1>1. local[p] \in Nat
  BY DEF Types
<1> QED BY <1>1, ProgressType, ReclaimType DEF Types, CallProgress, targets, counts, td

LEMMA EnterType == ASSUME Types, NEW p \in Procs, Enter(p) PROVE Types'
BY DEF Types, Enter, Goto, queues, targets, counts, td, Places, Outside

LEMMA BarrierType == ASSUME Types, NEW b \in Barriers, Barrier(b) PROVE Types'
<1>1. After(b) \in Places
  BY DEF After, Barriers, Places, Outside, Inside, Resetting
<1> QED BY <1>1 DEF Types, Barrier, All, queues, targets, counts, td

LEMMA GetBufType == ASSUME Types, NEW p \in Procs, GetBuf(p) PROVE Types'
<1>1. local[p] \in Nat /\ FirstTarget(p) \in Procs
  BY RootProc DEF Types, FirstTarget, Root
<1> QED BY <1>1, ProgressType, ReclaimType
        DEF Types, GetBuf, Goto, counts, td, Places, Inside

LEMMA PopHeadType == ASSUME Types, NEW p \in Procs, PopHead(p) PROVE Types'
<1> DEFINE n == IF local[p] = 0 THEN Reacquired(shared[p]) ELSE 0
<1>1. /\ local[p] \in Nat /\ shared[p] \in Nat /\ local[p] + shared[p] > 0
      /\ local'  = [local EXCEPT ![p] = (local[p] + n) - 1]
      /\ shared' = [shared EXCEPT ![p] = shared[p] - n]
  BY DEF Types, PopHead
<1>2. n \in 0..shared[p] /\ local[p] + n > 0 /\ n \in Nat
  <2>1. Reacquired(shared[p]) \in 0..shared[p]
        /\ (shared[p] > 0 => Reacquired(shared[p]) > 0)
    BY <1>1, Halves
  <2> QED BY <1>1, <2>1
<1> HIDE DEF n
<1>3. (local[p] + n) - 1 \in Nat /\ shared[p] - n \in Nat
  BY <1>1, <1>2
<1>4. local' \in [Procs -> Nat] /\ shared' \in [Procs -> Nat]
  BY <1>1, <1>3 DEF Types
<1>5. /\ pc' = [pc EXCEPT ![p] = "run"] /\ target' = [target EXCEPT ![p] = 0]
      /\ UNCHANGED <<conf, unreclaimed, buf, lastTarget, external, counts, td>>
  BY DEF PopHead, Goto
<1> QED BY <1>4, <1>5, RootProc DEF Types, counts, td, Places, Inside, Root

LEMMA PopNothingType == ASSUME Types, NEW p \in Procs, PopNothing(p) PROVE Types'
<1>1. /\ UNCHANGED <<conf, queues, lastTarget, external, counts, td>>
      /\ \/ pc' = [pc EXCEPT ![p] = "search"] /\ UNCHANGED target
         \/ pc' = [pc EXCEPT ![p] = "left"] /\ target' = [target EXCEPT ![p] = 0]
  BY DEF PopNothing, Goto
<1>2. pc' \in [Procs -> Places] /\ target' \in [Procs -> Procs]
  BY <1>1, RootProc DEF Types, Places, Inside, Searching, Root
<1> QED BY <1>1, <1>2 DEF Types, queues, counts, td

LEMMA ReturnType == ASSUME Types, NEW p \in Procs, Return(p) PROVE Types'
BY DEF Types, Return, Goto, queues, targets, td, Places, Inside

LEMMA ClaimType ==
  ASSUME Types, NEW p \in Procs, NEW v \in Procs, NEW n \in 1..MaxTasks, Claim(p, v, n)
  PROVE  Types'
<1>1. n \in Nat /\ shared[v] \in Nat /\ n <= shared[v]
  BY BoundType DEF Types, Claim
<1>2. shared[v] - n \in Nat
  BY <1>1
<1> QED BY <1>1, <1>2
        DEF Types, Claim, Lowered, Goto, counts, td, Places, Inside, Searching

LEMMA StealNothingType ==
  ASSUME Types, NEW p \in Procs, NEW v \in Procs, StealNothing(p, v) PROVE Types'
<1>1. local[p] \in Nat /\ Tried(v) \in Procs
  BY TargetTypes DEF Types
<1> QED BY <1>1, ProgressType, ReclaimType
        DEF Types, StealNothing, Goto, counts, td, Places, Inside, Searching

LEMMA LandType == ASSUME Types, NEW p \in Procs, Land(p) PROVE Types'
<1>1. /\ local[p] + buf[p] \in Nat /\ target[p] \in Procs
      /\ Tried(target[p]) \in Procs /\ Kept(target[p]) \in Procs
  BY TargetTypes DEF Types
<1>2. /\ Progress(p, local[p] + buf[p]) /\ buf' = [buf EXCEPT ![p] = 0]
      /\ pc' = [pc EXCEPT ![p] = "check"]
      /\ target' = [target EXCEPT ![p] = Tried(target[p])]
      /\ lastTarget' = [lastTarget EXCEPT ![p] = Kept(target[p])]
      /\ UNCHANGED <<conf, external, counts, td>>
  BY DEF Land, Goto
<1>3. local' \in [Procs -> Nat] /\ shared' \in [Procs -> Nat]
  BY <1>1, <1>2, ProgressType
<1>4. unreclaimed' \in [Procs -> BOOLEAN]
  <2>1. PICK u \in BOOLEAN : unreclaimed' =
               [unreclaimed EXCEPT ![p] = u, ![target[p]] = conf.kind = "SAWS"]
    BY DEF Land, Reclaims, Types
  <2>2. (conf.kind = "SAWS") \in BOOLEAN
    OBVIOUS
  <2> QED BY <2>1, <2>2 DEF Types
<1> QED BY <1>1, <1>2, <1>3, <1>4 DEF Types, counts, td, Places, Inside, Searching

LEMMA KeepSearchingType == ASSUME Types, NEW p \in Procs, KeepSearching(p) PROVE Types'
BY DEF Types, KeepSearching, Goto, queues, targets, counts, td, Places, Inside, Searching

LEMMA VoteType == ASSUME Types, NEW p \in Procs, Vote(p) PROVE Types'
<1>1. Counted(p) \in SumPairs
  BY DEF Types, Counted, SumPairs
<1>2. /\ p # Root /\ pc' = [pc EXCEPT ![p] = "search"]
      /\ wave' = [voted |-> wave.voted \cup {p}, spawned |-> Counted(p).spawned,
                  completed |-> Counted(p).completed]
      /\ UNCHANGED <<conf, queues, targets, external, counts, terminated, last, over>>
  BY DEF Vote, Goto
<1> QED BY <1>1, <1>2
        DEF Types, SumPairs, queues, targets, counts, Places, Inside, Searching

LEMMA AwaitVotesType == ASSUME Types, NEW p \in Procs, AwaitVotes(p) PROVE Types'
BY DEF Types, AwaitVotes, Goto, queues, targets, counts, td, Places, Inside, Searching

LEMMA DecideType == ASSUME Types, Decide PROVE Types'
<1>1. Counted(Root) \in SumPairs
  BY RootProc DEF Types, Counted, SumPairs
<1>2. NewWave \in [voted : SUBSET (Procs \ {Root}), spawned : Nat, completed : Nat]
  BY DEF NewWave
<1>3. over' \in BOOLEAN
  BY DEF Decide, Over
<1>4. /\ terminated' = [terminated EXCEPT ![Root] = over']
      /\ last' = Counted(Root) /\ wave' = NewWave
      /\ pc' = [pc EXCEPT ![Root] = IF over' THEN "left" ELSE "search"]
      /\ UNCHANGED <<conf, queues, targets, external, counts>>
  BY DEF Decide, Goto
<1> QED BY <1>1, <1>2, <1>3, <1>4
        DEF Types, queues, targets, counts, Places, Inside, Searching

LEMMA HearType == ASSUME Types, NEW p \in Procs, Hear(p) PROVE Types'
BY DEF Types, Hear, Goto, queues, targets, counts, Places, Inside, Searching

LEMMA ResetType ==
  ASSUME Types, NEW p \in Procs, ResetOwn(p) \/ ResetTd(p) \/ ResetQueue(p)
  PROVE  Types'
<1>1. CASE ResetOwn(p)
  <2>1. Kept((p + 1) % N) \in Procs
    BY TargetTypes
  <2> QED BY <1>1, <2>1
          DEF Types, ResetOwn, ResetFirst, Goto, queues, Places, Resetting
<1>2. CASE ResetTd(p)
  BY <1>2 DEF Types, ResetTd, Goto, queues, targets, counts, Places, Resetting,
              NewWave, NoSums, SumPairs
<1>3. CASE ResetQueue(p)
  BY <1>3 DEF Types, ResetQueue, Goto, targets, counts, td, Places, Outside
<1> QED BY <1>1, <1>2, <1>3

-----------------------------------------------------------------------------
(***************************************************************************)
(* The steps that change neither counters nor votes.                       *)
(***************************************************************************)
LEMMA PlaceFacts ==
  /\ \A l \in Outside : l \in Preparing /\ l \notin Inside /\ l \notin Working
                        /\ l \notin Clearing /\ l \notin Resetting /\ l # "run" /\ l # "copy"
                        /\ l # "left" /\ l # "td_reset" /\ l # "td_ready"
  /\ \A l \in Inside : l \in Working /\ l \notin Preparing /\ l \notin Clearing
                       /\ l \notin Outside /\ l \notin Resetting
                       /\ l # "left" /\ l # "td_reset" /\ l # "td_ready"
  /\ \A l \in Preparing : l \in Outside \/ l = "clear_queue"
  /\ Searching \subseteq Inside /\ "run" \in Inside /\ "copy" \in Searching
  /\ \A l \in Preparing : l \notin Working /\ l \notin Clearing
  /\ \A l \in Working : l \notin Clearing
  /\ \A l \in Working : l \in Inside \/ l = "left" \/ l = "td_reset"
  /\ \A l \in Clearing : l \notin Inside /\ l \in Resetting
BY DEF Outside, Inside, Searching, Resetting, Preparing, Working, Clearing

\* (A lemma on a step that moves no task from one process to another or out of the
\* collection says both that IInv is kept and that Pend is.)

\* A step of p that stays on its side of the barriers, keeps its tasks together and
\* announces no external work while inside.
LEMMA MoveStep ==
  ASSUME IInv, Types', NEW p \in Procs, NEW l,
         pc' = [pc EXCEPT ![p] = l],
         \/ pc[p] \in Inside /\ l \in Inside
         \/ pc[p] \in Outside /\ l \in Outside
         \/ l = pc[p],
         Pend' = Pend, UNCHANGED <<conf, counts, td>>,
         \A q \in Procs : q # p => buf'[q] = buf[q],
         (buf'[p] > 0) <=> (l = "copy"),
         l \in Searching => conf.stealing,
         \A q \in Procs : pc'[q] \in Inside /\ external'[q] => external[q]
  PROVE  IInv'
<1>1. /\ Types /\ PhaseInv /\ VerdictInv /\ KeepInv /\ SumInv /\ WaveInv /\ ExternalInv
      /\ pc \in [Procs -> Places]
  BY DEF IInv, Types
<1>2. \A q \in Procs : /\ pc'[q] = IF q = p THEN l ELSE pc[q]
                       /\ pc'[q] \in Inside <=> pc[q] \in Inside
                       /\ pc'[q] \in Outside <=> pc[q] \in Outside
                       /\ pc'[q] \notin Inside \cup Outside => pc'[q] = pc[q]
  BY <1>1, PlaceFacts
<1>3. \A q \in Procs : /\ pc'[q] \in Working <=> pc[q] \in Working
                       /\ pc'[q] \in Preparing <=> pc[q] \in Preparing
                       /\ pc'[q] \in Clearing <=> pc[q] \in Clearing
                       /\ pc'[q] \in Resetting <=> pc[q] \in Resetting
                       /\ pc'[q] = "left" <=> pc[q] = "left"
                       /\ pc'[q] = "td_reset" <=> pc[q] = "td_reset"
                       /\ pc'[q] = "td_ready" <=> pc[q] = "td_ready"
  BY <1>2, PlaceFacts
<1>4. UNCHANGED <<conf, spawned, completed, terminated, wave, last, over>>
  BY DEF counts, td
<1>5. PhaseInv'
  BY <1>1, <1>3 DEF PhaseInv
<1>6. VerdictInv'
  BY <1>1, <1>3, <1>4 DEF VerdictInv, Fresh, NewWave, NoSums
<1>7. KeepInv'
  <2> SUFFICES ASSUME NEW q \in Procs
               PROVE  KeepInv!(q)'
    BY DEF KeepInv
  <2>1. KeepInv!(q)
    BY <1>1 DEF KeepInv
  <2>2. (buf'[q] > 0 <=> pc'[q] = "copy") /\ (pc'[q] \in Searching => conf'.stealing)
    BY <1>2, <1>4, <2>1
  <2> QED BY <1>2, <1>3, <1>4, <2>1, <2>2
<1>8. SumInv'
  BY <1>1, <1>2, <1>4 DEF SumInv, Total, MaxTasks
<1>9. WaveInv'
  BY <1>1, <1>4 DEF WaveInv, Total, Uncounted
<1>10. ExternalInv'
  BY <1>1, <1>2, <1>4 DEF ExternalInv
<1> QED BY <1>5, <1>6, <1>7, <1>8, <1>9, <1>10 DEF IInv

\* Tasks that move within a queue, or between the queue and the task that runs.
LEMMA PendSame ==
  ASSUME Types, Types', NEW p \in Procs,
         \A q \in Procs : q # p => /\ local'[q] = local[q] /\ shared'[q] = shared[q]
                                   /\ buf'[q] = buf[q] /\ pc'[q] = pc[q],
         local'[p] + shared'[p] + buf'[p] + (IF pc'[p] = "run" THEN 1 ELSE 0)
           = local[p] + shared[p] + buf[p] + (IF pc[p] = "run" THEN 1 ELSE 0)
  PROVE  Pend' = Pend
BY DEF Types, Pend

LEMMA EnterInv == ASSUME IInv, NEW p \in Procs, Enter(p) PROVE IInv' /\ Pend' = Pend
<1>1. /\ Types /\ Types' /\ KeepInv
      /\ pc[p] = "idle" /\ pc' = [pc EXCEPT ![p] = "process"]
      /\ UNCHANGED <<conf, local, shared, buf, external, counts, td>>
  BY EnterType DEF IInv, Enter, Goto, queues
<1>2. pc \in [Procs -> Places] /\ buf \in [Procs -> Nat]
  BY <1>1 DEF Types
<1>3. Pend' = Pend
  BY <1>1, <1>2, PendSame
<1>4. /\ "idle" \in Outside /\ "process" \in Outside /\ "process" \notin Searching
      /\ ~(buf[p] > 0)
  BY <1>1 DEF KeepInv, Outside, Searching
<1> QED BY <1>1, <1>3, <1>4, MoveStep

LEMMA SetExternalInv ==
  ASSUME IInv, NEW p \in Procs, SetExternal(p)
  PROVE  IInv' /\ Pend' = Pend
<1>1. /\ Types /\ Types' /\ KeepInv
      /\ external' = [external EXCEPT ![p] = ~external[p]]
      /\ ~external[p] => pc[p] = "idle"
      /\ UNCHANGED <<conf, pc, local, shared, buf, counts, td>>
  BY SetExternalType DEF IInv, SetExternal, queues
<1>2. pc \in [Procs -> Places] /\ external \in [Procs -> BOOLEAN]
  BY <1>1 DEF Types
<1>3. Pend' = Pend
  BY <1>1, PendSame
<1>4. pc' = [pc EXCEPT ![p] = pc[p]]
  BY <1>1, <1>2
<1>5. \A q \in Procs : pc'[q] \in Inside /\ external'[q] => external[q]
  BY <1>1, <1>2, PlaceFacts DEF Outside
<1>6. (buf'[p] > 0 <=> pc[p] = "copy") /\ (pc[p] \in Searching => conf.stealing)
  BY <1>1 DEF KeepInv
<1> QED BY <1>1, <1>3, <1>4, <1>5, <1>6, MoveStep

\* Steps of p inside gtc_process, in its own queue.
LEMMA InsideStep ==
  ASSUME IInv, Types', NEW p \in Procs, NEW l \in Inside,
         pc[p] \in Inside, pc[p] # "copy", l # "copy",
         pc' = [pc EXCEPT ![p] = l], Pend' = Pend,
         UNCHANGED <<conf, counts, td, buf, external>>,
         l \in Searching => conf.stealing
  PROVE  IInv'
<1>1. ~(buf[p] > 0)
  BY DEF IInv, KeepInv
<1> QED BY <1>1, MoveStep

LEMMA CallProgressInv ==
  ASSUME IInv, NEW p \in Procs, CallProgress(p)
  PROVE  IInv' /\ Pend' = Pend
<1>1. /\ Types /\ Types' /\ KeepInv /\ pc[p] \in {"idle", "run"}
      /\ Progress(p, local[p])
      /\ UNCHANGED <<conf, pc, buf, external, counts, td>>
  BY CallProgressType DEF IInv, CallProgress
<1>2. pc \in [Procs -> Places] /\ local[p] \in Nat
  BY <1>1 DEF Types
<1>3. Pend' = Pend
  BY <1>1, <1>2, ProgressType, PendSame
<1>4. pc' = [pc EXCEPT ![p] = pc[p]]
  BY <1>1, <1>2
<1>5. (buf'[p] > 0 <=> pc[p] = "copy") /\ (pc[p] \in Searching => conf.stealing)
  BY <1>1 DEF KeepInv
<1> QED BY <1>1, <1>3, <1>4, <1>5, MoveStep

LEMMA GetBufInv == ASSUME IInv, NEW p \in Procs, GetBuf(p) PROVE IInv' /\ Pend' = Pend
<1>1. /\ Types /\ Types' /\ pc[p] = "get" /\ pc' = [pc EXCEPT ![p] = "pop"]
      /\ Progress(p, local[p]) /\ UNCHANGED <<conf, buf, external, counts, td>>
  BY GetBufType DEF IInv, GetBuf, Goto
<1>2. pc \in [Procs -> Places] /\ local[p] \in Nat
  BY <1>1 DEF Types
<1>3. Pend' = Pend
  BY <1>1, <1>2, ProgressType, PendSame
<1>4. "get" \in Inside /\ "pop" \in Inside /\ "pop" \notin Searching
  BY DEF Inside, Searching
<1> QED BY <1>1, <1>3, <1>4, InsideStep

LEMMA PopHeadInv == ASSUME IInv, NEW p \in Procs, PopHead(p) PROVE IInv' /\ Pend' = Pend
<1> DEFINE n == IF local[p] = 0 THEN Reacquired(shared[p]) ELSE 0
<1>1. /\ Types /\ Types' /\ pc[p] = "pop" /\ pc' = [pc EXCEPT ![p] = "run"]
      /\ local'  = [local EXCEPT ![p] = (local[p] + n) - 1]
      /\ shared' = [shared EXCEPT ![p] = shared[p] - n]
      /\ UNCHANGED <<conf, buf, external, counts, td>>
  BY PopHeadType DEF IInv, PopHead, Goto
<1>2. /\ pc \in [Procs -> Places] /\ local \in [Procs -> Nat] /\ shared \in [Procs -> Nat]
      /\ buf \in [Procs -> Nat] /\ n \in Nat
  BY <1>1, Halves DEF Types
<1> HIDE DEF n
<1>3. local'[p] + shared'[p] + buf'[p] + 1 = local[p] + shared[p] + buf[p]
  BY <1>1, <1>2
<1>4. Pend' = Pend
  BY <1>1, <1>2, <1>3, PendSame
<1>5. "pop" \in Inside /\ "run" \in Inside /\ "run" \notin Searching
  BY DEF Inside, Searching
<1> QED BY <1>1, <1>4, <1>5, InsideStep

LEMMA StealNothingInv ==
  ASSUME IInv, NEW p \in Procs, NEW v \in Procs, StealNothing(p, v)
  PROVE  IInv' /\ Pend' = Pend
<1>1. /\ Types /\ Types' /\ KeepInv /\ pc[p] = "search"
      /\ pc' = [pc EXCEPT ![p] = "check"]
      /\ Progress(p, local[p]) /\ UNCHANGED <<conf, buf, external, counts, td>>
  BY StealNothingType DEF IInv, StealNothing, Goto
<1>2. pc \in [Procs -> Places] /\ local[p] \in Nat
  BY <1>1 DEF Types
<1>3. Pend' = Pend
  BY <1>1, <1>2, ProgressType, PendSame
<1>4. "search" \in Searching /\ "search" \in Inside /\ "check" \in Inside
  BY DEF Inside, Searching
<1>5. conf.stealing
  BY <1>1, <1>4 DEF KeepInv
<1> QED BY <1>1, <1>3, <1>4, <1>5, InsideStep

\* The stolen tasks leave the buffer for the queue.
LEMMA LandInv == ASSUME IInv, NEW p \in Procs, Land(p) PROVE IInv' /\ Pend' = Pend
<1>1. /\ Types /\ Types' /\ KeepInv /\ pc[p] = "copy"
      /\ pc' = [pc EXCEPT ![p] = "check"]
      /\ Progress(p, local[p] + buf[p]) /\ buf' = [buf EXCEPT ![p] = 0]
      /\ UNCHANGED <<conf, external, counts, td>>
  BY LandType DEF IInv, Land, Goto
<1>2. /\ pc \in [Procs -> Places] /\ buf \in [Procs -> Nat]
      /\ local[p] \in Nat /\ shared[p] \in Nat /\ local[p] + buf[p] \in Nat
  BY <1>1 DEF Types
<1>3. local'[p] + shared'[p] = (local[p] + buf[p]) + shared[p]
      /\ \A q \in Procs : q # p => local'[q] = local[q] /\ shared'[q] = shared[q]
  BY <1>1, <1>2, ProgressType
<1>4. local'[p] \in Nat /\ shared'[p] \in Nat
  BY <1>1 DEF Types
<1>5. Pend' = Pend
  <2>1. local'[p] + shared'[p] + buf'[p] = local[p] + shared[p] + buf[p]
    BY <1>1, <1>2, <1>3, <1>4
  <2> QED BY <1>1, <1>2, <1>3, <1>4, <2>1, PendSame
<1>6. "copy" \in Searching /\ "copy" \in Inside /\ "check" \in Inside
  BY DEF Inside, Searching
<1>7. conf.stealing /\ ~(buf'[p] > 0) /\ \A q \in Procs : q # p => buf'[q] = buf[q]
  BY <1>1, <1>2, <1>6 DEF KeepInv
<1> QED BY <1>1, <1>5, <1>6, <1>7, MoveStep

\* Steps that only go on searching.
LEMMA SearchInv ==
  ASSUME IInv, NEW p \in Procs, NEW l \in {"pop", "search"},
         pc[p] \in {"pop", "check"}, pc' = [pc EXCEPT ![p] = l],
         l = "search" => conf.stealing,
         UNCHANGED <<conf, queues, target, lastTarget, external, counts, td>>
  PROVE  IInv' /\ Pend' = Pend
<1>1. Types /\ pc \in [Procs -> Places] /\ UNCHANGED <<local, shared, buf>>
  BY DEF IInv, Types, queues
<1>2. Types'
  BY <1>1 DEF Types, queues, counts, td, Places, Inside, Searching
<1>3. Pend' = Pend
  BY <1>1, <1>2, PendSame
<1>4. l \in Inside /\ pc[p] \in Inside /\ (l \in Searching => l = "search")
  BY DEF Inside, Searching
<1> QED BY <1>1, <1>2, <1>3, <1>4, InsideStep

LEMMA CheckStealing ==
  ASSUME IInv, NEW p \in Procs, pc[p] = "check"
  PROVE  conf.stealing /\ pc[p] \in Inside
BY DEF IInv, KeepInv, Searching, Inside

LEMMA KeepSearchingInv ==
  ASSUME IInv, NEW p \in Procs, KeepSearching(p)
  PROVE  IInv' /\ Pend' = Pend
<1>1. PICK l \in {"pop", "search"} : pc' = [pc EXCEPT ![p] = l]
  BY DEF KeepSearching, Goto
<1>2. pc[p] = "check" /\ UNCHANGED <<conf, queues, target, lastTarget, external, counts, td>>
  BY DEF KeepSearching, targets
<1> QED BY <1>1, <1>2, CheckStealing, SearchInv

LEMMA AwaitVotesInv ==
  ASSUME IInv, NEW p \in Procs, AwaitVotes(p)
  PROVE  IInv' /\ Pend' = Pend
<1>1. /\ pc' = [pc EXCEPT ![p] = "search"] /\ pc[p] = "check"
      /\ UNCHANGED <<conf, queues, target, lastTarget, external, counts, td>>
  BY DEF AwaitVotes, targets, Goto
<1> QED BY <1>1, CheckStealing, SearchInv

-----------------------------------------------------------------------------
(***************************************************************************)
(* Tasks are added, stolen and completed.                                  *)
(***************************************************************************)
\* While there are tasks and they are balanced, nobody has left.
LEMMA AllInside ==
  ASSUME IInv, NEW p \in Procs, pc[p] \in Inside, conf.stealing, ~over
  PROVE  \A q \in Procs : pc[q] \in Inside
<1>1. pc[p] \in Working /\ pc[p] \notin Preparing /\ pc[p] \notin Clearing
  BY PlaceFacts
<1>2. \A q \in Procs : pc[q] \in Working
  BY <1>1 DEF IInv, PhaseInv
<1>3. \A q \in Procs : pc[q] # "left" /\ pc[q] # "td_reset"
  BY DEF IInv, VerdictInv
<1> QED BY <1>2, <1>3, PlaceFacts

LEMMA BusyRuns ==
  ASSUME IInv, NEW p \in Procs, Pend[p] > 0
  PROVE  ~over
<1>1. Pend[p] # 0
  OBVIOUS
<1> QED BY <1>1 DEF IInv, SumInv

LEMMA RunBusy ==
  ASSUME IInv, NEW p \in Procs, pc[p] = "run"
  PROVE  Pend[p] > 0
<1>1. Pend[p] = local[p] + shared[p] + buf[p] + 1
  BY PendType DEF IInv
<1>2. local[p] \in Nat /\ shared[p] \in Nat /\ buf[p] \in Nat
  BY DEF IInv, Types
<1> QED BY <1>1, <1>2

\* Before the first vote the waves know of nothing.
LEMMA FreshHolds ==
  ASSUME Types, Fresh, \A q \in Procs : Pend[q] <= spawned[q]
  PROVE  WaveInv /\ ExternalInv
<1>1. /\ wave.voted = {} /\ wave.spawned = 0 /\ wave.completed = 0
      /\ last.completed = 0 /\ over = FALSE
  BY DEF Fresh, NewWave, NoSums
<1>2. spawned \in [Procs -> Nat] /\ completed \in [Procs -> Nat] /\ Pend \in [Procs -> Nat]
  BY PendType DEF Types
<1>3. Uncounted({}, spawned) = spawned /\ Uncounted({}, completed) = completed
  BY <1>2 DEF Uncounted
<1>4. Total(spawned) \in Nat /\ Total(completed) \in Nat
  BY <1>2, TotalType
<1>5. Total(Pend) > 0 => Total(spawned) > 0
  <2> SUFFICES ASSUME Total(Pend) > 0, ~(Total(spawned) > 0) PROVE FALSE
    OBVIOUS
  <2>1. \A q \in Procs : spawned[q] <= Total(spawned)
    BY <1>2, TotalMember
  <2>2. \A q \in Procs : Pend[q] = 0
    <3> TAKE q \in Procs
    <3>1. Pend[q] \in Nat /\ spawned[q] \in Nat /\ Pend[q] <= spawned[q]
      BY <1>2
    <3>2. spawned[q] <= Total(spawned)
      BY <2>1
    <3> QED BY <1>4, <3>1, <3>2
  <2>3. Total(Pend) = 0
    BY <1>2, <2>2, TotalZero
  <2> QED BY <2>3
<1>6. WaveInv
  BY <1>1, <1>3, <1>4, <1>5 DEF WaveInv
<1> QED BY <1>1, <1>6 DEF ExternalInv

\* Nobody has more tasks than it has counted unless they are stolen.
LEMMA PendCounted ==
  ASSUME Types, KeepInv,
         ~conf.stealing \/ \A q \in Procs : pc[q] \in Preparing \cup Clearing
  PROVE  \A q \in Procs : Pend[q] <= spawned[q]
<1> TAKE q \in Procs
<1>1. Pend[q] \in Nat /\ spawned[q] \in Nat /\ completed[q] \in Nat
  BY PendType DEF Types
<1>2. CASE ~conf.stealing
  BY <1>1, <1>2 DEF KeepInv
<1>3. CASE pc[q] \in Preparing \cup Clearing
  <2>1. CASE pc[q] \in Outside
    BY <1>1, <2>1 DEF KeepInv
  <2>2. CASE pc[q] \notin Outside
    <3>1. pc[q] \notin Outside \cup Inside
      BY <1>3, <2>2 DEF Preparing, Clearing, Inside, Searching
    <3>2. Pend[q] = 0
      BY <3>1 DEF KeepInv
    <3> QED BY <1>1, <3>2
  <2> QED BY <2>1, <2>2
<1> QED BY <1>2, <1>3

LEMMA AddInv == ASSUME IInv, NEW p \in Procs, Add(p) PROVE IInv'
<1>1. /\ Types /\ Types' /\ PhaseInv /\ VerdictInv /\ KeepInv /\ SumInv /\ WaveInv
      /\ ExternalInv /\ pc[p] \in {"idle", "run"} /\ Total(spawned) < MaxTasks
      /\ local' = [local EXCEPT ![p] = local[p] + 1]
      /\ spawned' = [spawned EXCEPT ![p] = spawned[p] + 1]
      /\ UNCHANGED <<conf, pc, shared, buf, external, completed, terminated,
                     wave, last, over>>
  BY AddType DEF IInv, Add, Added, td
<1>2. /\ spawned \in [Procs -> Nat] /\ spawned' \in [Procs -> Nat]
      /\ completed \in [Procs -> Nat] /\ local \in [Procs -> Nat]
      /\ Pend \in [Procs -> Nat] /\ Pend' \in [Procs -> Nat]
  <2>1. (Types => Pend \in [Procs -> Nat])'
    BY PendType, PTL
  <2> QED BY <1>1, <2>1, PendType DEF Types
<1>3. /\ spawned'[p] = spawned[p] + 1 /\ \A q \in Procs : q # p => spawned'[q] = spawned[q]
      /\ Pend'[p] = Pend[p] + 1 /\ \A q \in Procs : q # p => Pend'[q] = Pend[q]
  BY <1>1, <1>2 DEF Types, Pend
<1>4. ~over
  <2>1. CASE pc[p] = "idle"
    BY <1>1, <2>1 DEF VerdictInv, Fresh, Preparing, Outside
  <2>2. CASE pc[p] = "run"
    BY <2>2, RunBusy, BusyRuns
  <2> QED BY <1>1, <2>1, <2>2
<1>5. PhaseInv' /\ VerdictInv' /\ ExternalInv'
  BY <1>1 DEF PhaseInv, VerdictInv, ExternalInv, Fresh
<1>6. KeepInv'
  <2> SUFFICES ASSUME NEW q \in Procs PROVE KeepInv!(q)'
    BY DEF KeepInv
  <2>1. KeepInv!(q) /\ (q = p => pc[q] \in Outside \cup Inside /\ pc[q] \notin Resetting)
    BY <1>1 DEF KeepInv, Outside, Inside, Resetting
  <2>2. Pend[q] \in Nat /\ spawned[q] \in Nat /\ completed[q] \in Nat
    BY <1>2
  <2> QED BY <1>1, <1>3, <2>1, <2>2
<1>7. Total(spawned') = Total(spawned) + 1 /\ Total(Pend') = Total(Pend) + 1
      /\ Total(spawned) \in Nat /\ Total(Pend) \in Nat /\ Total(completed) \in Nat
  BY <1>2, <1>3, UncountedGrows, TotalType
<1>8. SumInv'
  <2>1. MaxTasks' = MaxTasks /\ MaxTasks \in Nat
    BY <1>1, BoundType DEF MaxTasks, Types
  <2>2. Total(spawned') <= MaxTasks
    BY <1>1, <1>7, <2>1
  <2>3. (\A q \in Procs : pc[q] \in Inside) => Total(spawned') = Total(completed) + Total(Pend')
    BY <1>1, <1>7 DEF SumInv
  <2>4. /\ Total(spawned)' = Total(spawned') /\ Total(Pend)' = Total(Pend')
        /\ Total(completed)' = Total(completed)
    BY <1>1 DEF Total
  <2> QED BY <1>1, <1>4, <2>1, <2>2, <2>3, <2>4 DEF SumInv
<1>9. WaveInv'
  <2>1. CASE pc[p] = "idle"
    <3>1. Fresh'
      BY <1>1, <2>1 DEF VerdictInv, Fresh, Preparing, Outside, NewWave, NoSums
    <3>2. \A q \in Procs : pc[q] \in Preparing \cup Clearing
      BY <1>1, <2>1 DEF PhaseInv, Preparing, Outside, Working, Inside, Searching, Clearing
    <3>3. (Types /\ KeepInv
           /\ (~conf.stealing \/ \A q \in Procs : pc[q] \in Preparing \cup Clearing)
             => \A q \in Procs : Pend[q] <= spawned[q])'
      BY PendCounted, PTL
    <3>4. (Types /\ Fresh /\ (\A q \in Procs : Pend[q] <= spawned[q]) => WaveInv)'
      BY FreshHolds, PTL
    <3> QED BY <1>1, <1>6, <3>1, <3>2, <3>3, <3>4
  <2>2. CASE pc[p] = "run"
    <3> DEFINE V == wave.voted
               u == Total(Uncounted(V, spawned))
               v == Total(Uncounted(V, spawned'))
    <3>1. /\ u \in Nat /\ v \in Nat /\ u <= v /\ v <= u + 1
      BY <1>2, <1>3, UncountedGrows, UncountedType
    <3>2. /\ wave.spawned + u <= Total(spawned) /\ wave.spawned + u > last.completed
          /\ wave.completed + Total(Uncounted(V, completed)) <= Total(completed)
          /\ wave.spawned \in Nat /\ last.completed \in Nat
      <4>1. Total(Pend) > 0
        <5>1. Pend[p] > 0 /\ Pend[p] <= Total(Pend)
          BY <1>2, <2>2, RunBusy, TotalMember
        <5> QED BY <1>2, <1>7, <5>1
      <4> QED BY <1>1, <1>4, <4>1 DEF WaveInv, Types, SumPairs
    <3> HIDE DEF u, v
    <3>3. wave.spawned + v <= Total(spawned') /\ wave.spawned + v > last.completed
      BY <1>7, <3>1, <3>2
    <3>4. /\ Total(spawned)' = Total(spawned') /\ Total(completed)' = Total(completed)
          /\ Total(Uncounted(wave.voted, spawned))' = v
          /\ Total(Uncounted(wave.voted, completed))' = Total(Uncounted(V, completed))
      BY <1>1 DEF Total, Uncounted, v
    <3> QED BY <1>1, <3>2, <3>3, <3>4 DEF WaveInv
  <2> QED BY <1>1, <2>1, <2>2
<1> QED BY <1>1, <1>5, <1>6, <1>8, <1>9 DEF IInv

\* A task that returns is no longer kept, and is counted.
LEMMA ReturnInv == ASSUME IInv, NEW p \in Procs, Return(p) PROVE IInv'
<1>1. /\ Types /\ Types' /\ PhaseInv /\ VerdictInv /\ KeepInv /\ SumInv /\ WaveInv
      /\ ExternalInv /\ pc[p] = "run" /\ pc' = [pc EXCEPT ![p] = "get"]
      /\ completed' = [completed EXCEPT ![p] = completed[p] + 1]
      /\ UNCHANGED <<conf, local, shared, buf, external, spawned, terminated,
                     wave, last, over>>
  BY ReturnType DEF IInv, Return, Goto, queues, td
<1>2. /\ spawned \in [Procs -> Nat] /\ completed \in [Procs -> Nat]
      /\ completed' \in [Procs -> Nat] /\ pc \in [Procs -> Places]
      /\ Pend \in [Procs -> Nat] /\ Pend' \in [Procs -> Nat]
  <2>1. (Types => Pend \in [Procs -> Nat])'
    BY PendType, PTL
  <2> QED BY <1>1, <2>1, PendType DEF Types
<1>3. /\ completed'[p] = completed[p] + 1
      /\ \A q \in Procs : q # p => completed'[q] = completed[q]
      /\ Pend[p] = Pend'[p] + 1 /\ \A q \in Procs : q # p => Pend'[q] = Pend[q]
  BY <1>1, <1>2 DEF Types, Pend
<1>4. ~over
  BY <1>1, RunBusy, BusyRuns
<1>5. \A q \in Procs : /\ pc'[q] = IF q = p THEN "get" ELSE pc[q]
                       /\ pc'[q] \in Inside <=> pc[q] \in Inside
  BY <1>1, <1>2 DEF Inside
<1>6. PhaseInv' /\ VerdictInv' /\ ExternalInv'
  <2>1. PhaseInv'
    BY <1>1, <1>5 DEF PhaseInv, Preparing, Working, Clearing, Inside, Outside
  <2>2. VerdictInv'
    BY <1>1, <1>5 DEF VerdictInv, Fresh, Preparing, Outside
  <2>3. ExternalInv'
    BY <1>1, <1>5 DEF ExternalInv
  <2> QED BY <2>1, <2>2, <2>3
<1>7. KeepInv'
  <2> SUFFICES ASSUME NEW q \in Procs PROVE KeepInv!(q)'
    BY DEF KeepInv
  <2>1. KeepInv!(q)
    BY <1>1 DEF KeepInv
  <2>2. Pend[q] \in Nat /\ Pend'[q] \in Nat /\ spawned[q] \in Nat /\ completed[q] \in Nat
    BY <1>2
  <2>3. "get" \in Inside /\ "get" \notin Outside /\ "get" \notin Searching
        /\ "get" \notin Resetting
    BY DEF Inside, Outside, Searching, Resetting
  <2> QED BY <1>1, <1>3, <1>5, <2>1, <2>2, <2>3
<1>8. /\ Total(completed') = Total(completed) + 1 /\ Total(Pend) = Total(Pend') + 1
      /\ Total(spawned) \in Nat /\ Total(Pend') \in Nat /\ Total(completed) \in Nat
  BY <1>2, <1>3, UncountedGrows, TotalType
<1>9. /\ Total(spawned)' = Total(spawned) /\ Total(Pend)' = Total(Pend')
      /\ Total(completed)' = Total(completed')
  BY <1>1 DEF Total
<1>10. SumInv'
  <2>1. MaxTasks' = MaxTasks
    BY <1>1 DEF MaxTasks
  <2>2. (\A q \in Procs : pc[q] \in Inside) => Total(spawned) = Total(completed') + Total(Pend')
    BY <1>1, <1>8 DEF SumInv
  <2> QED BY <1>1, <1>4, <1>5, <1>9, <2>1, <2>2 DEF SumInv
<1>11. WaveInv'
  <2> DEFINE V == wave.voted
             u == Total(Uncounted(V, completed))
             v == Total(Uncounted(V, completed'))
  <2>1. u \in Nat /\ v \in Nat /\ v <= u + 1
    BY <1>2, <1>3, UncountedGrows, UncountedType
  <2>2. wave.completed + u <= Total(completed) /\ wave.completed \in Nat
    BY <1>1, <1>4 DEF WaveInv, Types
  <2> HIDE DEF u, v
  <2>3. wave.completed + v <= Total(completed')
    BY <1>8, <2>1, <2>2
  <2>4. Total(Pend') > 0 => Total(Pend) > 0
    BY <1>8
  <2>5. /\ Total(Uncounted(wave.voted, completed))' = v
        /\ Total(Uncounted(wave.voted, spawned))' = Total(Uncounted(V, spawned))
    BY <1>1 DEF Total, Uncounted, v
  <2> QED BY <1>1, <1>4, <1>9, <2>3, <2>4, <2>5 DEF WaveInv
<1> QED BY <1>1, <1>6, <1>7, <1>10, <1>11 DEF IInv

\* A claim moves tasks from the queue of v into the buffer of p.
LEMMA ClaimPend ==
  ASSUME IInv, NEW p \in Procs, NEW v \in Procs, NEW n \in 1..MaxTasks, Claim(p, v, n)
  PROVE  /\ n \in Nat /\ n > 0 /\ n <= Pend[v]
         /\ p = v => Pend' = Pend
         /\ p # v => /\ Pend'[p] = Pend[p] + n /\ Pend[v] = Pend'[v] + n
                     /\ \A q \in Procs : q # p /\ q # v => Pend'[q] = Pend[q]
<1>1. /\ Types /\ Types' /\ KeepInv /\ pc[p] = "search" /\ pc' = [pc EXCEPT ![p] = "copy"]
      /\ n <= shared[v] /\ shared' = [shared EXCEPT ![v] = shared[v] - n]
      /\ buf' = [buf EXCEPT ![p] = n] /\ local' = local
  BY ClaimType DEF IInv, Claim, Lowered, Goto
<1>2. /\ n \in Nat /\ n > 0 /\ pc \in [Procs -> Places]
      /\ local \in [Procs -> Nat] /\ shared \in [Procs -> Nat] /\ buf \in [Procs -> Nat]
  BY <1>1, BoundType DEF Types
<1>3. buf[p] = 0
  <2>1. ~(buf[p] > 0) /\ buf[p] \in Nat
    BY <1>1, <1>2 DEF KeepInv
  <2> QED BY <2>1
<1>4. \A q \in Procs : /\ Pend[q] = local[q] + shared[q] + buf[q]
                                    + (IF pc[q] = "run" THEN 1 ELSE 0)
                       /\ local[q] \in Nat /\ shared[q] \in Nat /\ buf[q] \in Nat
  BY <1>1, <1>2, PendType
<1>5. \A q \in Procs : Pend'[q] = local'[q] + shared'[q] + buf'[q]
                                  + (IF pc'[q] = "run" THEN 1 ELSE 0)
  BY DEF Pend
<1>6. n <= Pend[v]
  BY <1>1, <1>2, <1>4
<1>7. ASSUME p = v PROVE Pend' = Pend
  <2>1. local'[p] + shared'[p] + buf'[p] = local[p] + shared[p] + buf[p]
    BY <1>1, <1>2, <1>3, <1>7
  <2> QED BY <1>1, <1>2, <1>7, <2>1, PendSame
<1>8. ASSUME p # v
      PROVE  /\ Pend'[p] = Pend[p] + n /\ Pend[v] = Pend'[v] + n
             /\ \A q \in Procs : q # p /\ q # v => Pend'[q] = Pend[q]
  <2>1. shared'[p] = shared[p] /\ buf'[p] = n /\ pc'[p] = "copy"
        /\ shared'[v] = shared[v] - n /\ buf'[v] = buf[v] /\ pc'[v] = pc[v]
        /\ \A q \in Procs : q # p /\ q # v =>
              shared'[q] = shared[q] /\ buf'[q] = buf[q] /\ pc'[q] = pc[q]
    BY <1>1, <1>2, <1>8
  <2>2. Pend'[p] = Pend[p] + n
    BY <1>1, <1>2, <1>3, <1>4, <1>5, <2>1
  <2>3. Pend[v] = Pend'[v] + n
    BY <1>1, <1>2, <1>4, <1>5, <2>1
  <2>4. \A q \in Procs : q # p /\ q # v => Pend'[q] = Pend[q]
    BY <1>1, <1>4, <1>5, <2>1
  <2> QED BY <2>2, <2>3, <2>4
<1> QED BY <1>2, <1>6, <1>7, <1>8

LEMMA ClaimInv ==
  ASSUME IInv, NEW p \in Procs, NEW v \in Procs, NEW n \in 1..MaxTasks, Claim(p, v, n)
  PROVE  IInv'
<1>1. /\ Types /\ Types' /\ KeepInv /\ SumInv /\ WaveInv /\ ExternalInv /\ VerdictInv
      /\ pc[p] = "search" /\ pc' = [pc EXCEPT ![p] = "copy"]
      /\ buf' = [buf EXCEPT ![p] = n]
      /\ UNCHANGED <<conf, external, counts, td>>
  BY ClaimType DEF IInv, Claim, Goto
<1>2. /\ pc \in [Procs -> Places] /\ buf \in [Procs -> Nat] /\ n \in Nat /\ n > 0
      /\ "search" \in Inside /\ "copy" \in Inside /\ "search" \in Searching
  BY <1>1, ClaimPend DEF Types, Inside, Searching
<1>3. conf.stealing
  BY <1>1, <1>2 DEF KeepInv
<1>4. CASE p = v
  <2>1. Pend' = Pend
    BY <1>4, ClaimPend
  <2>2. buf'[p] > 0 /\ \A q \in Procs : q # p => buf'[q] = buf[q]
    BY <1>1, <1>2
  <2> QED BY <1>1, <1>2, <1>3, <2>1, <2>2, MoveStep
<1>5. CASE p # v
  <2>1. /\ Pend'[p] = Pend[p] + n /\ Pend[v] = Pend'[v] + n /\ n <= Pend[v]
        /\ \A q \in Procs : q # p /\ q # v => Pend'[q] = Pend[q]
    BY <1>5, ClaimPend
  <2>2. Pend \in [Procs -> Nat] /\ Pend' \in [Procs -> Nat]
    <3>1. (Types => Pend \in [Procs -> Nat])'
      BY PendType, PTL
    <3> QED BY <1>1, <3>1, PendType
  <2>3. ~over
    <3>1. Pend[v] > 0
      BY <1>2, <2>1, <2>2
    <3> QED BY <3>1, BusyRuns
  <2>4. \A q \in Procs : pc[q] \in Inside /\ pc'[q] \in Inside
    <3>1. \A q \in Procs : pc[q] \in Inside
      BY <1>1, <1>2, <1>3, <2>3, AllInside
    <3> QED BY <1>1, <1>2, <3>1
  <2>5. Total(Pend') = Total(Pend)
    BY <1>2, <1>5, <2>1, <2>2, TotalMove
  <2>6. /\ Total(spawned)' = Total(spawned) /\ Total(completed)' = Total(completed)
        /\ Total(Pend)' = Total(Pend) /\ MaxTasks' = MaxTasks
        /\ UNCHANGED <<spawned, completed, terminated, wave, last, over>>
    BY <1>1, <2>5 DEF Total, counts, td, MaxTasks
  <2>7. PhaseInv' /\ VerdictInv'
    <3>1. PhaseInv'
      BY <2>4 DEF PhaseInv, Working
    <3>2. \A q \in Procs : /\ pc'[q] # "left" /\ pc'[q] # "td_reset"
                           /\ pc'[q] \notin Preparing \cup {"td_ready"}
      BY <2>4, PlaceFacts
    <3>3. \A q \in Procs : ~terminated[q]
      BY <1>1, <2>3 DEF VerdictInv
    <3> QED BY <1>1, <1>3, <2>6, <3>1, <3>2, <3>3 DEF VerdictInv
  <2>8. KeepInv'
    <3> SUFFICES ASSUME NEW q \in Procs PROVE KeepInv!(q)'
      BY DEF KeepInv
    <3>1. buf'[q] > 0 <=> pc'[q] = "copy"
      BY <1>1, <1>2 DEF KeepInv
    <3>2. pc'[q] \notin Outside /\ pc'[q] \in Inside /\ pc'[q] \notin Resetting
      BY <2>4, PlaceFacts
    <3> QED BY <1>1, <1>3, <3>1, <3>2
  <2>9. SumInv' /\ WaveInv' /\ ExternalInv'
    <3>1. SumInv'
      BY <1>1, <2>3, <2>4, <2>6 DEF SumInv
    <3>2. WaveInv'
      BY <1>1, <2>6 DEF WaveInv, Total, Uncounted
    <3>3. ExternalInv'
      BY <1>1, <2>4, <2>6 DEF ExternalInv
    <3> QED BY <3>1, <3>2, <3>3
  <2> QED BY <1>1, <2>7, <2>8, <2>9 DEF IInv
<1> QED BY <1>4, <1>5

-----------------------------------------------------------------------------
(***************************************************************************)
(* Votes and verdicts.                                                     *)
(***************************************************************************)
\* Nothing in the queue, nothing taken out of it.
LEMMA IdlePend ==
  ASSUME IInv, NEW p \in Procs, ~(local[p] + shared[p] > 0),
         pc[p] # "run", pc[p] # "copy"
  PROVE  Pend[p] = 0
<1>1. /\ local[p] \in Nat /\ shared[p] \in Nat /\ buf[p] \in Nat /\ ~(buf[p] > 0)
      /\ Pend[p] = local[p] + shared[p] + buf[p] + 0
  BY PendType DEF IInv, Types, KeepInv
<1> QED BY <1>1

\* p ends its search for work.
LEMMA SearchStep ==
  ASSUME IInv, Types', NEW p \in Procs, pc[p] \in {"pop", "check"},
         NEW l \in {"search", "left"}, pc' = [pc EXCEPT ![p] = l],
         l = "search" => conf.stealing, l = "left" => Pend[p] = 0,
         UNCHANGED <<conf, queues, counts>>
  PROVE  Pend' = Pend /\ PhaseInv' /\ KeepInv'
<1>1. /\ Types /\ PhaseInv /\ KeepInv /\ pc \in [Procs -> Places]
      /\ UNCHANGED <<local, shared, buf, spawned, completed>>
  BY DEF IInv, Types, queues, counts
<1>2. /\ pc[p] \in Inside /\ pc[p] \in Working /\ pc[p] \notin Preparing
      /\ pc[p] \notin Clearing /\ l \in Working
      /\ l # "copy" /\ l # "run" /\ pc[p] # "copy" /\ pc[p] # "run"
      /\ l \notin Outside /\ l \notin Resetting /\ (l \in Inside => l = "search")
      /\ (l = "search" => l \in Inside)
      /\ (l \in Searching => l = "search")
  BY DEF Inside, Working, Searching, Preparing, Clearing, Outside, Resetting
<1>3. \A q \in Procs : pc'[q] = IF q = p THEN l ELSE pc[q]
  BY <1>1
<1>4. Pend' = Pend
  BY <1>1, <1>2, <1>3, PendSame
<1>5. PhaseInv'
  <2>1. \A q \in Procs : pc[q] \in Working
    BY <1>1, <1>2 DEF PhaseInv
  <2> QED BY <1>2, <1>3, <2>1 DEF PhaseInv
<1>6. KeepInv'
  <2> SUFFICES ASSUME NEW q \in Procs PROVE KeepInv!(q)'
    BY DEF KeepInv
  <2>1. KeepInv!(q)
    BY <1>1 DEF KeepInv
  <2>2. CASE q # p
    BY <1>1, <1>3, <1>4, <2>1, <2>2
  <2>3. CASE q = p
    BY <1>1, <1>2, <1>3, <1>4, <2>1, <2>3
  <2> QED BY <2>2, <2>3
<1> QED BY <1>4, <1>5, <1>6

LEMMA PopNothingInv ==
  ASSUME IInv, NEW p \in Procs, PopNothing(p)
  PROVE  IInv' /\ Pend' = Pend
<1>1. /\ Types /\ Types' /\ KeepInv /\ SumInv /\ VerdictInv /\ pc[p] = "pop"
      /\ local[p] + shared[p] = 0 /\ pc \in [Procs -> Places]
      /\ UNCHANGED <<conf, queues, lastTarget, external, counts, td>>
  BY PopNothingType DEF IInv, Types, PopNothing
<1>2. CASE conf.stealing /\ ~terminated[p]
  <2>1. pc' = [pc EXCEPT ![p] = "search"] /\ UNCHANGED target
    BY <1>2 DEF PopNothing, Goto
  <2> QED BY <1>1, <1>2, <2>1, SearchInv
<1>3. CASE ~(conf.stealing /\ ~terminated[p])
  <2>1. ~terminated[p]
    BY <1>1 DEF VerdictInv
  <2>2. ~conf.stealing /\ pc' = [pc EXCEPT ![p] = "left"]
    BY <1>3, <2>1 DEF PopNothing, Goto
  <2>3. Pend[p] = 0
    BY <1>1, IdlePend
  <2>4. Pend' = Pend /\ PhaseInv' /\ KeepInv'
    BY <1>1, <2>2, <2>3, SearchStep
  <2>5. Fresh /\ Fresh' /\ UNCHANGED <<terminated, over, spawned, completed>>
    BY <1>1, <2>2 DEF VerdictInv, Fresh, NewWave, NoSums, td, counts
  <2>6. VerdictInv'
    BY <1>1, <2>2, <2>5 DEF VerdictInv, Fresh
  <2>7. SumInv'
    <3>1. /\ Total(spawned)' = Total(spawned) /\ MaxTasks' = MaxTasks
          /\ pc'[p] \notin Inside /\ over' = FALSE
      BY <1>1, <2>2, <2>5 DEF Total, MaxTasks, Inside, Searching, Fresh
    <3> QED BY <1>1, <3>1 DEF SumInv
  <2>8. WaveInv' /\ ExternalInv'
    <3>1. (Types /\ KeepInv
           /\ (~conf.stealing \/ \A q \in Procs : pc[q] \in Preparing \cup Clearing)
             => \A q \in Procs : Pend[q] <= spawned[q])'
      BY PendCounted, PTL
    <3>2. (Types /\ Fresh /\ (\A q \in Procs : Pend[q] <= spawned[q])
             => WaveInv /\ ExternalInv)'
      BY FreshHolds, PTL
    <3> QED BY <1>1, <2>2, <2>4, <2>5, <3>1, <3>2
  <2> QED BY <1>1, <2>4, <2>6, <2>7, <2>8 DEF IInv
<1> QED BY <1>2, <1>3

LEMMA VoteInv == ASSUME IInv, NEW p \in Procs, Vote(p) PROVE IInv' /\ Pend' = Pend
<1>1. /\ Types /\ Types' /\ SumInv /\ VerdictInv /\ WaveInv /\ ExternalInv
      /\ pc[p] = "check" /\ Idle(p) /\ ~over /\ p \notin wave.voted
      /\ pc' = [pc EXCEPT ![p] = "search"]
      /\ wave'.voted = wave.voted \cup {p}
      /\ wave'.spawned = wave.spawned + spawned[p]
      /\ wave'.completed = wave.completed + completed[p]
      /\ UNCHANGED <<conf, queues, external, counts, terminated, last, over>>
  BY VoteType DEF IInv, Vote, Goto, Counted
<1>2. conf.stealing /\ pc[p] \in Inside /\ "search" \in Inside
  BY <1>1, CheckStealing DEF Inside, Searching
<1>3. Pend' = Pend /\ PhaseInv' /\ KeepInv'
  BY <1>1, <1>2, SearchStep
<1>4. \A q \in Procs : pc[q] \in Inside /\ pc'[q] \in Inside
  <2>1. \A q \in Procs : pc[q] \in Inside
    BY <1>1, <1>2, AllInside
  <2> QED BY <1>1, <1>2, <2>1 DEF Types
<1>5. VerdictInv'
  <2>1. \A q \in Procs : /\ pc'[q] # "left" /\ pc'[q] # "td_reset"
                         /\ pc'[q] \notin Preparing \cup {"td_ready"}
    BY <1>4, PlaceFacts
  <2>2. \A q \in Procs : ~terminated[q]
    BY <1>1 DEF VerdictInv
  <2> QED BY <1>1, <1>2, <2>1, <2>2 DEF VerdictInv
<1>6. /\ Total(spawned)' = Total(spawned) /\ Total(completed)' = Total(completed)
      /\ Total(Pend)' = Total(Pend) /\ MaxTasks' = MaxTasks
      /\ UNCHANGED <<spawned, completed>>
  BY <1>1, <1>3 DEF Total, MaxTasks, counts
<1>7. SumInv'
  BY <1>1, <1>4, <1>6 DEF SumInv
<1>8. WaveInv'
  <2> DEFINE V == wave.voted
             s == Total(Uncounted(V, spawned))
             c == Total(Uncounted(V, completed))
             s2 == Total(Uncounted(V \cup {p}, spawned))
             c2 == Total(Uncounted(V \cup {p}, completed))
  <2>1. spawned \in [Procs -> Nat] /\ completed \in [Procs -> Nat]
    BY <1>1 DEF Types
  <2>2. s = s2 + spawned[p] /\ c = c2 + completed[p]
    BY <1>1, <2>1, UncountedVote
  <2>3. s2 \in Nat /\ c2 \in Nat
    BY <2>1, UncountedType
  <2>4. wave.spawned + s <= Total(spawned) /\ wave.completed + c <= Total(completed)
        /\ (Total(Pend) > 0 => wave.spawned + s > last.completed)
    BY <1>1 DEF WaveInv
  <2>5. /\ Total(Uncounted(wave.voted, spawned))' = s2
        /\ Total(Uncounted(wave.voted, completed))' = c2
    BY <1>1, <1>6 DEF Total, Uncounted
  <2>6. /\ wave.spawned \in Nat /\ wave.completed \in Nat
        /\ spawned[p] \in Nat /\ completed[p] \in Nat
    BY <1>1, <2>1 DEF Types
  <2> HIDE DEF s, c, s2, c2
  <2>7. /\ (wave.spawned + spawned[p]) + s2 = wave.spawned + s
        /\ (wave.completed + completed[p]) + c2 = wave.completed + c
    BY <2>2, <2>3, <2>6
  <2> QED BY <1>1, <1>6, <2>4, <2>5, <2>7 DEF WaveInv
<1>9. ExternalInv'
  <2>1. ~external[p]
    BY <1>1 DEF Idle
  <2> QED BY <1>1, <1>4, <2>1 DEF ExternalInv
<1> QED BY <1>1, <1>3, <1>5, <1>7, <1>8, <1>9 DEF IInv

\* All others have voted: only the root's own counter is missing.
LEMMA RootAdds ==
  ASSUME NEW f \in [Procs -> Nat], wave.voted = Procs \ {Root}
  PROVE  Total(Uncounted(wave.voted, f)) = f[Root]
<1> DEFINE u == Uncounted(wave.voted, f)
<1>1. u \in [Procs -> Nat] /\ \A q \in Procs : u[q] = IF q \in wave.voted THEN 0 ELSE f[q]
  BY UncountedType
<1> HIDE DEF u
<1>2. u[Root] = f[Root] /\ \A q \in Procs : q # Root => u[q] = 0
  BY <1>1, RootProc
<1>3. Total(u) = u[Root]
  BY <1>1, <1>2, RootProc, TotalSingle
<1> QED BY <1>2, <1>3 DEF u

\* What the root knows when it decides.
LEMMA RootKnows ==
  ASSUME IInv, Decide
  PROVE  /\ Counted(Root).spawned <= Total(spawned)
         /\ Counted(Root).completed <= Total(completed)
         /\ Total(Pend) > 0 => Counted(Root).spawned > last.completed
         /\ Counted(Root) \in SumPairs
<1>1. Types /\ WaveInv /\ ~over /\ wave.voted = Procs \ {Root}
  BY DEF IInv, Decide
<1>2. spawned \in [Procs -> Nat] /\ completed \in [Procs -> Nat]
  BY <1>1 DEF Types
<1>3. /\ Total(Uncounted(wave.voted, spawned)) = spawned[Root]
      /\ Total(Uncounted(wave.voted, completed)) = completed[Root]
  BY <1>1, <1>2, RootAdds
<1>4. Counted(Root) \in SumPairs
  BY <1>1, RootProc DEF Types, Counted, SumPairs
<1> QED BY <1>1, <1>3, <1>4 DEF WaveInv, Counted

\* The root decides that all is done only when it is.
LEMMA NoTaskLeft ==
  ASSUME IInv, Decide, over'
  PROVE  \A q \in Procs : Pend[q] = 0
<1>1. /\ last.completed = Counted(Root).completed
      /\ Counted(Root).spawned = Counted(Root).completed
      /\ Counted(Root) \in SumPairs
  BY RootKnows DEF Decide, Over
<1>2. ~(Total(Pend) > 0)
  BY <1>1, RootKnows DEF SumPairs
<1> TAKE q \in Procs
<1>3. Pend \in [Procs -> Nat] /\ Total(Pend) \in Nat
  BY PendType DEF IInv
<1>4. Pend[q] <= Total(Pend) /\ Pend[q] \in Nat
  BY <1>3, TotalMember
<1> QED BY <1>2, <1>3, <1>4

LEMMA DecideInv == ASSUME IInv, Decide PROVE IInv' /\ Pend' = Pend
<1>1. /\ Types /\ Types' /\ SumInv /\ VerdictInv /\ WaveInv /\ ExternalInv
      /\ pc[Root] = "check" /\ Idle(Root) /\ ~over /\ wave.voted = Procs \ {Root}
      /\ terminated' = [terminated EXCEPT ![Root] = over']
      /\ last' = Counted(Root) /\ wave' = NewWave
      /\ UNCHANGED <<conf, queues, external, counts>>
  BY DecideType DEF IInv, Decide
<1>2. /\ Root \in Procs /\ conf.stealing /\ pc[Root] \in Inside
      /\ pc \in [Procs -> Places] /\ terminated \in [Procs -> BOOLEAN]
  BY <1>1, RootProc, CheckStealing DEF Types
<1>3. PICK l \in {"search", "left"} : /\ pc' = [pc EXCEPT ![Root] = l]
                                      /\ over' <=> l = "left"
  BY DEF Decide, Goto
<1>4. over' => \A q \in Procs : Pend[q] = 0
  BY NoTaskLeft
<1>5. Pend' = Pend /\ PhaseInv' /\ KeepInv'
  BY <1>1, <1>2, <1>3, <1>4, SearchStep
<1>6. \A q \in Procs : pc[q] \in Inside
  BY <1>1, <1>2, AllInside
<1>7. \A q \in Procs : pc'[q] = IF q = Root THEN l ELSE pc[q]
  BY <1>2, <1>3
<1>8. VerdictInv'
  <2>1. \A q \in Procs : pc'[q] \notin Preparing \cup {"td_ready"} /\ pc'[q] # "td_reset"
                         /\ (pc'[q] = "left" => l = "left")
    <3>1. "left" \notin Preparing \cup {"td_ready"} /\ "search" \notin Preparing \cup {"td_ready"}
      BY DEF Preparing, Outside
    <3> QED BY <1>3, <1>6, <1>7, <3>1, PlaceFacts
  <2>2. \A q \in Procs : terminated'[q] => q = Root /\ over'
    BY <1>1, <1>2 DEF VerdictInv
  <2> QED BY <1>1, <1>2, <1>3, <1>7, <2>1, <2>2 DEF VerdictInv
<1>9. /\ Total(spawned)' = Total(spawned) /\ Total(completed)' = Total(completed)
      /\ Total(Pend)' = Total(Pend) /\ MaxTasks' = MaxTasks
      /\ UNCHANGED <<spawned, completed>>
  BY <1>1, <1>5 DEF Total, MaxTasks, counts
<1>10. Total(spawned) = Total(completed) + Total(Pend)
  BY <1>1, <1>6 DEF SumInv
<1>11. SumInv'
  BY <1>1, <1>4, <1>5, <1>9, <1>10 DEF SumInv
<1>12. WaveInv'
  <2>1. /\ wave'.voted = {} /\ wave'.spawned = 0 /\ wave'.completed = 0
        /\ last'.completed = Counted(Root).completed
    BY <1>1 DEF NewWave
  <2>2. /\ Uncounted(wave.voted, spawned)' = spawned
        /\ Uncounted(wave.voted, completed)' = completed
    BY <1>1, <1>9, <2>1 DEF Uncounted, Types
  <2>3. /\ Total(Uncounted(wave.voted, spawned))' = Total(spawned)
        /\ Total(Uncounted(wave.voted, completed))' = Total(completed)
    BY <2>2 DEF Total
  <2>4. /\ Total(spawned) \in Nat /\ Total(completed) \in Nat /\ Total(Pend) \in Nat
    BY <1>1, PendType
  <2>5. Counted(Root).completed <= Total(completed) /\ Counted(Root).completed \in Nat
    BY RootKnows DEF SumPairs
  <2>6. Total(Pend) > 0 => Total(spawned) > Counted(Root).completed
    BY <1>10, <2>4, <2>5
  <2> QED BY <1>9, <2>1, <2>3, <2>4, <2>6 DEF WaveInv
<1>13. ExternalInv'
  <2>1. over' => \A q \in Procs : ~external[q]
    <3>1. ~external[Root]
      BY <1>1 DEF Idle
    <3>2. \A q \in Procs \ {Root} : ~external[q]
      BY <1>1, <1>6 DEF ExternalInv
    <3> QED BY <3>1, <3>2
  <2>2. wave'.voted = {}
    BY <1>1 DEF NewWave
  <2> QED BY <1>1, <2>1, <2>2 DEF ExternalInv
<1> QED BY <1>1, <1>5, <1>8, <1>11, <1>12, <1>13 DEF IInv

LEMMA HearInv == ASSUME IInv, NEW p \in Procs, Hear(p) PROVE IInv' /\ Pend' = Pend
<1>1. /\ Types /\ Types' /\ SumInv /\ VerdictInv /\ ExternalInv
      /\ pc[p] = "check" /\ over /\ pc \in [Procs -> Places]
      /\ terminated \in [Procs -> BOOLEAN]
      /\ UNCHANGED <<conf, queues, target, lastTarget, external, counts, wave, last, over>>
  BY HearType DEF IInv, Types, Hear, targets
<1>2. conf.stealing /\ pc[p] \in Inside
  BY <1>1, CheckStealing
<1>3. CASE terminated' = terminated /\ pc' = [pc EXCEPT ![p] = "search"]
  <2>1. UNCHANGED td
    BY <1>1, <1>3 DEF td
  <2> QED BY <1>1, <1>2, <1>3, <2>1, SearchInv
<1>4. CASE terminated' = [terminated EXCEPT ![p] = TRUE] /\ pc' = [pc EXCEPT ![p] = "left"]
  <2>1. Pend[p] = 0
    BY <1>1 DEF SumInv
  <2>2. Pend' = Pend /\ PhaseInv' /\ KeepInv'
    BY <1>1, <1>4, <2>1, SearchStep
  <2>3. \A q \in Procs : pc'[q] = IF q = p THEN "left" ELSE pc[q]
    BY <1>1, <1>4
  <2>4. VerdictInv'
    <3>1. \A q \in Procs : pc'[q] \notin Preparing \cup {"td_ready"}
      <4>1. \A q \in Procs : pc[q] \notin Preparing \cup {"td_ready"}
        BY <1>1 DEF VerdictInv, Fresh
      <4> QED BY <2>3, <4>1 DEF Preparing, Outside
    <3>2. \A q \in Procs : terminated'[q] => pc'[q] = "left"
      BY <1>1, <1>4, <2>3 DEF VerdictInv
    <3> QED BY <1>1, <1>2, <3>1, <3>2 DEF VerdictInv
  <2>5. SumInv'
    <3>1. Total(spawned)' = Total(spawned) /\ MaxTasks' = MaxTasks /\ pc'[p] \notin Inside
      BY <1>1, <2>3 DEF Total, MaxTasks, counts, Inside, Searching
    <3> QED BY <1>1, <2>2, <3>1 DEF SumInv
  <2>6. WaveInv' /\ ExternalInv'
    <3>1. \A q \in Procs : pc'[q] \in Inside => pc[q] \in Inside
      BY <1>2, <2>3
    <3> QED BY <1>1, <3>1 DEF WaveInv, ExternalInv
  <2> QED BY <1>1, <2>2, <2>4, <2>5, <2>6 DEF IInv
<1> QED BY <1>3, <1>4 DEF Hear, Goto

-----------------------------------------------------------------------------
(***************************************************************************)
(* Barriers and gtc_reset.                                                 *)
(***************************************************************************)
\* Termination detection is reset, and tasks are where they were counted.
LEMMA FreshAfter ==
  ASSUME Types', KeepInv', Fresh',
         ~conf'.stealing \/ \A q \in Procs : pc'[q] \in Preparing \cup Clearing
  PROVE  WaveInv' /\ ExternalInv'
<1>1. (Types /\ KeepInv
       /\ (~conf.stealing \/ \A q \in Procs : pc[q] \in Preparing \cup Clearing)
         => \A q \in Procs : Pend[q] <= spawned[q])'
  BY PendCounted, PTL
<1>2. (Types /\ Fresh /\ (\A q \in Procs : Pend[q] <= spawned[q])
         => WaveInv /\ ExternalInv)'
  BY FreshHolds, PTL
<1> QED BY <1>1, <1>2

LEMMA InitInv == Init => IInv
<1> SUFFICES ASSUME Init PROVE IInv
  OBVIOUS
<1>1. Types
  BY RootProc DEF Init, Types, All, Root, Places, Outside, NewWave, NoSums, SumPairs
<1>2. \A p \in Procs : /\ pc[p] = "idle" /\ local[p] = 0 /\ shared[p] = 0 /\ buf[p] = 0
                       /\ external[p] = FALSE /\ spawned[p] = 0 /\ completed[p] = 0
                       /\ terminated[p] = FALSE
  BY DEF Init, All
<1>3. Fresh
  BY DEF Init, Fresh
<1>4. \A p \in Procs : Pend[p] = 0
  BY <1>1, <1>2, PendType
<1>5. "idle" \in Outside /\ "idle" \in Preparing
  BY DEF Outside, Preparing
<1>6. PhaseInv /\ VerdictInv
  BY <1>2, <1>3, <1>5 DEF PhaseInv, VerdictInv
<1>7. KeepInv
  BY <1>2, <1>4, <1>5, PlaceFacts DEF KeepInv
<1>8. SumInv
  <2>1. spawned \in [Procs -> Nat] /\ conf \in Confs
    BY <1>1 DEF Types
  <2>2. Total(spawned) = 0 /\ MaxTasks \in Nat
    BY <1>2, <2>1, TotalZero, BoundType
  <2>3. pc[Root] \notin Inside
    BY <1>2, <1>5, RootProc, PlaceFacts
  <2> QED BY <1>3, <2>2, <2>3, RootProc DEF SumInv, Fresh
<1>9. WaveInv /\ ExternalInv
  <2>1. \A q \in Procs : Pend[q] <= spawned[q]
    BY <1>2, <1>4
  <2> QED BY <1>1, <1>3, <2>1, FreshHolds
<1> QED BY <1>1, <1>6, <1>7, <1>8, <1>9 DEF IInv

\* Everyone has counted its own tasks when gtc_process begins.
LEMMA StartInv == ASSUME IInv, Barrier("process") PROVE IInv' /\ Pend' = Pend
<1>1. /\ Types /\ Types' /\ VerdictInv /\ KeepInv /\ SumInv
      /\ pc = All("process") /\ pc' = All("get")
      /\ UNCHANGED <<conf, queues, targets, external, counts, td>>
  BY BarrierType DEF IInv, Barrier, After, Barriers
<1>2. /\ \A q \in Procs : pc[q] = "process" /\ pc'[q] = "get"
      /\ UNCHANGED <<conf, local, shared, buf, spawned, completed, terminated,
                     wave, last, over>>
  BY <1>1 DEF All, queues, counts, td
<1>3. /\ "process" \in Outside /\ "process" \in Preparing /\ "get" \in Inside
      /\ "get" \in Working /\ "get" \notin Searching
  BY DEF Outside, Preparing, Inside, Working, Searching
<1>4. Fresh /\ Fresh'
  BY <1>1, <1>2, <1>3, RootProc DEF VerdictInv, Fresh, NewWave, NoSums
<1>5. Pend' = Pend
  BY <1>1, <1>2 DEF Pend
<1>6. \A q \in Procs : completed[q] = 0 /\ spawned[q] = Pend[q] /\ ~(buf[q] > 0)
  BY <1>1, <1>2, <1>3 DEF KeepInv
<1>7. Pend \in [Procs -> Nat] /\ spawned \in [Procs -> Nat] /\ completed \in [Procs -> Nat]
  BY <1>1, PendType DEF Types
<1>8. PhaseInv' /\ VerdictInv'
  BY <1>1, <1>2, <1>3, <1>4, PlaceFacts DEF PhaseInv, VerdictInv
<1>9. KeepInv'
  <2> SUFFICES ASSUME NEW q \in Procs PROVE KeepInv!(q)'
    BY DEF KeepInv
  <2>1. Pend[q] \in Nat
    BY <1>7
  <2> QED BY <1>2, <1>3, <1>5, <1>6, <2>1, PlaceFacts
<1>10. SumInv'
  <2>1. spawned = Pend
    BY <1>6, <1>7
  <2>2. Total(completed) = 0 /\ Total(Pend) \in Nat
    BY <1>6, <1>7, TotalZero, TotalType
  <2>3. /\ Total(spawned)' = Total(spawned) /\ Total(completed)' = Total(completed)
        /\ Total(Pend)' = Total(Pend) /\ MaxTasks' = MaxTasks
    BY <1>2, <1>5 DEF Total, MaxTasks
  <2> QED BY <1>1, <1>2, <1>5, <2>1, <2>2, <2>3 DEF SumInv
<1>11. WaveInv' /\ ExternalInv'
  <2>1. (Types /\ Fresh /\ (\A q \in Procs : Pend[q] <= spawned[q])
           => WaveInv /\ ExternalInv)'
    BY FreshHolds, PTL
  <2>2. \A q \in Procs : Pend'[q] <= spawned'[q]
    <3> TAKE q \in Procs
    <3>1. Pend'[q] = spawned'[q] /\ Pend[q] \in Nat /\ spawned'[q] = Pend[q]
      BY <1>2, <1>5, <1>6, <1>7
    <3> QED BY <3>1
  <2> QED BY <1>1, <1>4, <2>1, <2>2
<1> QED BY <1>1, <1>5, <1>8, <1>9, <1>10, <1>11 DEF IInv

\* A step of gtc_reset, or one of its barriers: nobody who takes part has tasks.
LEMMA ResetStep ==
  ASSUME IInv, Types', UNCHANGED <<conf, buf>>, Pend' = Pend,
         NEW P \in SUBSET Procs,
         \A q \in P : /\ pc[q] \in Resetting \cup {"left"}
                      /\ pc'[q] \in Resetting \cup {"idle"}
                      /\ completed'[q] = 0 /\ spawned'[q] = 0,
         \A q \in Procs \ P : /\ pc'[q] = pc[q]
                              /\ completed'[q] = completed[q] /\ spawned'[q] = spawned[q]
  PROVE  KeepInv'
<1> SUFFICES ASSUME NEW q \in Procs PROVE KeepInv!(q)'
  BY DEF KeepInv
<1>1. KeepInv!(q) /\ Pend'[q] = Pend[q] /\ conf' = conf /\ buf' = buf
  BY DEF IInv, KeepInv
<1>2. CASE q \notin P
  BY <1>1, <1>2
<1>3. CASE q \in P
  <2>1. /\ pc[q] \notin Outside \cup Inside /\ pc[q] # "copy"
        /\ pc'[q] # "copy" /\ pc'[q] \notin Searching /\ pc'[q] \notin Inside
    BY <1>3 DEF Resetting, Outside, Inside, Searching
  <2>2. Pend'[q] = 0 /\ ~(buf'[q] > 0) /\ completed'[q] = 0 /\ spawned'[q] = 0
    BY <1>1, <1>3, <2>1
  <2> QED BY <2>1, <2>2
<1> QED BY <1>2, <1>3

\* What a step of gtc_reset leaves of the sums.
LEMMA ResetSums ==
  ASSUME IInv, Types', Pend' = Pend, conf' = conf, NEW p \in Procs, pc'[p] \notin Inside,
         over' => over, Total(spawned)' <= Total(spawned)
  PROVE  SumInv'
<1>1. MaxTasks' = MaxTasks /\ MaxTasks \in Nat
  BY BoundType DEF IInv, Types, MaxTasks
<1>2. Total(spawned)' \in Nat /\ Total(spawned) \in Nat /\ Total(spawned) <= MaxTasks
  <2>1. (Types => Total(spawned) \in Nat)'
    BY PendType, PTL
  <2> QED BY <2>1, PendType DEF IInv, SumInv
<1> QED BY <1>1, <1>2 DEF IInv, SumInv

LEMMA ResetOwnInv == ASSUME IInv, NEW p \in Procs, ResetOwn(p) PROVE IInv' /\ Pend' = Pend
<1>1. /\ Types /\ Types' /\ PhaseInv /\ VerdictInv /\ ExternalInv /\ pc[p] = "left"
      /\ pc' = [pc EXCEPT ![p] = "td_reset"]
      /\ spawned' = [spawned EXCEPT ![p] = 0] /\ completed' = [completed EXCEPT ![p] = 0]
      /\ terminated' = [terminated EXCEPT ![p] = FALSE]
      /\ external' = [external EXCEPT ![p] = FALSE]
      /\ UNCHANGED <<conf, local, shared, buf, wave, last, over>>
  BY ResetType DEF IInv, ResetOwn, ResetFirst, Goto, queues
<1>2. /\ pc \in [Procs -> Places] /\ spawned \in [Procs -> Nat]
      /\ completed \in [Procs -> Nat] /\ terminated \in [Procs -> BOOLEAN]
      /\ external \in [Procs -> BOOLEAN]
  BY <1>1 DEF Types
<1>3. /\ \A q \in Procs : pc'[q] = IF q = p THEN "td_reset" ELSE pc[q]
      /\ "left" \notin Preparing \cup Clearing /\ "td_reset" \in Working
      /\ "td_reset" \in Resetting /\ "td_reset" \notin Inside
  BY <1>1, <1>2 DEF Preparing, Clearing, Outside, Working, Resetting, Inside, Searching
<1>4. \A q \in Procs : pc[q] \in Working
  BY <1>1, <1>3 DEF PhaseInv
<1>5. PhaseInv'
  BY <1>3, <1>4 DEF PhaseInv
<1>6. Pend' = Pend
  BY <1>1, <1>3, PendSame
<1>7. KeepInv'
  <2>1. \A q \in {p} : /\ pc[q] \in Resetting \cup {"left"}
                       /\ pc'[q] \in Resetting \cup {"idle"}
                       /\ completed'[q] = 0 /\ spawned'[q] = 0
    BY <1>1, <1>2, <1>3
  <2>2. \A q \in Procs \ {p} : pc'[q] = pc[q] /\ completed'[q] = completed[q]
                               /\ spawned'[q] = spawned[q]
    BY <1>1, <1>2, <1>3
  <2>3. {p} \in SUBSET Procs
    OBVIOUS
  <2> QED BY <1>1, <1>6, <2>1, <2>2, <2>3, ResetStep
<1>8. SumInv'
  <2>1. spawned' \in [Procs -> Nat] /\ spawned'[p] = 0 /\ spawned[p] \in Nat
        /\ \A q \in Procs : q # p => spawned'[q] = spawned[q]
    BY <1>1, <1>2
  <2>2. Total(spawned') + spawned[p] = Total(spawned) + spawned'[p]
    BY <1>2, <2>1, TotalUpdate
  <2>3. Total(spawned') \in Nat /\ Total(spawned) \in Nat
    BY <1>2, <2>1, TotalType
  <2>4. Total(spawned)' = Total(spawned')
    BY DEF Total
  <2>5. Total(spawned)' <= Total(spawned)
    BY <2>1, <2>2, <2>3, <2>4
  <2> QED BY <1>1, <1>3, <1>6, <2>5, ResetSums
<1>9. conf.stealing => over
  BY <1>1 DEF VerdictInv
<1>10. VerdictInv'
  <2>1. \A q \in Procs : pc'[q] \notin Preparing \cup {"td_ready"}
    BY <1>3, <1>4, PlaceFacts DEF Preparing, Outside
  <2>2. \A q \in Procs : terminated'[q] => over /\ pc'[q] = "left"
    BY <1>1, <1>2, <1>3 DEF VerdictInv
  <2>3. ~conf.stealing => Fresh'
    BY <1>1 DEF VerdictInv, Fresh, NewWave, NoSums
  <2> QED BY <1>1, <1>9, <2>1, <2>2, <2>3 DEF VerdictInv
<1>11. WaveInv' /\ ExternalInv'
  <2>1. CASE over
    BY <1>1, <1>2, <1>3, <2>1 DEF WaveInv, ExternalInv
  <2>2. CASE ~over
    <3>1. ~conf'.stealing /\ Fresh'
      BY <1>1, <1>9, <2>2, <1>10 DEF VerdictInv
    <3> QED BY <1>1, <1>7, <3>1, FreshAfter
  <2> QED BY <2>1, <2>2
<1> QED BY <1>1, <1>5, <1>6, <1>7, <1>8, <1>10, <1>11 DEF IInv

\* Nobody has been told, where everyone has left: the fields are reset then.
LEMMA NoVerdict ==
  ASSUME IInv, \A q \in Procs : pc[q] # "left"
  PROVE  \A q \in Procs : ~terminated[q]
BY DEF IInv, VerdictInv

LEMMA ResetTdInv == ASSUME IInv, NEW p \in Procs, ResetTd(p) PROVE IInv' /\ Pend' = Pend
<1>1. /\ Types /\ Types' /\ PhaseInv /\ KeepInv /\ pc[p] = "clear_td"
      /\ pc' = [pc EXCEPT ![p] = "td_ready"] /\ Fresh'
      /\ UNCHANGED <<conf, local, shared, buf, external, spawned, completed, terminated>>
  BY ResetType DEF IInv, ResetTd, Goto, queues, counts, Fresh
<1>2. pc \in [Procs -> Places]
  BY <1>1 DEF Types
<1>3. /\ \A q \in Procs : pc'[q] = IF q = p THEN "td_ready" ELSE pc[q]
      /\ "clear_td" \notin Preparing \cup Working /\ "td_ready" \in Clearing
      /\ "clear_td" \in Resetting /\ "td_ready" \in Resetting /\ "td_ready" \notin Inside
      /\ "left" \notin Clearing /\ "td_reset" \notin Clearing
  BY <1>1, <1>2
     DEF Preparing, Clearing, Outside, Working, Resetting, Inside, Searching
<1>4. \A q \in Procs : pc[q] \in Clearing
  BY <1>1, <1>3 DEF PhaseInv
<1>5. \A q \in Procs : pc'[q] \in Clearing
  BY <1>3, <1>4
<1>6. Pend' = Pend
  BY <1>1, <1>3, PendSame
<1>7. KeepInv'
  <2>1. \A q \in {p} : /\ pc[q] \in Resetting \cup {"left"}
                       /\ pc'[q] \in Resetting \cup {"idle"}
                       /\ completed'[q] = 0 /\ spawned'[q] = 0
    BY <1>1, <1>3 DEF KeepInv
  <2>2. \A q \in Procs \ {p} : pc'[q] = pc[q] /\ completed'[q] = completed[q]
                               /\ spawned'[q] = spawned[q]
    BY <1>1, <1>3
  <2>3. {p} \in SUBSET Procs
    OBVIOUS
  <2> QED BY <1>1, <1>6, <2>1, <2>2, <2>3, ResetStep
<1>8. SumInv'
  <2>1. Total(spawned)' = Total(spawned) /\ Total(spawned) \in Nat
    BY <1>1, PendType DEF Total
  <2> QED BY <1>1, <1>3, <1>6, <2>1, ResetSums DEF Fresh
<1>9. VerdictInv'
  <2>1. \A q \in Procs : ~terminated[q]
    BY <1>3, <1>4, NoVerdict
  <2> QED BY <1>1, <1>3, <1>5, <2>1 DEF VerdictInv
<1>10. WaveInv' /\ ExternalInv'
  BY <1>1, <1>5, <1>7, FreshAfter
<1> QED BY <1>1, <1>5, <1>6, <1>7, <1>8, <1>9, <1>10 DEF IInv, PhaseInv

LEMMA ResetQueueInv ==
  ASSUME IInv, NEW p \in Procs, ResetQueue(p)
  PROVE  IInv' /\ Pend' = Pend
<1>1. /\ Types /\ Types' /\ PhaseInv /\ VerdictInv /\ KeepInv /\ pc[p] = "clear_queue"
      /\ pc' = [pc EXCEPT ![p] = "idle"]
      /\ local' = [local EXCEPT ![p] = 0] /\ shared' = [shared EXCEPT ![p] = 0]
      /\ UNCHANGED <<conf, buf, external, spawned, completed, terminated, wave, last, over>>
  BY ResetType DEF IInv, ResetQueue, Goto, counts, td
<1>2. /\ pc \in [Procs -> Places] /\ local \in [Procs -> Nat]
      /\ shared \in [Procs -> Nat] /\ buf \in [Procs -> Nat]
  BY <1>1 DEF Types
<1>3. /\ \A q \in Procs : pc'[q] = IF q = p THEN "idle" ELSE pc[q]
      /\ "clear_queue" \notin Clearing \cup Working /\ "clear_queue" \in Preparing
      /\ "idle" \in Preparing /\ "clear_queue" \in Resetting /\ "idle" \notin Inside
      /\ "clear_queue" \notin Outside \cup Inside
      /\ "left" \notin Preparing /\ "td_reset" \notin Preparing
  BY <1>1, <1>2
     DEF Preparing, Clearing, Outside, Working, Resetting, Inside, Searching
<1>4. \A q \in Procs : pc[q] \in Preparing
  BY <1>1, <1>3 DEF PhaseInv
<1>5. \A q \in Procs : pc'[q] \in Preparing
  BY <1>3, <1>4
<1>6. Pend' = Pend
  <2>1. Pend[p] = 0 /\ ~(buf[p] > 0)
    BY <1>1, <1>3 DEF KeepInv
  <2>2. Pend[p] = local[p] + shared[p] + buf[p] + (IF pc[p] = "run" THEN 1 ELSE 0)
    BY <1>1, PendType
  <2>3. local'[p] = 0 /\ shared'[p] = 0 /\ buf'[p] = buf[p] /\ buf[p] = 0
    BY <1>1, <1>2, <2>1
  <2>4. \A q \in Procs : q # p => local'[q] = local[q] /\ shared'[q] = shared[q]
    BY <1>1, <1>2
  <2> QED BY <1>1, <1>3, <2>1, <2>2, <2>3, <2>4, PendSame
<1>7. KeepInv'
  <2>1. \A q \in {p} : /\ pc[q] \in Resetting \cup {"left"}
                       /\ pc'[q] \in Resetting \cup {"idle"}
                       /\ completed'[q] = 0 /\ spawned'[q] = 0
    BY <1>1, <1>3 DEF KeepInv
  <2>2. \A q \in Procs \ {p} : pc'[q] = pc[q] /\ completed'[q] = completed[q]
                               /\ spawned'[q] = spawned[q]
    BY <1>1, <1>3
  <2>3. {p} \in SUBSET Procs
    OBVIOUS
  <2> QED BY <1>1, <1>6, <2>1, <2>2, <2>3, ResetStep
<1>8. SumInv'
  <2>1. Total(spawned)' = Total(spawned) /\ Total(spawned) \in Nat
    BY <1>1, PendType DEF Total
  <2> QED BY <1>1, <1>3, <1>6, <2>1, ResetSums
<1>9. Fresh'
  BY <1>1, <1>3 DEF VerdictInv, Fresh, NewWave, NoSums
<1>10. VerdictInv'
  <2>1. \A q \in Procs : ~terminated[q]
    BY <1>3, <1>4, NoVerdict
  <2> QED BY <1>1, <1>3, <1>5, <1>9, <2>1 DEF VerdictInv
<1>11. WaveInv' /\ ExternalInv'
  BY <1>1, <1>5, <1>7, <1>9, FreshAfter
<1> QED BY <1>1, <1>5, <1>6, <1>7, <1>8, <1>10, <1>11 DEF IInv, PhaseInv

\* The two barriers of td_reset.
LEMMA ResetBarrierInv ==
  ASSUME IInv, NEW b \in {"td_reset", "td_ready"}, Barrier(b) PROVE IInv' /\ Pend' = Pend
<1>1. /\ Types /\ Types' /\ PhaseInv /\ VerdictInv /\ KeepInv /\ SumInv /\ WaveInv
      /\ \A q \in Procs : pc[q] = b /\ pc'[q] = After(b)
      /\ UNCHANGED <<conf, local, shared, buf, external, spawned, completed, terminated,
                     wave, last, over>>
  BY BarrierType DEF IInv, Barrier, Barriers, All, queues, counts, td
<1>2. /\ b \in Resetting /\ After(b) \in Resetting /\ After(b) \notin Inside
      /\ b # "run" /\ After(b) # "run" /\ b # "left" /\ After(b) # "left"
      /\ After(b) # "td_reset" /\ After(b) # "td_ready"
      /\ (b = "td_reset" => After(b) = "clear_td" /\ After(b) \notin Preparing)
      /\ (b = "td_ready" => After(b) = "clear_queue")
      /\ After(b) \in Preparing \cup Clearing
      /\ (After(b) \in Preparing => b = "td_ready")
  BY DEF After, Resetting, Inside, Searching, Preparing, Clearing, Outside
<1>3. Pend' = Pend
  BY <1>1, <1>2 DEF Pend
<1>4. PhaseInv'
  BY <1>1, <1>2 DEF PhaseInv
<1>5. KeepInv'
  <2>1. \A q \in Procs : completed[q] = 0 /\ spawned[q] = 0
    BY <1>1, <1>2 DEF KeepInv
  <2>2. \A q \in Procs : /\ pc[q] \in Resetting \cup {"left"}
                         /\ pc'[q] \in Resetting \cup {"idle"}
                         /\ completed'[q] = 0 /\ spawned'[q] = 0
    BY <1>1, <1>2, <2>1
  <2>3. Procs \in SUBSET Procs /\ \A q \in Procs \ Procs : FALSE
    OBVIOUS
  <2> QED BY <1>1, <1>3, <2>2, <2>3, ResetStep
<1>6. SumInv'
  <2>1. Total(spawned)' = Total(spawned) /\ Total(spawned) \in Nat
    BY <1>1, PendType DEF Total
  <2> QED BY <1>1, <1>2, <1>3, <2>1, RootProc, ResetSums
<1>7. VerdictInv'
  <2>1. \A q \in Procs : ~terminated[q]
    BY <1>1, <1>2, NoVerdict
  <2>2. (b = "td_ready" \/ ~conf.stealing) => Fresh'
    BY <1>1, RootProc DEF VerdictInv, Fresh, NewWave, NoSums
  <2> QED BY <1>1, <1>2, <2>1, <2>2 DEF VerdictInv
<1>8. WaveInv' /\ ExternalInv'
  BY <1>1, <1>2, <1>3 DEF WaveInv, ExternalInv, Total, Uncounted
<1> QED BY <1>1, <1>3, <1>4, <1>5, <1>6, <1>7, <1>8 DEF IInv

LEMMA FrameInv == ASSUME IInv, UNCHANGED vars PROVE IInv' /\ Pend' = Pend
<1>1. /\ UNCHANGED <<conf, pc, local, shared, unreclaimed, buf, target, lastTarget,
                     external, spawned, completed, terminated, wave, last, over>>
  BY DEF vars, queues, targets, counts, td
<1>2. Types /\ pc \in [Procs -> Places] /\ KeepInv
  BY DEF IInv, Types
<1>3. Types' /\ Pend' = Pend
  BY <1>1, <1>2 DEF Types, Pend
<1>4. pc' = [pc EXCEPT ![Root] = pc[Root]]
  BY <1>1, <1>2
<1>5. (buf'[Root] > 0 <=> pc[Root] = "copy") /\ (pc[Root] \in Searching => conf.stealing)
  BY <1>1, <1>2, RootProc DEF KeepInv
<1>6. UNCHANGED <<conf, counts, td>>
  BY <1>1 DEF counts, td
<1> QED BY <1>1, <1>3, <1>4, <1>5, <1>6, RootProc, MoveStep

LEMMA NextInv == ASSUME IInv, [Next]_vars PROVE IInv'
<1>1. CASE UNCHANGED vars
  BY <1>1, FrameInv
<1>2. ASSUME NEW b \in Barriers, Barrier(b) PROVE IInv'
  BY <1>2, StartInv, ResetBarrierInv DEF Barriers
<1>3. ASSUME NEW p \in Procs,
             \/ Add(p) \/ CallProgress(p) \/ SetExternal(p) \/ Enter(p) \/ ResetOwn(p)
      PROVE  IInv'
  BY <1>3, AddInv, CallProgressInv, SetExternalInv, EnterInv, ResetOwnInv
<1>4. ASSUME NEW p \in Procs, Step(p) PROVE IInv'
  <2>1. CASE GetBuf(p) \/ PopHead(p) \/ PopNothing(p) \/ Return(p)
    BY <2>1, GetBufInv, PopHeadInv, PopNothingInv, ReturnInv
  <2>2. CASE Steal(p)
    BY <2>2, LandInv, StealNothingInv, ClaimInv DEF Steal
  <2>3. CASE KeepSearching(p) \/ ResetTd(p) \/ ResetQueue(p)
    BY <2>3, KeepSearchingInv, ResetTdInv, ResetQueueInv
  <2>4. CASE TdVote(p)
    BY <2>4, VoteInv, AwaitVotesInv, HearInv, DecideInv DEF TdVote
  <2> QED BY <1>4, <2>1, <2>2, <2>3, <2>4 DEF Step
<1> QED BY <1>1, <1>2, <1>3, <1>4 DEF Next

LEMMA InvCorrect == Spec => []IInv
<1>1. Init => IInv
  BY InitInv
<1>2. IInv /\ [Next]_vars => IInv'
  BY NextInv
<1> QED BY <1>1, <1>2, PTL DEF Spec
-----------------------------------------------------------------------------
(***************************************************************************)
(* The properties.                                                         *)
(***************************************************************************)
\* Nobody resets a queue while another may still search: two barriers are between
\* the last process's exit from gtc_process and the first reset of a queue.
THEOREM ResetsAlone == Spec => []ResetAlone
<1>1. IInv => ResetAlone
  <2> SUFFICES ASSUME IInv, NEW v \in Procs, pc[v] = "clear_queue"
               PROVE  \A p \in Procs : pc[p] \notin Inside
    BY DEF ResetAlone
  <2>1. "clear_queue" \in Preparing /\ "clear_queue" \notin Working \cup Clearing
    BY DEF Preparing, Working, Clearing, Inside, Searching
  <2>2. \A p \in Procs : pc[p] \in Preparing
    BY <2>1 DEF IInv, PhaseInv
  <2> QED BY <2>1, <2>2, PlaceFacts
<1> QED BY <1>1, InvCorrect, PTL

\* Nobody is told that all work is done while a process inside gtc_process announces
\* external work: it votes only when it has none, and announces none later.
THEOREM ExternalWorkWaits == Spec => []ExternalWorkHolds
<1>1. IInv => ExternalWorkHolds
  <2> SUFFICES ASSUME IInv, NEW p \in Procs, pc[p] \in Inside, external[p],
                      NEW q \in Procs, terminated[q]
               PROVE  FALSE
    BY DEF ExternalWorkHolds
  <2>1. over
    BY DEF IInv, VerdictInv
  <2> QED BY <2>1 DEF IInv, ExternalInv
<1> QED BY <1>1, InvCorrect, PTL

\* The bounds of the counters, but for those that follow from the sums.
BoundInv ==
  /\ last.spawned <= MaxTasks /\ last.completed <= MaxTasks
  /\ over => wave = NewWave /\ \A p \in Procs : completed[p] <= MaxTasks

\* While the waves run everyone is inside, or nothing is completed yet.
LEMMA WhileRunning ==
  ASSUME IInv, conf.stealing, ~over
  PROVE  \/ \A q \in Procs : pc[q] \in Inside
         \/ \A q \in Procs : completed[q] = 0 /\ pc[q] \in Preparing \cup Clearing
<1>1. PhaseInv /\ KeepInv
  BY DEF IInv
<1>2. CASE \A q \in Procs : pc[q] \in Working
  <2>1. \A q \in Procs : pc[q] # "left" /\ pc[q] # "td_reset"
    BY DEF IInv, VerdictInv
  <2> QED BY <1>2, <2>1, PlaceFacts
<1>3. CASE (\A q \in Procs : pc[q] \in Preparing) \/ (\A q \in Procs : pc[q] \in Clearing)
  <2>1. \A q \in Procs : pc[q] \in Outside \cup Resetting
    BY <1>3, PlaceFacts DEF Resetting
  <2> QED BY <1>1, <1>3, <2>1 DEF KeepInv
<1> QED BY <1>1, <1>2, <1>3 DEF PhaseInv

LEMMA CountsBounded ==
  ASSUME IInv
  PROVE  /\ \A q \in Procs : spawned[q] <= MaxTasks /\ Pend[q] <= MaxTasks
         /\ ~over => /\ \A q \in Procs : completed[q] <= MaxTasks
                     /\ wave.spawned <= MaxTasks /\ wave.completed <= MaxTasks
<1>1. /\ Types /\ KeepInv /\ SumInv /\ WaveInv /\ VerdictInv /\ MaxTasks \in Nat
      /\ conf.stealing \in BOOLEAN
  BY BoundType DEF IInv, Types
<1>2. /\ spawned \in [Procs -> Nat] /\ completed \in [Procs -> Nat]
      /\ Pend \in [Procs -> Nat] /\ Total(spawned) \in Nat
      /\ Total(completed) \in Nat /\ Total(Pend) \in Nat
      /\ wave.spawned \in Nat /\ wave.completed \in Nat
  BY <1>1, PendType DEF Types
<1>3. \A q \in Procs : /\ spawned[q] <= Total(spawned) /\ completed[q] <= Total(completed)
                       /\ Pend[q] <= Total(Pend)
                       /\ spawned[q] \in Nat /\ completed[q] \in Nat /\ Pend[q] \in Nat
  BY <1>2, TotalMember
<1>4. Total(spawned) <= MaxTasks
  BY <1>1 DEF SumInv
<1>5. ~over => wave.spawned <= Total(spawned) /\ wave.completed <= Total(completed)
  <2>1. /\ Total(Uncounted(wave.voted, spawned)) \in Nat
        /\ Total(Uncounted(wave.voted, completed)) \in Nat
    BY <1>2, UncountedType
  <2>2. ~over =>
          /\ wave.spawned + Total(Uncounted(wave.voted, spawned)) <= Total(spawned)
          /\ wave.completed + Total(Uncounted(wave.voted, completed)) <= Total(completed)
    BY <1>1 DEF WaveInv
  <2> QED BY <1>2, <2>1, <2>2
<1>6. \A q \in Procs : spawned[q] <= MaxTasks
  BY <1>1, <1>2, <1>3, <1>4
<1>7. ~over => wave.spawned <= MaxTasks
  BY <1>1, <1>2, <1>4, <1>5
<1>8. CASE ~conf.stealing
  <2>1. \A q \in Procs : spawned[q] = completed[q] + Pend[q]
    BY <1>1, <1>8 DEF KeepInv
  <2>2. \A q \in Procs : completed[q] <= MaxTasks /\ Pend[q] <= MaxTasks
    BY <1>1, <1>3, <1>6, <2>1
  <2>3. wave.completed = 0
    BY <1>1, <1>8 DEF VerdictInv, Fresh, NewWave
  <2> QED BY <1>1, <1>6, <1>7, <2>2, <2>3
<1>9. CASE over
  <2>1. \A q \in Procs : Pend[q] <= MaxTasks
    BY <1>1, <1>9 DEF SumInv
  <2> QED BY <1>6, <1>9, <2>1
<1>10. CASE conf.stealing /\ ~over /\ \A q \in Procs : pc[q] \in Inside
  <2>1. Total(spawned) = Total(completed) + Total(Pend)
    BY <1>1, <1>10 DEF SumInv
  <2>2. Total(completed) <= MaxTasks /\ Total(Pend) <= MaxTasks
    BY <1>1, <1>2, <1>4, <2>1
  <2>3. \A q \in Procs : completed[q] <= MaxTasks /\ Pend[q] <= MaxTasks
    BY <1>1, <1>2, <1>3, <2>2
  <2>4. wave.completed <= MaxTasks
    BY <1>1, <1>2, <1>5, <1>10, <2>2
  <2> QED BY <1>6, <1>7, <2>3, <2>4
<1>11. CASE /\ conf.stealing /\ ~over
            /\ \A q \in Procs : completed[q] = 0 /\ pc[q] \in Preparing \cup Clearing
  <2>1. \A q \in Procs : Pend[q] <= spawned[q]
    BY <1>1, <1>11, PendCounted
  <2>2. Total(completed) = 0
    BY <1>2, <1>11, TotalZero
  <2>3. wave.completed <= MaxTasks
    BY <1>1, <1>2, <1>5, <1>11, <2>2
  <2>4. \A q \in Procs : completed[q] <= MaxTasks /\ Pend[q] <= MaxTasks
    BY <1>1, <1>3, <1>6, <1>11, <2>1
  <2> QED BY <1>6, <1>7, <2>3, <2>4
<1> QED BY <1>1, <1>8, <1>9, <1>10, <1>11, WhileRunning

LEMMA InitBounded == Init => BoundInv
<1> SUFFICES ASSUME Init PROVE BoundInv
  OBVIOUS
<1>1. MaxTasks \in Nat
  BY BoundType DEF Init
<1> QED BY <1>1 DEF Init, BoundInv, NoSums

LEMMA ConfigurationStays == ASSUME [Next]_vars PROVE conf' = conf
BY DEF Next, vars, Add, CallProgress, SetExternal, Enter, ResetOwn, Step, GetBuf,
       PopHead, PopNothing, Return, Steal, Land, StealNothing, Claim,
       KeepSearching, TdVote, Vote, AwaitVotes, Hear, Decide, ResetTd,
       ResetQueue, Barrier

LEMMA BoundStep == ASSUME IInv, BoundInv, [Next]_vars PROVE BoundInv'
<1>1. MaxTasks' = MaxTasks /\ MaxTasks \in Nat /\ Types
  <2>1. conf' = conf
    BY ConfigurationStays
  <2> QED BY <2>1, BoundType DEF IInv, Types, MaxTasks
<1>2. CASE Decide
  <2>1. ~over /\ last' = Counted(Root) /\ wave' = NewWave /\ completed' = completed
    BY <1>2 DEF Decide, counts
  <2>2. /\ Counted(Root).spawned <= Total(spawned)
        /\ Counted(Root).completed <= Total(completed) /\ Counted(Root) \in SumPairs
    BY <1>2, RootKnows
  <2>3. Total(spawned) = Total(completed) + Total(Pend)
    <3>1. \A q \in Procs : pc[q] \in Inside
      BY <1>2, RootProc, CheckStealing, AllInside DEF Decide
    <3> QED BY <3>1 DEF IInv, SumInv
  <2>4. /\ Total(spawned) \in Nat /\ Total(completed) \in Nat /\ Total(Pend) \in Nat
        /\ Total(spawned) <= MaxTasks
    BY <1>1, PendType DEF IInv, SumInv
  <2>5. Counted(Root).spawned <= MaxTasks /\ Counted(Root).completed <= MaxTasks
    BY <1>1, <2>2, <2>3, <2>4 DEF SumPairs
  <2>6. \A q \in Procs : completed[q] <= MaxTasks
    BY <2>1, CountsBounded
  <2> QED BY <1>1, <2>1, <2>5, <2>6 DEF BoundInv
<1>3. ASSUME NEW p \in Procs, ResetTd(p) PROVE BoundInv'
  BY <1>1, <1>3 DEF ResetTd, NoSums, BoundInv
<1>4. ASSUME NEW p \in Procs, ResetOwn(p) PROVE BoundInv'
  <2>1. completed' = [completed EXCEPT ![p] = 0] /\ UNCHANGED <<wave, last, over>>
    BY <1>4 DEF ResetOwn
  <2>2. \A q \in Procs : completed'[q] = 0 \/ completed'[q] = completed[q]
    BY <1>1, <2>1 DEF Types
  <2> QED BY <1>1, <2>1, <2>2 DEF BoundInv, NewWave
<1>5. ASSUME NEW p \in Procs, Return(p) PROVE BoundInv'
  <2>1. ~over /\ UNCHANGED <<last, over>>
    BY <1>5, RunBusy, BusyRuns DEF Return, td
  <2> QED BY <1>1, <2>1 DEF BoundInv
<1>6. ASSUME NEW p \in Procs, Vote(p) PROVE BoundInv'
  BY <1>1, <1>6 DEF Vote, BoundInv
<1>7. CASE UNCHANGED <<completed, wave, last, over>>
  BY <1>1, <1>7 DEF BoundInv, NewWave
<1>8. CASE UNCHANGED vars
  BY <1>7, <1>8 DEF vars, counts, td
<1>9. ASSUME NEW b \in Barriers, Barrier(b) PROVE BoundInv'
  BY <1>7, <1>9 DEF Barrier, counts, td
<1>10. ASSUME NEW p \in Procs,
              Add(p) \/ CallProgress(p) \/ SetExternal(p) \/ Enter(p)
       PROVE  BoundInv'
  BY <1>7, <1>10 DEF Add, CallProgress, SetExternal, Enter, counts, td
<1>11. ASSUME NEW p \in Procs, Step(p) PROVE BoundInv'
  <2>1. CASE GetBuf(p) \/ PopHead(p) \/ PopNothing(p) \/ KeepSearching(p) \/ ResetQueue(p)
    BY <1>7, <2>1 DEF GetBuf, PopHead, PopNothing, KeepSearching, ResetQueue, counts, td
  <2>2. CASE Steal(p)
    BY <1>7, <2>2 DEF Steal, Land, StealNothing, Claim, counts, td
  <2>3. CASE AwaitVotes(p)
    BY <1>7, <2>3 DEF AwaitVotes, counts, td
  <2>4. CASE Hear(p)
    BY <1>7, <2>4 DEF Hear, counts
  <2> QED BY <1>2, <1>3, <1>5, <1>6, <1>11, <2>1, <2>2, <2>3, <2>4 DEF Step, TdVote
<1> QED BY <1>4, <1>8, <1>9, <1>10, <1>11 DEF Next

\* No counter leaves its range: nothing is counted that was not added, and no queue
\* holds more tasks than were added.
THEOREM CountersStayBounded == Spec => []TypeOK
<1>1. IInv /\ BoundInv => TypeOK
  <2> SUFFICES ASSUME IInv, BoundInv PROVE TypeOK
    OBVIOUS
  <2>1. Types /\ MaxTasks \in Nat
    BY BoundType DEF IInv, Types
  <2>2. /\ \A q \in Procs : spawned[q] <= MaxTasks /\ Pend[q] <= MaxTasks
        /\ \A q \in Procs : completed[q] <= MaxTasks
        /\ wave.spawned <= MaxTasks /\ wave.completed <= MaxTasks
    BY <2>1, CountsBounded DEF BoundInv, NewWave
  <2>3. \A q \in Procs : /\ local[q] \in 0..MaxTasks /\ shared[q] \in 0..MaxTasks
                         /\ buf[q] \in 0..MaxTasks
    <3> TAKE q \in Procs
    <3>1. /\ Pend[q] = local[q] + shared[q] + buf[q] + (IF pc[q] = "run" THEN 1 ELSE 0)
          /\ local[q] \in Nat /\ shared[q] \in Nat /\ buf[q] \in Nat
      BY <2>1, PendType DEF Types
    <3>2. Pend[q] <= MaxTasks
      BY <2>2
    <3> QED BY <2>1, <3>1, <3>2
  <2>4. \A q \in Procs : spawned[q] \in 0..MaxTasks /\ completed[q] \in 0..MaxTasks
    BY <2>1, <2>2 DEF Types
  <2>5. /\ local \in [Procs -> 0..MaxTasks] /\ shared \in [Procs -> 0..MaxTasks]
        /\ buf \in [Procs -> 0..MaxTasks] /\ spawned \in [Procs -> 0..MaxTasks]
        /\ completed \in [Procs -> 0..MaxTasks]
    BY <2>1, <2>3, <2>4 DEF Types
  <2>6. /\ wave.spawned \in 0..MaxTasks /\ wave.completed \in 0..MaxTasks
        /\ last.spawned \in 0..MaxTasks /\ last.completed \in 0..MaxTasks
        /\ wave.voted \subseteq Procs
    BY <2>1, <2>2 DEF Types, BoundInv, SumPairs
  <2> QED BY <2>1, <2>5, <2>6 DEF TypeOK, Types, Places
<1>2. Init => IInv /\ BoundInv
  BY InitInv, InitBounded
<1>3. (IInv /\ BoundInv) /\ [Next]_vars => (IInv /\ BoundInv)'
  BY NextInv, BoundStep
<1> QED BY <1>1, <1>2, <1>3, PTL DEF Spec
-----------------------------------------------------------------------------
(***************************************************************************)
(* Refinement: gtc_process does what Processing promises.                  *)
(***************************************************************************)
Where == [p \in Procs |-> CASE pc[p] \in Outside -> "out"
                            [] pc[p] \in Inside  -> "in"
                            [] OTHER             -> "done"]

LEMMA WhereFacts ==
  /\ Where \in [Procs -> {"out", "in", "done"}]
  /\ \A p \in Procs : /\ pc[p] \in Outside => Where[p] = "out"
                      /\ pc[p] \in Inside  => Where[p] = "in"
                      /\ pc[p] \notin Outside \cup Inside => Where[p] = "done"
BY PlaceFacts DEF Where

LEMMA WhereNext ==
  /\ Where' \in [Procs -> {"out", "in", "done"}]
  /\ \A p \in Procs : /\ pc'[p] \in Outside => Where'[p] = "out"
                      /\ pc'[p] \in Inside  => Where'[p] = "in"
                      /\ pc'[p] \notin Outside \cup Inside => Where'[p] = "done"
BY PlaceFacts DEF Where

\* p goes from one place to another, and to or from gtc_process or neither.
LEMMA WhereStep ==
  ASSUME Types, NEW p \in Procs, NEW l, pc' = [pc EXCEPT ![p] = l], NEW w,
         \/ l \in Outside /\ w = "out"
         \/ l \in Inside /\ w = "in"
         \/ l \notin Outside \cup Inside /\ w = "done"
  PROVE  Where' = [Where EXCEPT ![p] = w]
<1>1. pc \in [Procs -> Places]
  BY DEF Types
<1>2. /\ Where \in [Procs -> {"out", "in", "done"}]
      /\ Where' \in [Procs -> {"out", "in", "done"}]
  BY WhereFacts, WhereNext
<1>3. Where'[p] = w
  <2>1. pc'[p] = l
    BY <1>1
  <2> QED BY <2>1, WhereNext
<1>4. \A q \in Procs : q # p => Where'[q] = Where[q]
  <2>1. \A q \in Procs : q # p => pc'[q] = pc[q]
    BY <1>1
  <2> QED BY <2>1 DEF Where
<1> QED BY <1>2, <1>3, <1>4

LEMMA WhereSame ==
  ASSUME Types, NEW p \in Procs, NEW l, pc' = [pc EXCEPT ![p] = l],
         \/ l \in Outside /\ pc[p] \in Outside
         \/ l \in Inside /\ pc[p] \in Inside
         \/ l \notin Outside \cup Inside /\ pc[p] \notin Outside \cup Inside
  PROVE  Where' = Where
<1>1. Where' = [Where EXCEPT ![p] = Where[p]]
  BY WhereFacts, WhereStep
<1> QED BY <1>1 DEF Where

LEMMA PendNext == ASSUME Types' PROVE Pend' \in [Procs -> Nat]
<1>1. (Types => Pend \in [Procs -> Nat])'
  BY PendType, PTL
<1> QED BY <1>1

LEMMA Stuttering ==
  ASSUME Where' = Where, Pend' = Pend, conf' = conf
  PROVE  UNCHANGED Promise!vars
BY DEF Where, Pend, Promise!vars

\* Where a process may be after it has left gtc_process.
LEMMA LeftPlaces ==
  /\ \A l \in {"left", "td_reset", "clear_td", "td_ready", "clear_queue"} :
       l \notin Outside \cup Inside
  /\ \A l \in {"get", "pop", "run", "search", "copy", "check"} : l \in Inside
  /\ "idle" \in Outside /\ "process" \in Outside
BY DEF Outside, Inside, Searching

LEMMA AddRefines ==
  ASSUME IInv, NEW p \in Procs, Add(p) PROVE Promise!Next
<1>1. /\ Types /\ Types' /\ pc[p] \in {"idle", "run"}
      /\ local' = [local EXCEPT ![p] = local[p] + 1]
      /\ UNCHANGED <<conf, pc, shared, buf>>
  BY AddType DEF IInv, Add, Added
<1>2. Where' = Where
  BY <1>1 DEF Where
<1>3. Pend' = [Pend EXCEPT ![p] = Pend[p] + 1]
  <2>1. \A q \in Procs : local[q] \in Nat /\ shared[q] \in Nat /\ buf[q] \in Nat
                         /\ local'[q] = IF q = p THEN local[q] + 1 ELSE local[q]
    BY <1>1 DEF Types
  <2>2. \A q \in Procs : Pend'[q] = IF q = p THEN Pend[q] + 1 ELSE Pend[q]
    BY <1>1, <2>1 DEF Pend
  <2> QED BY <1>1, <2>2, PendType, PendNext
<1>4. Where[p] = "out" \/ (Where[p] = "in" /\ Pend[p] > 0)
  BY <1>1, WhereFacts, LeftPlaces, RunBusy
<1>5. Promise!Add(p)
  BY <1>1, <1>2, <1>3, <1>4 DEF Promise!Add, Where, Pend
<1> QED BY <1>5 DEF Promise!Next

LEMMA StartRefines ==
  ASSUME IInv, Barrier("process") PROVE Promise!Next
<1>1. /\ \A q \in Procs : pc[q] = "process" /\ pc'[q] = "get"
      /\ conf' = conf /\ Pend' = Pend
  BY StartInv DEF Barrier, After, All
<1>2. \A q \in Procs : Where[q] = "out"
  BY <1>1, WhereFacts, LeftPlaces
<1>3. Where' = [q \in Procs |-> "in"]
  <2>1. \A q \in Procs : pc'[q] \in Inside /\ pc'[q] \notin Outside
    BY <1>1, LeftPlaces, PlaceFacts
  <2> QED BY <2>1 DEF Where
<1>4. Promise!Enter
  BY <1>1, <1>2, <1>3 DEF Promise!Enter, Where, Pend
<1> QED BY <1>4 DEF Promise!Next

LEMMA ReturnRefines ==
  ASSUME IInv, NEW p \in Procs, Return(p) PROVE Promise!Next
<1>1. /\ Types /\ Types' /\ pc[p] = "run" /\ pc' = [pc EXCEPT ![p] = "get"]
      /\ UNCHANGED <<conf, local, shared, buf>>
  BY ReturnType DEF IInv, Return, Goto, queues
<1>2. Where' = Where /\ Where[p] = "in"
  BY <1>1, WhereSame, WhereFacts, LeftPlaces
<1>3. Pend[p] > 0
  BY <1>1, RunBusy
<1>4. Pend' = [Pend EXCEPT ![p] = Pend[p] - 1]
  <2>1. \A q \in Procs : local[q] \in Nat /\ shared[q] \in Nat /\ buf[q] \in Nat
                         /\ pc'[q] = IF q = p THEN "get" ELSE pc[q]
    BY <1>1 DEF Types
  <2>2. \A q \in Procs : Pend'[q] = IF q = p THEN Pend[q] - 1 ELSE Pend[q]
    BY <1>1, <2>1 DEF Pend
  <2> QED BY <1>1, <2>2, PendType, PendNext
<1>5. Promise!Complete(p)
  BY <1>1, <1>2, <1>3, <1>4 DEF Promise!Complete, Where, Pend
<1> QED BY <1>5 DEF Promise!Next

\* A claim takes tasks over, unless the process claims its own.
LEMMA ClaimRefines ==
  ASSUME IInv, NEW p \in Procs, NEW v \in Procs, NEW n \in 1..MaxTasks, Claim(p, v, n)
  PROVE  [Promise!Next]_Promise!vars
<1>1. /\ Types /\ pc[p] = "search" /\ pc' = [pc EXCEPT ![p] = "copy"] /\ conf' = conf
      /\ conf.stealing
  <2>1. pc[p] = "search" => pc[p] \in Searching
    BY DEF Searching
  <2> QED BY <2>1 DEF IInv, KeepInv, Claim, Goto
<1>2. Where' = Where /\ Where[p] = "in"
  BY <1>1, WhereSame, WhereFacts, LeftPlaces
<1>3. /\ n \in Nat /\ n > 0 /\ n <= Pend[v]
      /\ p = v => Pend' = Pend
      /\ p # v => /\ Pend'[p] = Pend[p] + n /\ Pend[v] = Pend'[v] + n
                  /\ \A q \in Procs : q # p /\ q # v => Pend'[q] = Pend[q]
  BY ClaimPend
<1>4. Pend \in [Procs -> Nat] /\ Pend' \in [Procs -> Nat]
  BY <1>1, ClaimType, PendType, PendNext
<1>5. CASE p = v
  BY <1>1, <1>2, <1>3, <1>5, Stuttering
<1>6. CASE p # v
  <2>1. n \in 1..Pend[v]
    BY <1>3, <1>4
  <2>2. Pend'[v] = Pend[v] - n
    BY <1>3, <1>4, <1>6
  <2>3. Pend' = [Pend EXCEPT ![p] = Pend[p] + n, ![v] = Pend[v] - n]
    BY <1>3, <1>4, <1>6, <2>2
  <2>4. Pend' = [Pend EXCEPT ![p] = @ + n, ![v] = @ - n]
    BY <1>4, <1>6, <2>3
  <2>5. Promise!TakeOver(p, v)
    BY <1>1, <1>2, <1>6, <2>1, <2>4 DEF Promise!TakeOver, Where, Pend
  <2> QED BY <2>5 DEF Promise!Next
<1> QED BY <1>5, <1>6

\* Whoever leaves gtc_process leaves nothing behind that could come to it.
LEMMA LeaveRefines ==
  ASSUME Types, NEW p \in Procs, pc[p] \in Inside, pc' = [pc EXCEPT ![p] = "left"],
         conf' = conf, Pend' = Pend,
         \A q \in IF conf.stealing THEN Procs ELSE {p} : Pend[q] = 0
  PROVE  Promise!Next
<1>1. Where[p] = "in" /\ Where' = [Where EXCEPT ![p] = "done"]
  BY WhereFacts, WhereStep, LeftPlaces
<1>2. Promise!Return(p)
  BY <1>1 DEF Promise!Return, Where, Pend
<1> QED BY <1>2 DEF Promise!Next

LEMMA PopNothingRefines ==
  ASSUME IInv, NEW p \in Procs, PopNothing(p) PROVE [Promise!Next]_Promise!vars
<1>1. /\ Types /\ KeepInv /\ VerdictInv /\ pc[p] = "pop" /\ pc[p] \in Inside
      /\ conf' = conf /\ Pend' = Pend /\ local[p] + shared[p] = 0
  BY PopNothingInv, LeftPlaces DEF IInv, PopNothing
<1>2. CASE pc' = [pc EXCEPT ![p] = "search"]
  BY <1>1, <1>2, WhereSame, LeftPlaces, Stuttering
<1>3. CASE pc' = [pc EXCEPT ![p] = "left"] /\ ~(conf.stealing /\ ~terminated[p])
  <2>1. ~terminated[p]
    BY <1>1 DEF VerdictInv
  <2>2. Pend[p] = 0
    BY <1>1, IdlePend
  <2>3. \A q \in IF conf.stealing THEN Procs ELSE {p} : Pend[q] = 0
    BY <1>3, <2>1, <2>2
  <2> QED BY <1>1, <1>3, <2>3, LeaveRefines
<1> QED BY <1>2, <1>3 DEF PopNothing, Goto

LEMMA DecideRefines ==
  ASSUME IInv, Decide PROVE [Promise!Next]_Promise!vars
<1>1. /\ Types /\ conf' = conf /\ Pend' = Pend /\ Root \in Procs /\ pc[Root] \in Inside
  BY DecideInv, RootProc, CheckStealing DEF IInv, Decide
<1>2. CASE ~over'
  <2>1. pc' = [pc EXCEPT ![Root] = "search"]
    BY <1>2 DEF Decide, Goto
  <2> QED BY <1>1, <2>1, WhereSame, LeftPlaces, Stuttering
<1>3. CASE over'
  <2>1. pc' = [pc EXCEPT ![Root] = "left"]
    BY <1>3 DEF Decide, Goto
  <2>2. \A q \in Procs : Pend[q] = 0
    BY <1>3, NoTaskLeft
  <2>3. \A q \in IF conf.stealing THEN Procs ELSE {Root} : Pend[q] = 0
    BY <1>1, <2>2
  <2> QED BY <1>1, <2>1, <2>3, LeaveRefines
<1> QED BY <1>2, <1>3

LEMMA HearRefines ==
  ASSUME IInv, NEW p \in Procs, Hear(p) PROVE [Promise!Next]_Promise!vars
<1>1. /\ Types /\ SumInv /\ conf' = conf /\ Pend' = Pend /\ pc[p] \in Inside /\ over
  BY HearInv, CheckStealing DEF IInv, Hear
<1>2. CASE pc' = [pc EXCEPT ![p] = "search"]
  BY <1>1, <1>2, WhereSame, LeftPlaces, Stuttering
<1>3. CASE pc' = [pc EXCEPT ![p] = "left"]
  <2>1. \A q \in IF conf.stealing THEN Procs ELSE {p} : Pend[q] = 0
    BY <1>1 DEF SumInv
  <2> QED BY <1>1, <1>3, <2>1, LeaveRefines
<1> QED BY <1>2, <1>3 DEF Hear, Goto

\* The first process that is ready for the next phase finds no one in this one.
LEMMA ResetQueueRefines ==
  ASSUME IInv, NEW p \in Procs, ResetQueue(p) PROVE Promise!Next
<1>1. /\ Types /\ PhaseInv /\ conf' = conf /\ Pend' = Pend /\ pc[p] = "clear_queue"
      /\ pc' = [pc EXCEPT ![p] = "idle"]
  BY ResetQueueInv DEF IInv, ResetQueue, Goto
<1>2. \A q \in Procs : pc[q] \notin Inside
  <2>1. "clear_queue" \notin Working \cup Clearing
    BY DEF Working, Clearing, Inside, Searching
  <2> QED BY <1>1, <2>1, PlaceFacts DEF PhaseInv
<1>3. Where[p] = "done" /\ Where' = [Where EXCEPT ![p] = "out"]
  BY <1>1, WhereFacts, WhereStep, LeftPlaces
<1>4. \A q \in Procs : Where[q] # "in"
  BY <1>2 DEF Where
<1>5. Promise!Prepare(p)
  BY <1>1, <1>3, <1>4 DEF Promise!Prepare, Where, Pend
<1> QED BY <1>5 DEF Promise!Next

\* Everything else is not seen from outside.
LEMMA OthersRefine ==
  ASSUME IInv, NEW p \in Procs,
         \/ CallProgress(p) \/ SetExternal(p) \/ Enter(p) \/ ResetOwn(p)
         \/ GetBuf(p) \/ PopHead(p) \/ Land(p) \/ (\E v \in Procs : StealNothing(p, v))
         \/ KeepSearching(p) \/ Vote(p) \/ AwaitVotes(p) \/ ResetTd(p)
  PROVE  UNCHANGED Promise!vars
<1>1. Types /\ pc \in [Procs -> Places]
  BY DEF IInv, Types
<1>2. Pend' = Pend
  BY CallProgressInv, SetExternalInv, EnterInv, ResetOwnInv, GetBufInv, PopHeadInv,
     LandInv, StealNothingInv, KeepSearchingInv, VoteInv, AwaitVotesInv, ResetTdInv
<1>3. conf' = conf
  BY DEF CallProgress, SetExternal, Enter, ResetOwn, GetBuf, PopHead, Land,
         StealNothing, KeepSearching, Vote, AwaitVotes, ResetTd
<1>4. Where' = Where
  <2>1. CASE CallProgress(p) \/ SetExternal(p)
    <3>1. pc' = pc
      BY <2>1 DEF CallProgress, SetExternal
    <3> QED BY <3>1 DEF Where
  <2>2. CASE Enter(p)
    BY <1>1, <2>2, WhereSame, LeftPlaces DEF Enter, Goto
  <2>3. CASE ResetOwn(p)
    BY <1>1, <2>3, WhereSame, LeftPlaces DEF ResetOwn, ResetFirst, Goto
  <2>4. CASE ResetTd(p)
    BY <1>1, <2>4, WhereSame, LeftPlaces DEF ResetTd, Goto
  <2>5. CASE \/ GetBuf(p) \/ PopHead(p) \/ Land(p) \/ (\E v \in Procs : StealNothing(p, v))
             \/ KeepSearching(p) \/ Vote(p) \/ AwaitVotes(p)
    <3>1. pc[p] \in {"get", "pop", "copy", "search", "check"}
      BY <2>5 DEF GetBuf, PopHead, Land, StealNothing, KeepSearching, Vote, AwaitVotes
    <3>2. PICK l \in {"pop", "run", "check", "search"} : pc' = [pc EXCEPT ![p] = l]
      BY <2>5 DEF GetBuf, PopHead, Land, StealNothing, KeepSearching, Vote, AwaitVotes, Goto
    <3> QED BY <1>1, <3>1, <3>2, WhereSame, LeftPlaces
  <2> QED BY <2>1, <2>2, <2>3, <2>4, <2>5
<1> QED BY <1>2, <1>3, <1>4, Stuttering

LEMMA ResetBarrierRefines ==
  ASSUME IInv, NEW b \in {"td_reset", "td_ready"}, Barrier(b)
  PROVE  UNCHANGED Promise!vars
<1>1. /\ \A q \in Procs : pc[q] = b /\ pc'[q] = After(b)
      /\ conf' = conf /\ Pend' = Pend
  BY ResetBarrierInv DEF Barrier, All
<1>2. b \notin Outside \cup Inside /\ After(b) \notin Outside \cup Inside
  BY LeftPlaces DEF After
<1>3. Where' = Where
  BY <1>1, <1>2 DEF Where
<1> QED BY <1>1, <1>3, Stuttering

LEMMA StepRefines ==
  ASSUME IInv, [Next]_vars PROVE [Promise!Next]_Promise!vars
<1>1. CASE UNCHANGED vars
  <2>1. Pend' = Pend /\ conf' = conf /\ pc' = pc
    BY <1>1, FrameInv DEF vars
  <2>2. Where' = Where
    BY <2>1 DEF Where
  <2> QED BY <2>1, <2>2, Stuttering
<1>2. ASSUME NEW b \in Barriers, Barrier(b) PROVE [Promise!Next]_Promise!vars
  BY <1>2, StartRefines, ResetBarrierRefines DEF Barriers
<1>3. ASSUME NEW p \in Procs,
             \/ Add(p) \/ CallProgress(p) \/ SetExternal(p) \/ Enter(p) \/ ResetOwn(p)
      PROVE  [Promise!Next]_Promise!vars
  BY <1>3, AddRefines, OthersRefine
<1>4. ASSUME NEW p \in Procs, Step(p) PROVE [Promise!Next]_Promise!vars
  <2>1. CASE GetBuf(p) \/ PopHead(p) \/ KeepSearching(p) \/ ResetTd(p)
    BY <2>1, OthersRefine
  <2>2. CASE PopNothing(p) \/ Return(p) \/ ResetQueue(p)
    BY <2>2, PopNothingRefines, ReturnRefines, ResetQueueRefines
  <2>3. CASE Steal(p)
    BY <2>3, OthersRefine, ClaimRefines DEF Steal
  <2>4. CASE TdVote(p)
    BY <2>4, OthersRefine, HearRefines, DecideRefines DEF TdVote
  <2> QED BY <1>4, <2>1, <2>2, <2>3, <2>4 DEF Step
<1> QED BY <1>1, <1>2, <1>3, <1>4 DEF Next

\* Everyone's steps together do what Processing promises: each task that is added is
\* completed once, and nobody returns from gtc_process while a task is left that
\* could come to it, whatever is stolen while the waves of votes pass.
THEOREM ProcessingImplemented == Spec => ImplementsProcessing
<1>1. Init => Promise!Init
  <2> SUFFICES ASSUME Init PROVE Promise!Init
    OBVIOUS
  <2>1. conf.stealing \in BOOLEAN
    BY BoundType DEF Init
  <2>2. \A p \in Procs : pc[p] \in Outside /\ Pend[p] = 0
    <3>1. IInv /\ \A p \in Procs : pc[p] = "idle" /\ spawned[p] = 0
      BY InitInv DEF Init, All
    <3> QED BY <3>1, LeftPlaces DEF IInv, KeepInv
  <2>3. Where = [p \in Procs |-> "out"]
    BY <2>2, WhereFacts
  <2>4. Pend = [p \in Procs |-> 0]
    BY <2>2 DEF Pend
  <2> QED BY <2>1, <2>3, <2>4 DEF Promise!Init, Where, Pend
<1>2. IInv /\ [Next]_vars => [Promise!Next]_Promise!vars
  BY StepRefines
<1> QED BY <1>1, <1>2, InvCorrect, PTL DEF Spec, ImplementsProcessing, Promise!Spec
=============================================================================
