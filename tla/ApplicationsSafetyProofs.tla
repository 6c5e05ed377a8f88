---------------------- MODULE ApplicationsSafetyProofs ----------------------
(***************************************************************************)
(* The safety of the example programs, for every number of processes and   *)
(* every program that the assumptions of Applications allow.               *)
(*                                                                         *)
(* The inductive invariant says that every process is at a place of the    *)
(* protocol (ApplicationsProofs) from which the steps it has still to take *)
(* lead to an end, that all processes have the same collectives before     *)
(* them, and that everything else of the state fits the places: what the   *)
(* library has of the process, its queue, its memory, what it has printed. *)
(* A process's own step moves its place alone; a collective, which is the  *)
(* next step of all of them, moves all places.                             *)
(***************************************************************************)
EXTENDS ApplicationsProofs, FiniteSetTheorems

(***************************************************************************)
(* Where the processes are.                                                *)
(***************************************************************************)
\* What a process has still to do: gtc_destroy also finalises the library that
\* gtc_create has initialised.
Whole(a, s, h) == IF a.prog = "tasks" /\ h.ph < 9 THEN Cat(s, GtcFini) ELSE s

Remaining(a, s, h) == Picked(Whole(a, s, h), CollectiveOps)

\* Process p is at place h and comes to the end with the steps s.
OnPath(a, p, s, h) ==
  /\ h \in Places /\ s \in Seq(Steps(a))
  /\ \E e : Ending(e) /\ Path(Protocol(a, p), Whole(a, s, h), h, e)
  /\ a.prog = "tasks" /\ h.ph < 9 => Closes(a, s)

\* What step x leaves of the steps after it.
After(a, x, t) == IF x.op = "release" /\ a.prog = "tasks" THEN GtcFini ELSE t

LEMMA OnPathMain ==
  ASSUME NEW a, WellFormed(a), NEW p \in Procs
  PROVE  OnPath(a, p, Main(a, p), Beginning) /\ Remaining(a, Main(a, p), Beginning) = Picked(Full(a, p), CollectiveOps)
<1>1. PICK e : Ending(e) /\ Way(a, p, Full(a, p), Beginning, e)
  BY MainWay
<1>2. Beginning \in Places /\ Beginning.ph = 0
  BY DEF Beginning, Places
<1>3. Whole(a, Main(a, p), Beginning) = Full(a, p)
  <2>1. Beginning.ph < 9
    BY <1>2
  <2>2. CASE a.prog = "tasks"
    <3>1. Full(a, p) = Main(a, p) \o GtcFini
      BY <2>2, Zenon DEF Full
    <3> QED BY <3>1, <2>1, <2>2, Zenon DEF Whole, Cat
  <2>3. CASE a.prog # "tasks"
    BY <2>3, Zenon DEF Whole, Full
  <2> QED BY <2>2, <2>3
<1>4. Main(a, p) \in Seq(Steps(a))
  BY MainsSame DEF Same
<1>5. a.prog = "tasks" => Closes(a, Main(a, p))
  BY WayTasks
<1>6. Path(Protocol(a, p), Full(a, p), Beginning, e)
  BY <1>1, Zenon DEF Way
<1>7. Path(Protocol(a, p), Whole(a, Main(a, p), Beginning), Beginning, e)
  BY <1>3, <1>6, Zenon
<1>8. Remaining(a, Main(a, p), Beginning) = Picked(Full(a, p), CollectiveOps)
  BY <1>3, Zenon DEF Remaining
<1> QED BY <1>1, <1>2, <1>4, <1>5, <1>7, <1>8, Zenon DEF OnPath

\* A step is one of the protocol.
LEMMA OnPathWhole ==
  ASSUME NEW a, NEW p \in Procs, NEW s, NEW h, OnPath(a, p, s, h)
  PROVE  /\ s \in Seq(Steps(a)) /\ h \in Places /\ h.ph \in 0..10
         /\ GtcFini \in Seq(Steps(a)) /\ GtcFini # <<>>
         /\ Whole(a, s, h) \in Seq(Steps(a))
         /\ s # <<>> => /\ Whole(a, s, h) # <<>> /\ Head(Whole(a, s, h)) = Head(s) /\ Head(s) \in Steps(a)
                        /\ Tail(s) \in Seq(Steps(a))
                        /\ Tail(Whole(a, s, h)) = IF a.prog = "tasks" /\ h.ph < 9 THEN Cat(Tail(s), GtcFini) ELSE Tail(s)
<1>1. s \in Seq(Steps(a)) /\ h \in Places
  BY DEF OnPath
<1>2. h.ph \in 0..10
  BY <1>1 DEF Places
<1>3. GtcFini \in Seq(Steps(a)) /\ GtcFini # <<>>
  BY CallsMade DEF GtcFini
<1> DEFINE S == Steps(a)
<1> HIDE DEF S
<1>4. Cat(s, GtcFini) \in Seq(S)
  BY <1>1, <1>3, CatType DEF S
<1>5. ASSUME s # <<>>
      PROVE  /\ Cat(s, GtcFini) # <<>> /\ Head(Cat(s, GtcFini)) = Head(s) /\ Tail(Cat(s, GtcFini)) = Cat(Tail(s), GtcFini)
             /\ Head(s) \in S /\ Tail(s) \in Seq(S)
  BY <1>1, <1>3, <1>5, CatHead DEF S
<1> QED BY <1>1, <1>2, <1>3, <1>4, <1>5, Zenon DEF Whole, S

\* A step of an unfinished process leads on.
LEMMA OnPathStep ==
  ASSUME NEW a, NEW p \in Procs, NEW s, NEW h, OnPath(a, p, s, h), s # <<>>
  PROVE  \E k : /\ k \in Places /\ Moves(a, p, h, Head(s), k) /\ Head(s) \in Steps(a)
                /\ OnPath(a, p, After(a, Head(s), Tail(s)), k)
                /\ Head(s).op \in CollectiveOps =>
                     Remaining(a, s, h) = Cat(<<Head(s)>>, Remaining(a, After(a, Head(s), Tail(s)), k))
                /\ Head(s).op \notin CollectiveOps =>
                     Remaining(a, s, h) = Remaining(a, After(a, Head(s), Tail(s)), k)
                /\ Head(s).op = "release" /\ a.prog = "tasks" => Tail(s) = <<>>
<1> DEFINE w == Whole(a, s, h)  x == Head(s)  t == Tail(s)  v == After(a, x, t)
<1>1. /\ s \in Seq(Steps(a)) /\ h \in Places /\ h.ph \in 0..10
      /\ GtcFini \in Seq(Steps(a)) /\ GtcFini # <<>>
      /\ w \in Seq(Steps(a)) /\ w # <<>> /\ Head(w) = x /\ x \in Steps(a) /\ t \in Seq(Steps(a))
      /\ Tail(w) = IF a.prog = "tasks" /\ h.ph < 9 THEN Cat(t, GtcFini) ELSE t
  BY OnPathWhole
<1>2. PICK e : Ending(e) /\ Path(Protocol(a, p), w, h, e)
  BY Zenon DEF OnPath
<1> HIDE DEF w
<1>3. PICK k : <<h, x, k>> \in Protocol(a, p) /\ Path(Protocol(a, p), Tail(w), k, e)
  BY <1>1, <1>2, PathHead
<1>4. k \in Places /\ Moves(a, p, h, x, k)
  BY <1>3 DEF Protocol
<1>5. k.ph \in 0..10 /\ k.ph = PhaseAfter(h.ph, x.op) /\ Permits(a, p, h, x)
  BY <1>4 DEF Moves, Places
<1>6. /\ x.op = "release" => k.ph = 9 /\ h.ph < 9
      /\ x.op # "release" => (h.ph < 9 <=> k.ph < 9)
  <2>1. x.op = "release" => h.ph = 8
    BY <1>5 DEF Permits
  <2>2. x.op = "finalize" => h.ph = 9
    BY <1>5 DEF Permits
  <2>3. /\ x.op = "init" => h.ph = 0
        /\ x.op = "implicit_init" => h.ph \in {0, 1}
        /\ x.op = "register" => h.ph = 2
        /\ x.op = "clod_create" => h.ph = 3
        /\ x.op = "executed" => h.ph = 5
        /\ x.op = "start" => h.ph = 4
        /\ x.op \in LoopOps \ {"start"} => h.ph = 6
        /\ x.op = "clod_destroy" => h.ph = 7
    BY <1>5 DEF Permits
  <2> QED BY <2>1, <2>2, <2>3, <1>5, <1>1 DEF PhaseAfter, LoopOps
<1>7. a.prog = "tasks" /\ h.ph < 9 => Closes(a, s)
  BY DEF OnPath
<1>8. /\ Tail(w) = Whole(a, v, k) /\ v \in Seq(Steps(a))
      /\ a.prog = "tasks" /\ k.ph < 9 => Closes(a, v)
      /\ x.op = "release" /\ a.prog = "tasks" => t = <<>>
  <2>1. CASE a.prog = "tasks" /\ x.op = "release"
    <3>1. t = <<>> /\ k.ph = 9 /\ h.ph < 9
      BY <2>1, <1>6, <1>7, ClosesHead
    <3>2. Tail(w) = Cat(t, GtcFini) /\ v = GtcFini
      BY <3>1, <1>1, <2>1 DEF After
    <3> DEFINE S == Steps(a)
    <3>4. GtcFini \in Seq(S)
      BY <1>1
    <3> HIDE DEF S
    <3>5. Cat(<<>>, GtcFini) = GtcFini
      BY <3>4, CatEmpty
    <3>6. ~(k.ph < 9)
      BY <3>1
    <3>7. Whole(a, v, k) = GtcFini
      BY <3>6, <3>2, Zenon DEF Whole
    <3>8. Tail(w) = GtcFini
      BY <3>2, <3>1, <3>5, Zenon
    <3> QED BY <3>1, <3>2, <3>6, <3>7, <3>8, <1>1, Zenon
  <2>2. CASE ~(a.prog = "tasks" /\ x.op = "release")
    <3>1. v = t
      BY <2>2 DEF After
    <3>2. CASE a.prog = "tasks" /\ h.ph < 9
      <4>1. k.ph < 9 /\ Closes(a, t)
        BY <3>2, <2>2, <1>6, <1>7, ClosesHead
      <4>2. Tail(w) = Cat(t, GtcFini)
        BY <3>2, <1>1
      <4>3. Whole(a, t, k) = Cat(t, GtcFini)
        BY <4>1, <3>2, Zenon DEF Whole
      <4> QED BY <3>1, <2>2, <4>1, <4>2, <4>3, <1>1, Zenon
    <3>3. CASE ~(a.prog = "tasks" /\ h.ph < 9)
      <4>1. ~(a.prog = "tasks" /\ k.ph < 9)
        BY <3>3, <1>6, <2>2
      <4>2. Whole(a, t, k) = t
        BY <4>1, Zenon DEF Whole
      <4>3. Tail(w) = t
        BY <3>3, <1>1
      <4> QED BY <3>1, <2>2, <4>1, <4>2, <4>3, <1>1, Zenon
    <3> QED BY <3>2, <3>3
  <2> QED BY <2>1, <2>2
<1>9. OnPath(a, p, v, k)
  <2>1. Path(Protocol(a, p), Whole(a, v, k), k, e)
    BY <1>3, <1>8, Zenon
  <2> QED BY <2>1, <1>2, <1>4, <1>8, Zenon DEF OnPath
<1>10. /\ x.op \in CollectiveOps => Picked(w, CollectiveOps) = Cat(<<x>>, Picked(Tail(w), CollectiveOps))
       /\ x.op \notin CollectiveOps => Picked(w, CollectiveOps) = Picked(Tail(w), CollectiveOps)
  <2> DEFINE S == Steps(a)  c == Head(w)
  <2>1. w \in Seq(S) /\ w # <<>> /\ x = c
    BY <1>1
  <2> HIDE DEF S
  <2>2. /\ Head(w).op \in CollectiveOps => Picked(w, CollectiveOps) = <<Head(w)>> \o Picked(Tail(w), CollectiveOps)
        /\ Head(w).op \notin CollectiveOps => Picked(w, CollectiveOps) = Picked(Tail(w), CollectiveOps)
    BY <2>1, PickedTail
  <2> QED BY <2>1, <2>2, Zenon DEF Cat
<1>11. /\ x.op \in CollectiveOps => Remaining(a, s, h) = Cat(<<x>>, Remaining(a, v, k))
       /\ x.op \notin CollectiveOps => Remaining(a, s, h) = Remaining(a, v, k)
  BY <1>10, <1>8, Zenon DEF Remaining, w
<1> QED BY <1>1, <1>4, <1>8, <1>9, <1>11

\* Steps that go before others: a process's own, without collectives.
LEMMA OnPathWith ==
  ASSUME NEW a, NEW p \in Procs, NEW u, NEW t, NEW h \in Places, NEW k, OnPath(a, p, t, k),
         u \in Seq(Steps(a)), Path(Protocol(a, p), u, h, k), Ops(u) \cap CollectiveOps = {}, "release" \notin Ops(u),
         h.ph < 9, k.ph < 9
  PROVE  OnPath(a, p, Cat(u, t), h) /\ Remaining(a, Cat(u, t), h) = Remaining(a, t, k)
<1>1. t \in Seq(Steps(a)) /\ Whole(a, t, k) \in Seq(Steps(a)) /\ GtcFini \in Seq(Steps(a))
  BY OnPathWhole
<1>2. PICK e : Ending(e) /\ Path(Protocol(a, p), Whole(a, t, k), k, e)
  BY Zenon DEF OnPath
<1>3. Whole(a, Cat(u, t), h) = Cat(u, Whole(a, t, k))
  <2> DEFINE S == Steps(a)
  <2>1. u \in Seq(S) /\ t \in Seq(S) /\ GtcFini \in Seq(S)
    BY <1>1
  <2> HIDE DEF S
  <2>2. Cat(Cat(u, t), GtcFini) = Cat(u, Cat(t, GtcFini))
    BY <2>1, CatAssociative
  <2> QED BY <2>2, Zenon DEF Whole
<1>4. Path(Protocol(a, p), Cat(u, Whole(a, t, k)), h, e)
  BY <1>1, <1>2, PathCat
<1>5. a.prog = "tasks" => Closes(a, Cat(u, t))
  <2>1. a.prog = "tasks" => Closes(a, t)
    BY DEF OnPath
  <2> QED BY <2>1, ClosesCat
<1>6. Cat(u, t) \in Seq(Steps(a))
  BY <1>1, CatType
<1>7. OnPath(a, p, Cat(u, t), h)
  <2>1. Path(Protocol(a, p), Whole(a, Cat(u, t), h), h, e)
    BY <1>3, <1>4, Zenon
  <2> QED BY <2>1, <1>2, <1>5, <1>6, Zenon DEF OnPath
<1>8. Picked(Cat(u, Whole(a, t, k)), CollectiveOps) = Picked(Whole(a, t, k), CollectiveOps)
  <2> DEFINE S == Steps(a)  w == Whole(a, t, k)
  <2>1. u \in Seq(S) /\ w \in Seq(S) /\ <<>> \in Seq(S)
    BY <1>1
  <2> HIDE DEF S, w
  <2>2. Picked(Cat(u, w), CollectiveOps) = Cat(Picked(u, CollectiveOps), Picked(w, CollectiveOps))
    BY <2>1, PickedCat
  <2>3. Picked(u, CollectiveOps) = <<>>
    BY <2>1, PickedOthers
  <2>4. Picked(w, CollectiveOps) \in Seq(S)
    <3>1. Barrier \in S
      BY StepNames DEF S
    <3> QED BY <2>1, <3>1, PickedBasic
  <2>5. Cat(<<>>, Picked(w, CollectiveOps)) = Picked(w, CollectiveOps)
    BY <2>4, CatEmpty
  <2>6. Picked(Cat(u, w), CollectiveOps) = Picked(w, CollectiveOps)
    BY <2>2, <2>3, <2>5, Zenon
  <2> QED BY <2>6 DEF w
<1>9. Remaining(a, Cat(u, t), h) = Remaining(a, t, k)
  BY <1>3, <1>8, Zenon DEF Remaining
<1> QED BY <1>7, <1>9

\* At the end there is nothing left to do.
LEMMA OnPathEnd ==
  ASSUME NEW a, NEW p \in Procs, NEW h, OnPath(a, p, <<>>, h)
  PROVE  h.ph = 10 /\ h.depth = 0 /\ h.blocks = {LockBlock}
<1>1. ~(a.prog = "tasks" /\ h.ph < 9)
  <2>1. ~ Closes(a, <<>>)
    BY ClosesHead
  <2> QED BY <2>1 DEF OnPath
<1>2. Whole(a, <<>>, h) = <<>>
  BY <1>1, Zenon DEF Whole
<1>3. PICK e : Ending(e) /\ Path(Protocol(a, p), Whole(a, <<>>, h), h, e)
  BY Zenon DEF OnPath
<1>4. Path(Protocol(a, p), <<>>, h, e)
  BY <1>2, <1>3, Zenon
<1>5. e = h
  BY <1>4, PathNothing
<1> QED BY <1>3, <1>5 DEF Ending
-----------------------------------------------------------------------------
\* What is true of a process's place, whatever it has done on the way.
PlaceOK(a, h) ==
  /\ h.classes <= Len(ClassNames(a)) /\ h.objects <= Len(ObjectNames(a))
  /\ h.ph <= 3 => h.objects = 0
  /\ h.ph <= 4 => h.count <= Entry(a)
  /\ h.ph >= 5 => Complete(a, h) /\ h.count >= Entry(a)
  /\ h.ph \in {5, 6} => h.count = Entry(a)
  /\ h.ph >= 8 => h.count > Entry(a)
  /\ h.totals /\ a.prog = "tasks" => h.count > Turns(a) + N
  /\ h.blank => h.ph \in {4, 5}

\* From a step of the loop the process goes back to the loop or into a task.
InLoop(x, k, h) == x.op \in LoopOps /\ (h = [k EXCEPT !.ph = 5] \/ h = [k EXCEPT !.ph = 6])

\* Process p goes from place g to place h with step x: as the protocol has it, but in
\* gtc_process, where it goes back to the loop or into a task.
Goes(a, p, g, x, h) ==
  /\ g \in Places /\ h \in Places /\ x \in Steps(a) /\ PlaceOK(a, g) /\ PlaceOK(a, h)
  /\ \E k \in Places :
       /\ Moves(a, p, g, x, k)
       /\ h = k \/ InLoop(x, k, h)

LEMMA NamesFinite ==
  ASSUME NEW a, WellFormed(a)
  PROVE  /\ Len(ClassNames(a)) \in Nat /\ Len(ObjectNames(a)) \in Nat /\ Entry(a) \in Nat /\ Turns(a) \in Nat
         /\ Len(ClassNames(a)) <= 2 /\ Len(ObjectNames(a)) <= 3 /\ Len(ClassNames(a)) > 0
         /\ N \in Nat /\ Turns(a) >= Entry(a)
<1>1. a.prog \in {"bpc", "uts", "mad3d", "tasks"}
  BY DEF WellFormed
<1>2. Len(<<"ntasks", "nproducers", "nconsumers">>) = 3 /\ Len(<<>>) = 0
  OBVIOUS
<1>3. Len(ObjectNames(a)) \in {0, 3}
  BY <1>2 DEF ObjectNames
<1>4. Len(ClassNames(a)) \in {1, 2}
  BY <1>1 DEF ClassNames
<1>5. Entry(a) \in {9, 11} /\ Turns(a) = Entry(a) + 2
  BY DEF Entry, Turns
<1>6. N \in Nat
  BY NAssumption
<1> DEFINE lc == Len(ClassNames(a))  lo == Len(ObjectNames(a))  en == Entry(a)  tu == Turns(a)
<1> HIDE DEF lc, lo, en, tu
<1>7. lc \in {1, 2} /\ lo \in {0, 3} /\ en \in {9, 11} /\ tu = en + 2
  BY <1>3, <1>4, <1>5 DEF lc, lo, en, tu
<1>8. lc \in Nat /\ lo \in Nat /\ en \in Nat /\ tu \in Nat /\ lc <= 2 /\ lo <= 3 /\ lc > 0 /\ tu >= en
  BY <1>7
<1> QED BY <1>6, <1>8 DEF lc, lo, en, tu

LEMMA PlaceMove ==
  ASSUME NEW a, WellFormed(a), NEW p \in Procs, NEW g \in Places, NEW k \in Places, NEW x \in Steps(a),
         Moves(a, p, g, x, k), PlaceOK(a, g)
  PROVE  PlaceOK(a, k)
<1> DEFINE lc == Len(ClassNames(a))  lo == Len(ObjectNames(a))  en == Entry(a)  tu == Turns(a)
<1>1. lc \in Nat /\ lo \in Nat /\ en \in Nat /\ tu \in Nat /\ N \in Nat /\ tu >= en
  BY NamesFinite
<1>2. /\ g.ph \in 0..10 /\ g.classes \in Nat /\ g.objects \in Nat /\ g.count \in Nat
      /\ k.ph \in 0..10 /\ k.classes \in Nat /\ k.objects \in Nat /\ k.count \in Nat
      /\ g.blank \in BOOLEAN /\ k.blank \in BOOLEAN /\ g.totals \in BOOLEAN /\ k.totals \in BOOLEAN
  BY DEF Places
<1>3. /\ g.classes <= lc /\ g.objects <= lo
      /\ g.ph <= 3 => g.objects = 0
      /\ g.ph <= 4 => g.count <= en
      /\ g.ph >= 5 => (g.classes = lc /\ g.objects = lo) /\ g.count >= en
      /\ g.ph \in {5, 6} => g.count = en
      /\ g.ph >= 8 => g.count > en
      /\ g.totals /\ a.prog = "tasks" => g.count > tu + N
      /\ g.blank => g.ph \in {4, 5}
  BY DEF PlaceOK, Complete
<1>4. /\ x.op = "associate" => g.ph = 4 /\ g.objects < lo
      /\ x.op = "class" => g.ph \in 1..4 /\ g.classes < lc
      /\ x.op = "executed" => g.ph = 5
      /\ x.op = "start" => g.ph = 4 /\ (g.classes = lc /\ g.objects = lo) /\ g.count = en
      /\ x.op \in LoopOps \ {"start"} => g.ph = 6
      /\ x.op = "release" => g.ph = 8
      /\ x.op = "finalize" => g.ph = 9
      /\ x.op = "clod_destroy" => g.ph = 7 /\ g.count > en
      /\ x.op = "clod_create" => g.ph = 3
      /\ x.op = "register" => g.ph = 2
      /\ x.op = "init" => g.ph = 0
      /\ x.op = "implicit_init" => g.ph \in {0, 1}
      /\ x.op = "inplace" => g.ph \in {4, 5}
      /\ TotalsStep(x) => (a.prog = "tasks" => g.count > tu + N)
      /\ x.op \in CollectiveOps => g.ph \in {1, 2, 3, 4, 7, 8, 9} /\ (g.ph < 5 => g.count < en)
  <2>1. Permits(a, p, g, x)
    BY DEF Moves
  <2>2. x.op = "inplace" => g.ph \in {4, 5}
    BY <2>1 DEF Permits, SeedOps, WorkOps
  <2> QED BY <2>1, <2>2 DEF Permits, Complete
<1>5. /\ k.ph = PhaseAfter(g.ph, x.op)
      /\ k.classes = IF x.op = "class" THEN g.classes + 1 ELSE g.classes
      /\ k.objects = IF x.op = "associate" THEN g.objects + 1 ELSE g.objects
      /\ k.count = IF x.op \in CollectiveOps THEN g.count + 1 ELSE g.count
      /\ k.blank <=> x.op = "inplace"
      /\ k.totals <=> g.totals \/ TotalsStep(x)
  BY DEF Moves
<1>6. TotalsStep(x) => x.op = "print"
  BY DEF TotalsStep
<1>p. /\ x.op \in LoopOps => k.ph = 7
      /\ x.op = "init" => k.ph = 1
      /\ x.op = "implicit_init" => k.ph = 2
      /\ x.op = "register" => k.ph = 3
      /\ x.op = "clod_create" => k.ph = 4
      /\ x.op = "executed" => k.ph = 6
      /\ x.op = "clod_destroy" => k.ph = 8
      /\ x.op = "release" => k.ph = 9
      /\ x.op = "finalize" => k.ph = 10
      /\ x.op \notin LoopOps \cup {"init", "implicit_init", "register", "clod_create", "executed", "clod_destroy",
                               "release", "finalize"} => k.ph = g.ph
  BY <1>5 DEF PhaseAfter, LoopOps
<1>l. /\ x.op \in LoopOps => x.op \notin CollectiveOps /\ x.op \notin {"class", "associate", "inplace", "print"}
      /\ x.op \in CollectiveOps => x.op \notin LoopOps /\ x.op \notin {"class", "associate", "inplace", "print", "init", "implicit_init",
              "register", "clod_create", "executed", "clod_destroy", "release"}
      /\ x.op \in {"class", "associate", "inplace", "print", "init", "implicit_init", "register", "clod_create",
                   "executed", "clod_destroy", "release"} => x.op \notin CollectiveOps /\ x.op \notin LoopOps
      /\ "finalize" \in CollectiveOps
  BY DEF LoopOps, CollectiveOps
<1> DEFINE ok == /\ k.classes <= lc /\ k.objects <= lo
                 /\ k.ph <= 3 => k.objects = 0
                 /\ k.ph <= 4 => k.count <= en
                 /\ k.ph >= 5 => (k.classes = lc /\ k.objects = lo) /\ k.count >= en
                 /\ k.ph \in {5, 6} => k.count = en
                 /\ k.ph >= 8 => k.count > en
                 /\ k.totals /\ a.prog = "tasks" => k.count > tu + N
                 /\ k.blank => k.ph \in {4, 5}
<1>o. SUFFICES ok
  BY DEF PlaceOK, Complete
<1> HIDE DEF lc, lo, en, tu
<1>7. CASE x.op \in LoopOps
  <2>1. /\ g.ph \in {4, 6} /\ g.classes = lc /\ g.objects = lo /\ g.count = en
    BY <1>3, <1>4, <1>7, <1>2
  <2>2. k.ph = 7 /\ k.classes = g.classes /\ k.objects = g.objects /\ k.count = g.count /\ ~k.blank /\ (k.totals => g.totals)
    BY <1>5, <1>6, <1>7, <1>p, <1>l
  <2> QED BY <1>1, <1>2, <1>3, <2>1, <2>2
<1>8. CASE x.op \in CollectiveOps
  <2>1. k.count = g.count + 1 /\ k.classes = g.classes /\ k.objects = g.objects /\ ~k.blank /\ (k.totals => g.totals)
    BY <1>5, <1>6, <1>8, <1>l
  <2>2. g.ph \in {1, 2, 3, 4, 7, 8, 9} /\ (g.ph < 5 => g.count < en)
    BY <1>4, <1>8
  <2>3. k.ph = g.ph \/ (g.ph = 9 /\ k.ph = 10)
    BY <1>p, <1>l, <1>8, <1>4
  <2> QED BY <1>1, <1>2, <1>3, <2>1, <2>2, <2>3
<1>9. CASE x.op \notin LoopOps /\ x.op \notin CollectiveOps
  <2>1. k.count = g.count /\ (k.totals => g.totals \/ (a.prog = "tasks" => g.count > tu + N))
    BY <1>4, <1>5, <1>9
  <2>2. /\ k.ph <= 4 => g.ph <= 4
        /\ k.ph >= 5 => g.ph >= 5
        /\ k.ph <= 3 => g.ph <= 3
        /\ k.ph \in {5, 6} => g.ph \in {5, 6}
        /\ k.ph >= 8 => g.ph >= 8 \/ g.count > en
    BY <1>2, <1>4, <1>p, <1>9, <1>l
  <2>3. CASE x.op \notin {"class", "associate", "inplace"}
    <3>1. k.classes = g.classes /\ k.objects = g.objects /\ ~k.blank
      BY <1>5, <2>3
    <3> QED BY <1>1, <1>2, <1>3, <2>1, <2>2, <3>1
  <2>4. CASE x.op \in {"class", "associate", "inplace"}
    <3>1. k.ph = g.ph /\ g.ph \in 1..5 /\ (x.op # "inplace" => g.ph \in 1..4 /\ ~k.blank)
          /\ (x.op = "inplace" => k.classes = g.classes /\ k.objects = g.objects /\ g.ph \in {4, 5})
          /\ (x.op = "class" => k.classes = g.classes + 1 /\ k.objects = g.objects /\ g.classes < lc)
          /\ (x.op = "associate" => k.classes = g.classes /\ k.objects = g.objects + 1 /\ g.objects < lo /\ g.ph = 4)
      BY <1>4, <1>5, <1>p, <1>l, <2>4, <1>2
    <3> QED BY <1>1, <1>2, <1>3, <2>1, <3>1, <2>4
  <2> QED BY <2>3, <2>4
<1> QED BY <1>7, <1>8, <1>9

\* After a step of the loop the process is in the loop, or in a task.
LEMMA PlaceLoop ==
  ASSUME NEW a, WellFormed(a), NEW p \in Procs, NEW g \in Places, NEW k \in Places, NEW x \in Steps(a),
         Moves(a, p, g, x, k), PlaceOK(a, g), x.op \in LoopOps,
         NEW h, h = [k EXCEPT !.ph = 5] \/ h = [k EXCEPT !.ph = 6]
  PROVE  /\ h \in Places /\ PlaceOK(a, h) /\ Goes(a, p, g, x, h) /\ k.ph = 7 /\ ~k.blank
         /\ h.count = g.count /\ k.count = g.count /\ h.ph \in {5, 6} /\ ~h.blank /\ g.ph \in {4, 6}
<1>1. k.ph = 7 /\ ~k.blank /\ k.count = g.count
  BY DEF Moves, PhaseAfter, LoopOps, CollectiveOps, Places
<1>2. h \in Places /\ h.ph \in {5, 6} /\ h.classes = k.classes /\ h.objects = k.objects /\ h.count = k.count
      /\ (h.totals <=> k.totals) /\ (h.blank <=> k.blank)
  BY DEF Places
<1>3. PlaceOK(a, k)
  BY PlaceMove
<1>4. g.count = Entry(a) /\ g.ph \in {4, 6}
  <2>1. Permits(a, p, g, x)
    BY DEF Moves
  <2>2. x.op = "start" => g.count = Entry(a) /\ g.ph = 4
    BY <2>1 DEF Permits
  <2>3. x.op # "start" => g.ph = 6
    BY <2>1 DEF Permits, LoopOps
  <2> QED BY <2>2, <2>3 DEF PlaceOK
<1>5. PlaceOK(a, h)
  <2>1. Entry(a) \in Nat
    BY NamesFinite
  <2> QED BY <1>1, <1>2, <1>3, <1>4, <2>1 DEF PlaceOK, Complete
<1>6. Goes(a, p, g, x, h)
  BY <1>2, <1>5 DEF Goes, InLoop
<1> QED BY <1>1, <1>2, <1>4, <1>5, <1>6

\* What a step has changed in a process's place.
LEMMA GoesFacts ==
  ASSUME NEW a, WellFormed(a), NEW p, NEW g, NEW x, NEW h, Goes(a, p, g, x, h)
  PROVE  /\ g \in Places /\ h \in Places /\ x \in Steps(a) /\ PlaceOK(a, g) /\ PlaceOK(a, h)
         /\ Permits(a, p, g, x)
         /\ x.op \notin LoopOps => h.ph = PhaseAfter(g.ph, x.op)
         /\ x.op \in LoopOps => h.ph \in {5, 6, 7} /\ g.ph \in {4, 6}
         /\ h.classes = IF x.op = "class" THEN g.classes + 1 ELSE g.classes
         /\ h.objects = IF x.op = "associate" THEN g.objects + 1 ELSE g.objects
         /\ h.depth = CASE x.op = "create" -> g.depth + 1 [] x.op = "destroy" -> g.depth - 1
                        [] OTHER -> g.depth
         /\ h.count = IF x.op \in CollectiveOps THEN g.count + 1 ELSE g.count
         /\ h.blank <=> x.op = "inplace"
         /\ h.blocks = CASE x.op = "alloc" -> g.blocks \cup {x.blocks}
                         [] x.op = "free" -> g.blocks \ {x.blocks}
                         [] OTHER -> g.blocks
         /\ h.mine <=> g.mine \/ Mine(x)
         /\ h.totals <=> g.totals \/ TotalsStep(x)
         /\ h.planted <=> g.planted \/ x.op = "create_tree"
<1>1. PICK k \in Places : /\ Moves(a, p, g, x, k)
                          /\ h = k \/ InLoop(x, k, h)
  BY DEF Goes
<1>i. h = k \/ InLoop(x, k, h)
  BY <1>1
<1>2. /\ h.classes = k.classes /\ h.objects = k.objects /\ h.depth = k.depth /\ h.count = k.count
      /\ (h.blank = k.blank) /\ h.blocks = k.blocks /\ (h.mine = k.mine) /\ (h.totals = k.totals)
      /\ (h.planted = k.planted)
      /\ x.op \notin LoopOps => h = k
      /\ h.ph \in {5, 6, k.ph}
  BY <1>1 DEF Places, InLoop
<1>3. g \in Places /\ h \in Places /\ x \in Steps(a) /\ PlaceOK(a, g) /\ PlaceOK(a, h)
  BY DEF Goes
<1>4. x.op \in LoopOps => h.ph \in {5, 6, 7} /\ g.ph \in {4, 6}
  <2>1. x.op \in LoopOps => k.ph = 7
    BY <1>1 DEF Moves, PhaseAfter, LoopOps
  <2>2. x.op \in LoopOps => g.ph \in {4, 6}
    BY <1>1 DEF Moves, Permits
  <2> QED BY <1>2, <2>1, <2>2
<1>5. Permits(a, p, g, x) /\ (x.op \notin LoopOps => h.ph = PhaseAfter(g.ph, x.op))
  BY <1>1, <1>2 DEF Moves
<1>6. /\ k.classes = IF x.op = "class" THEN g.classes + 1 ELSE g.classes
      /\ k.objects = IF x.op = "associate" THEN g.objects + 1 ELSE g.objects
      /\ k.depth = CASE x.op = "create" -> g.depth + 1 [] x.op = "destroy" -> g.depth - 1
                     [] OTHER -> g.depth
      /\ k.count = IF x.op \in CollectiveOps THEN g.count + 1 ELSE g.count
      /\ k.blocks = CASE x.op = "alloc" -> g.blocks \cup {x.blocks}
                      [] x.op = "free" -> g.blocks \ {x.blocks}
                      [] OTHER -> g.blocks
  BY <1>1 DEF Moves
<1>7. /\ k.blank <=> x.op = "inplace"
      /\ k.mine <=> g.mine \/ Mine(x)
      /\ k.totals <=> g.totals \/ TotalsStep(x)
      /\ k.planted <=> g.planted \/ x.op = "create_tree"
  BY <1>1 DEF Moves
<1> QED BY <1>2, <1>3, <1>4, <1>5, <1>6, <1>7

\* How a step of the loop comes after another.
LEMMA LoopMove ==
  ASSUME NEW a, NEW p, NEW k \in Places, k.ph = 7, ~k.blank, NEW o \in {"get", "pop", "search", "copy"}
  PROVE  LET h == [k EXCEPT !.ph = 6] IN <<h, Step(o), k>> \in Protocol(a, p) /\ Step(o) \in Steps(a) /\ Step(o).op = o
<1> DEFINE h == [k EXCEPT !.ph = 6]  x == Step(o)
<1>0. k.blank = FALSE /\ k.mine \in BOOLEAN /\ k.totals \in BOOLEAN /\ k.planted \in BOOLEAN
  BY DEF Places
<1>1. h \in Places /\ x \in Steps(a) /\ x.op = o
  BY DEF Places, Step, Steps, PlainSteps, LoopOps
<1>2. h.ph = 6 /\ h.classes = k.classes /\ h.objects = k.objects /\ h.depth = k.depth /\ h.count = k.count
      /\ h.blank = FALSE /\ h.blocks = k.blocks /\ h.mine = k.mine /\ h.totals = k.totals /\ h.planted = k.planted
  BY <1>0 DEF Places
<1>3. ~Mine(x) /\ ~TotalsStep(x)
  BY <1>1 DEF Mine, TotalsStep
<1> HIDE DEF h, x
<1>4. Permits(a, p, h, x)
  BY <1>1, <1>2, <1>3 DEF Permits, LoopOps, SeedOps, WorkOps, CollectiveOps
<1>5. Moves(a, p, h, x, k)
  BY <1>0, <1>1, <1>2, <1>3, <1>4 DEF Moves, PhaseAfter, LoopOps, CollectiveOps
<1> QED BY <1>1, <1>5 DEF Protocol, h, x
-----------------------------------------------------------------------------
(***************************************************************************)
(* The places of all processes: each is on a path to the end, and all have *)
(* the same collectives before them.                                       *)
(***************************************************************************)
Tracked(g) ==
  /\ WellFormed(app) /\ g \in [Procs -> Places] /\ DOMAIN script = Procs
  /\ \A p \in Procs : OnPath(app, p, script[p], g[p]) /\ PlaceOK(app, g[p])
  /\ \A p, q \in Procs : /\ g[p].count = g[q].count
                         /\ Remaining(app, script[p], g[p]) = Remaining(app, script[q], g[q])

\* Process p is put to another place with other steps to do, and nothing changes for the
\* others.
LEMMA TrackPut ==
  ASSUME NEW g, Tracked(g), NEW p \in Procs, NEW s, NEW h, app' = app,
         script' = [script EXCEPT ![p] = s],
         OnPath(app, p, s, h), PlaceOK(app, h), h.count = g[p].count,
         Remaining(app, s, h) = Remaining(app, script[p], g[p])
  PROVE  Tracked([g EXCEPT ![p] = h])'
<1> DEFINE f == [g EXCEPT ![p] = h]
<1>1. /\ WellFormed(app) /\ g \in [Procs -> Places] /\ DOMAIN script = Procs
      /\ \A q \in Procs : OnPath(app, q, script[q], g[q]) /\ PlaceOK(app, g[q])
      /\ \A q, r \in Procs : /\ g[q].count = g[r].count
                             /\ Remaining(app, script[q], g[q]) = Remaining(app, script[r], g[r])
  BY DEF Tracked
<1>2. h \in Places
  BY DEF OnPath
<1>3. f \in [Procs -> Places] /\ DOMAIN script' = Procs
  BY <1>1, <1>2
<1>4. /\ f[p] = h /\ script'[p] = s
      /\ \A q \in Procs : q # p => f[q] = g[q] /\ script'[q] = script[q]
  BY <1>1
<1> HIDE DEF f
<1>5. ASSUME NEW q \in Procs
      PROVE  /\ OnPath(app, q, script'[q], f[q]) /\ PlaceOK(app, f[q])
             /\ f[q].count = g[q].count
             /\ Remaining(app, script'[q], f[q]) = Remaining(app, script[q], g[q])
  <2>1. CASE q = p
    BY <2>1, <1>4
  <2>2. CASE q # p
    BY <2>2, <1>4, <1>1
  <2> QED BY <2>1, <2>2
<1>6. \A q, r \in Procs : /\ f[q].count = f[r].count
                          /\ Remaining(app, script'[q], f[q]) = Remaining(app, script'[r], f[r])
  <2> SUFFICES ASSUME NEW q \in Procs, NEW r \in Procs
               PROVE  /\ f[q].count = f[r].count
                      /\ Remaining(app, script'[q], f[q]) = Remaining(app, script'[r], f[r])
    OBVIOUS
  <2>1. f[q].count = g[q].count /\ Remaining(app, script'[q], f[q]) = Remaining(app, script[q], g[q])
    BY <1>5
  <2>2. f[r].count = g[r].count /\ Remaining(app, script'[r], f[r]) = Remaining(app, script[r], g[r])
    BY <1>5
  <2>3. g[q].count = g[r].count /\ Remaining(app, script[q], g[q]) = Remaining(app, script[r], g[r])
    BY <1>1
  <2> QED BY <2>1, <2>2, <2>3
<1>7. Tracked(f)' <=> /\ WellFormed(app') /\ f \in [Procs -> Places] /\ DOMAIN script' = Procs
                      /\ \A q \in Procs : OnPath(app', q, script'[q], f[q]) /\ PlaceOK(app', f[q])
                      /\ \A q, r \in Procs : /\ f[q].count = f[r].count
                                             /\ Remaining(app', script'[q], f[q]) = Remaining(app', script'[r], f[r])
  BY DEF Tracked, f
<1> QED BY <1>1, <1>3, <1>5, <1>6, <1>7 DEF f

\* A process's own step.
LEMMA TrackOwn ==
  ASSUME NEW g, Tracked(g), NEW p \in Procs, script[p] # <<>>, Now(p).op \notin CollectiveOps
  PROVE  /\ Now(p) \in Steps(app) /\ g[p] \in Places /\ PlaceOK(app, g[p]) /\ Tail(script[p]) \in Seq(Steps(app))
         /\ \E k \in Places :
              /\ Moves(app, p, g[p], Now(p), k) /\ PlaceOK(app, k) /\ k.count = g[p].count
              /\ OnPath(app, p, After(app, Now(p), Tail(script[p])), k)
              /\ Remaining(app, After(app, Now(p), Tail(script[p])), k) = Remaining(app, script[p], g[p])
              /\ Now(p).op = "release" /\ app.prog = "tasks" => Tail(script[p]) = <<>>
<1>1. WellFormed(app) /\ OnPath(app, p, script[p], g[p]) /\ PlaceOK(app, g[p]) /\ g[p] \in Places
  BY DEF Tracked
<1>2. PICK k : /\ k \in Places /\ Moves(app, p, g[p], Head(script[p]), k) /\ Head(script[p]) \in Steps(app)
               /\ OnPath(app, p, After(app, Head(script[p]), Tail(script[p])), k)
               /\ Head(script[p]).op \notin CollectiveOps =>
                    Remaining(app, script[p], g[p]) = Remaining(app, After(app, Head(script[p]), Tail(script[p])), k)
               /\ Head(script[p]).op = "release" /\ app.prog = "tasks" => Tail(script[p]) = <<>>
  BY <1>1, OnPathStep
<1>3. PlaceOK(app, k)
  BY <1>1, <1>2, PlaceMove
<1>4. Tail(script[p]) \in Seq(Steps(app))
  BY <1>1, OnPathWhole
<1>5. k.count = g[p].count
  BY <1>2 DEF Moves, Now
<1> QED BY <1>1, <1>2, <1>3, <1>4, <1>5 DEF Now

\* A step that is done, and nothing comes in its place.
LEMMA TrackDone ==
  ASSUME NEW g, Tracked(g), NEW p \in Procs, script[p] # <<>>, Now(p).op \notin CollectiveOps,
         Now(p).op # "release", app' = app, Done(p)
  PROVE  \E h : /\ Goes(app, p, g[p], Now(p), h) /\ Tracked([g EXCEPT ![p] = h])'
                /\ Now(p).op \in LoopOps => h.ph = 7
<1> DEFINE t == Tail(script[p])
<1>1. /\ Now(p) \in Steps(app) /\ g[p] \in Places /\ PlaceOK(app, g[p]) /\ t \in Seq(Steps(app))
      /\ \E k \in Places :
           /\ Moves(app, p, g[p], Now(p), k) /\ PlaceOK(app, k) /\ k.count = g[p].count
           /\ OnPath(app, p, After(app, Now(p), t), k)
           /\ Remaining(app, After(app, Now(p), t), k) = Remaining(app, script[p], g[p])
  BY TrackOwn
<1>2. PICK k \in Places :
           /\ Moves(app, p, g[p], Now(p), k) /\ PlaceOK(app, k) /\ k.count = g[p].count
           /\ OnPath(app, p, After(app, Now(p), t), k)
           /\ Remaining(app, After(app, Now(p), t), k) = Remaining(app, script[p], g[p])
  BY <1>1
<1>3. After(app, Now(p), t) = t
  BY DEF After
<1>4. script' = [script EXCEPT ![p] = t]
  <2>1. <<>> \o t = t
    BY <1>1, CatEmpty, Zenon DEF Cat
  <2>2. script' = [script EXCEPT ![p] = <<>> \o Tail(@)]
    BY DEF Done, Then
  <2>3. script' = [script EXCEPT ![p] = <<>> \o t]
    BY <2>2, Zenon
  <2> QED BY <2>1, <2>3, Zenon
<1> HIDE DEF t
<1>5. Tracked([g EXCEPT ![p] = k])'
  BY <1>2, <1>3, <1>4, TrackPut
<1>6. Goes(app, p, g[p], Now(p), k)
  BY <1>1, <1>2 DEF Goes
<1>7. Now(p).op \in LoopOps => k.ph = 7
  BY <1>2 DEF Moves, PhaseAfter, LoopOps
<1> QED BY <1>5, <1>6, <1>7

\* A step in whose place others come, where the process is at place h then.
LEMMA TrackThen ==
  ASSUME NEW g, Tracked(g), NEW p \in Procs, script[p] # <<>>, Now(p).op \notin CollectiveOps,
         Now(p).op # "release", app' = app, NEW u \in Seq(Steps(app)), Then(p, u),
         Ops(u) \cap CollectiveOps = {}, "release" \notin Ops(u), NEW k \in Places,
         OnPath(app, p, Tail(script[p]), k),
         Remaining(app, Tail(script[p]), k) = Remaining(app, script[p], g[p]), k.count = g[p].count,
         NEW h \in Places, PlaceOK(app, h), h.count = g[p].count, h.ph < 9, k.ph < 9,
         Path(Protocol(app, p), u, h, k)
  PROVE  Tracked([g EXCEPT ![p] = h])'
<1> DEFINE t == Tail(script[p])  s == Cat(u, t)
<1>1. OnPath(app, p, s, h) /\ Remaining(app, s, h) = Remaining(app, t, k)
  BY OnPathWith
<1>2. script' = [script EXCEPT ![p] = s]
  BY Zenon DEF Then, Cat
<1> HIDE DEF s, t
<1>3. Remaining(app, s, h) = Remaining(app, script[p], g[p])
  BY <1>1, Zenon DEF t
<1> QED BY <1>1, <1>2, <1>3, TrackPut
-----------------------------------------------------------------------------
(***************************************************************************)
(* The steps in whose place others come.                                   *)
(***************************************************************************)
\* The process is back in the loop, with its next step.
LEMMA TrackLoop ==
  ASSUME NEW g, Tracked(g), NEW p \in Procs, script[p] # <<>>, Now(p).op \in LoopOps, app' = app,
         NEW o \in {"get", "pop", "search", "copy"}, Then(p, <<Step(o)>>)
  PROVE  \E h : Goes(app, p, g[p], Now(p), h) /\ Tracked([g EXCEPT ![p] = h])' /\ h.ph = 6
<1>0. Now(p).op \notin CollectiveOps /\ Now(p).op # "release" /\ WellFormed(app)
  BY DEF LoopOps, CollectiveOps, Tracked
<1>1. /\ Now(p) \in Steps(app) /\ g[p] \in Places /\ PlaceOK(app, g[p])
      /\ \E k \in Places :
           /\ Moves(app, p, g[p], Now(p), k) /\ PlaceOK(app, k) /\ k.count = g[p].count
           /\ OnPath(app, p, After(app, Now(p), Tail(script[p])), k)
           /\ Remaining(app, After(app, Now(p), Tail(script[p])), k) = Remaining(app, script[p], g[p])
  BY <1>0, TrackOwn
<1>2. PICK k \in Places :
           /\ Moves(app, p, g[p], Now(p), k) /\ PlaceOK(app, k) /\ k.count = g[p].count
           /\ OnPath(app, p, After(app, Now(p), Tail(script[p])), k)
           /\ Remaining(app, After(app, Now(p), Tail(script[p])), k) = Remaining(app, script[p], g[p])
  BY <1>1
<1>3. After(app, Now(p), Tail(script[p])) = Tail(script[p])
  BY <1>0 DEF After
<1> DEFINE h == [k EXCEPT !.ph = 6]  x == Step(o)
<1>4. h \in Places /\ PlaceOK(app, h) /\ Goes(app, p, g[p], Now(p), h) /\ k.ph = 7 /\ ~k.blank /\ h.count = g[p].count
  <2>1. h = [k EXCEPT !.ph = 5] \/ h = [k EXCEPT !.ph = 6]
    OBVIOUS
  <2> HIDE DEF h, x
  <2> QED BY <1>0, <1>1, <1>2, <2>1, PlaceLoop
<1>5. h.ph = 6 /\ h.ph < 9 /\ k.ph < 9
  BY <1>4 DEF Places
<1>6. <<h, x, k>> \in Protocol(app, p) /\ x \in Steps(app) /\ x.op = o
  BY <1>4, LoopMove
<1> HIDE DEF h, x
<1> DEFINE u == <<x>>
<1>7. Path(Protocol(app, p), u, h, k) /\ u \in Seq(Steps(app)) /\ Ops(u) = {x.op}
  BY <1>6, PathOne, OpsOfOne
<1>8. Ops(u) \cap CollectiveOps = {} /\ "release" \notin Ops(u)
  BY <1>6, <1>7 DEF CollectiveOps
<1>9. Then(p, u)
  BY DEF x
<1> HIDE DEF u
<1>10. Tracked([g EXCEPT ![p] = h])'
  <2>1. OnPath(app, p, Tail(script[p]), k) /\ Remaining(app, Tail(script[p]), k) = Remaining(app, script[p], g[p])
    BY <1>2, <1>3
  <2> QED BY <1>0, <1>2, <1>4, <1>5, <1>7, <1>8, <1>9, <2>1, TrackThen
<1> QED BY <1>4, <1>5, <1>10

\* What a task's function does.
BodyOf(a, s) == \E fcn : \E b \in Bodies(a) : s = Body(a, fcn, b)

\* The process goes into a task.
LEMMA TrackExecute ==
  ASSUME NEW g, Tracked(g), NEW p \in Procs, script[p] # <<>>, Now(p).op = "pop", app' = app,
         NEW s, BodyOf(app, s),
         Then(p, s \o <<Step("executed"), Step("get")>>)
  PROVE  \E h : Goes(app, p, g[p], Now(p), h) /\ Tracked([g EXCEPT ![p] = h])' /\ h.ph = 5
<1> USE DEF BodyOf
<1>0. Now(p).op \notin CollectiveOps /\ Now(p).op # "release" /\ WellFormed(app) /\ Now(p).op \in LoopOps
  BY DEF LoopOps, CollectiveOps, Tracked
<1>1. /\ Now(p) \in Steps(app) /\ g[p] \in Places /\ PlaceOK(app, g[p])
      /\ \E k \in Places :
           /\ Moves(app, p, g[p], Now(p), k) /\ PlaceOK(app, k) /\ k.count = g[p].count
           /\ OnPath(app, p, After(app, Now(p), Tail(script[p])), k)
           /\ Remaining(app, After(app, Now(p), Tail(script[p])), k) = Remaining(app, script[p], g[p])
  BY <1>0, TrackOwn
<1>2. PICK k \in Places :
           /\ Moves(app, p, g[p], Now(p), k) /\ PlaceOK(app, k) /\ k.count = g[p].count
           /\ OnPath(app, p, After(app, Now(p), Tail(script[p])), k)
           /\ Remaining(app, After(app, Now(p), Tail(script[p])), k) = Remaining(app, script[p], g[p])
  BY <1>1
<1>3. After(app, Now(p), Tail(script[p])) = Tail(script[p])
  BY <1>0 DEF After
<1> DEFINE h == [k EXCEPT !.ph = 5]  m == [k EXCEPT !.ph = 6]  x == Step("executed")  y == Step("get")
<1>4. /\ h \in Places /\ PlaceOK(app, h) /\ Goes(app, p, g[p], Now(p), h) /\ k.ph = 7 /\ ~k.blank /\ h.count = g[p].count
      /\ m \in Places
  <2>1. (h = [k EXCEPT !.ph = 5] \/ h = [k EXCEPT !.ph = 6]) /\ (m = [k EXCEPT !.ph = 5] \/ m = [k EXCEPT !.ph = 6])
    OBVIOUS
  <2> HIDE DEF h, m, x, y
  <2> QED BY <1>0, <1>1, <1>2, <2>1, PlaceLoop
<1>5. h.ph = 5 /\ ~h.blank
  BY <1>4 DEF Places
<1>6. <<m, y, k>> \in Protocol(app, p) /\ y \in Steps(app) /\ y.op = "get"
  BY <1>4, LoopMove
<1>7. <<h, x, m>> \in Protocol(app, p) /\ x \in Steps(app) /\ x.op = "executed"
  <2>0. k.blank = FALSE /\ k.mine \in BOOLEAN /\ k.totals \in BOOLEAN /\ k.planted \in BOOLEAN
    BY <1>4 DEF Places
  <2>1. x \in Steps(app) /\ x.op = "executed"
    BY DEF Step, Steps, PlainSteps
  <2>2. /\ h.classes = m.classes /\ h.objects = m.objects /\ h.depth = m.depth /\ h.count = m.count
        /\ h.blank = FALSE /\ m.blank = FALSE /\ h.blocks = m.blocks /\ h.mine = m.mine /\ h.totals = m.totals
        /\ h.planted = m.planted /\ m.ph = 6
        /\ h.mine \in BOOLEAN /\ h.totals \in BOOLEAN /\ h.planted \in BOOLEAN
    BY <2>0 DEF Places
  <2>3. ~Mine(x) /\ ~TotalsStep(x)
    BY <2>1 DEF Mine, TotalsStep
  <2> HIDE DEF h, m, x
  <2>4. Permits(app, p, h, x)
    BY <1>5, <2>1, <2>2, <2>3 DEF Permits, LoopOps, SeedOps, WorkOps, CollectiveOps
  <2>5. Moves(app, p, h, x, m)
    BY <1>5, <2>1, <2>2, <2>3, <2>4 DEF Moves, PhaseAfter, LoopOps, CollectiveOps
  <2> QED BY <1>4, <2>1, <2>5 DEF Protocol
<1> HIDE DEF h, m, x, y
<1>8. Path(Protocol(app, p), <<x, y>>, h, k) /\ <<x, y>> \in Seq(Steps(app))
  BY <1>6, <1>7, PathTwo
<1>9. s \in Seq(Steps(app)) /\ Ops(s) \subseteq WorkOps /\ Path(Protocol(app, p), s, h, h)
  <2>1. s \in WorkCalls(app, p, FALSE)
    BY <1>0, BodyCalls
  <2>2. Working(app, h)
    BY <1>4, <1>5 DEF Working
  <2> QED BY <2>1, <2>2 DEF WorkCalls
<1> DEFINE u == Cat(s, <<x, y>>)
<1>10. u \in Seq(Steps(app)) /\ Path(Protocol(app, p), u, h, k)
  BY <1>8, <1>9, CatType, PathCat
<1>11. Ops(u) \cap CollectiveOps = {} /\ "release" \notin Ops(u)
  <2> DEFINE w == <<x, y>>
  <2>0. w \in Seq(Steps(app))
    BY <1>8
  <2> HIDE DEF w
  <2>1. Ops(u) = Ops(s) \cup Ops(w)
    <3>1. Ops(Cat(s, w)) = Ops(s) \cup Ops(w)
      <4> HIDE DEF u
      <4> QED BY <2>0, <1>9, OpsCat
    <3> QED BY <3>1 DEF w
  <2>2. Ops(w) = {"executed", "get"}
    BY <1>6, <1>7 DEF Ops, w
  <2> QED BY <2>1, <2>2, <1>9 DEF WorkOps, CollectiveOps
<1>12. Then(p, u)
  BY Zenon DEF Cat, x, y
<1> HIDE DEF u
<1>13. Tracked([g EXCEPT ![p] = h])'
  <2>1. OnPath(app, p, Tail(script[p]), k) /\ Remaining(app, Tail(script[p]), k) = Remaining(app, script[p], g[p])
    BY <1>2, <1>3
  <2> QED BY <1>0, <1>2, <1>4, <1>5, <1>10, <1>11, <1>12, <2>1, TrackThen
<1> QED BY <1>4, <1>5, <1>13

\* What refine, or the making of the first tasks, comes to.
LEMMA TrackCalls ==
  ASSUME NEW g, Tracked(g), NEW p \in Procs, script[p] # <<>>, app' = app,
         NEW s, Then(p, s),
         \/ Now(p).op = "seed" /\ s = BpcSeed(app, KeyList)
         \/ Now(p).op = "refine" /\ s = Further(app, Now(p).kept, Now(p).node, Now(p).box)
  PROVE  \E h : Goes(app, p, g[p], Now(p), h) /\ Tracked([g EXCEPT ![p] = h])'
<1>0. Now(p).op \notin CollectiveOps /\ Now(p).op # "release" /\ WellFormed(app) /\ Now(p).op \notin LoopOps
  BY DEF LoopOps, CollectiveOps, Tracked
<1>1. /\ Now(p) \in Steps(app) /\ g[p] \in Places /\ PlaceOK(app, g[p])
      /\ \E k \in Places :
           /\ Moves(app, p, g[p], Now(p), k) /\ PlaceOK(app, k) /\ k.count = g[p].count
           /\ OnPath(app, p, After(app, Now(p), Tail(script[p])), k)
           /\ Remaining(app, After(app, Now(p), Tail(script[p])), k) = Remaining(app, script[p], g[p])
  BY <1>0, TrackOwn
<1>2. PICK k \in Places :
           /\ Moves(app, p, g[p], Now(p), k) /\ PlaceOK(app, k) /\ k.count = g[p].count
           /\ OnPath(app, p, After(app, Now(p), Tail(script[p])), k)
           /\ Remaining(app, After(app, Now(p), Tail(script[p])), k) = Remaining(app, script[p], g[p])
  BY <1>1
<1>3. After(app, Now(p), Tail(script[p])) = Tail(script[p])
  BY <1>0 DEF After
<1>4. Permits(app, p, g[p], Now(p)) /\ k.ph = g[p].ph /\ ~k.blank /\ k.classes = g[p].classes /\ k.objects = g[p].objects
      /\ (k.planted <=> g[p].planted)
  BY <1>2 DEF Moves, PhaseAfter, LoopOps
<1>5. Working(app, k)
  <2>1. Now(p).op \in SeedOps /\ Now(p).op # "destroy"
    BY DEF SeedOps, WorkOps
  <2>2. (g[p].ph = 4 /\ Complete(app, g[p]) /\ g[p].count < Entry(app)) \/ g[p].ph = 5
    BY <1>4, <2>1 DEF Permits
  <2> QED BY <1>2, <1>4, <2>2 DEF Working, Complete
<1>6. k.ph < 9
  BY <1>5 DEF Working
<1>7. s \in Seq(Steps(app)) /\ Ops(s) \subseteq WorkOps /\ Path(Protocol(app, p), s, k, k)
  <2>1. CASE Now(p).op = "seed"
    <3>1. app.prog = "bpc"
      BY <1>4, <2>1 DEF Permits
    <3>2. s = BpcSeed(app, KeyList)
      BY <2>1
    <3>3. s \in WorkCalls(app, p, FALSE)
      BY <1>0, <3>1, <3>2, BpcSeedCalls
    <3> QED BY <3>3, <1>5 DEF WorkCalls
  <2>2. CASE Now(p).op = "refine"
    <3> DEFINE x == Now(p)
    <3>1. x.kept \in BOOLEAN /\ x.node \in Seq(Nat) /\ x.box \in BoxSet(app)
      BY <1>1, <2>2, StepFacts
    <3>2. app.prog = "mad3d"
      BY <3>1 DEF BoxSet
    <3>3. s = Further(app, x.kept, x.node, x.box)
      BY <2>2
    <3> HIDE DEF x
    <3>4. s \in WorkCalls(app, p, x.kept)
      BY <1>0, <3>1, <3>2, <3>3, FurtherCalls
    <3>5. x.kept => k.planted
      BY <1>4, <2>2 DEF Permits, x
    <3> QED BY <3>4, <3>5, <1>5 DEF WorkCalls
  <2> QED BY <2>1, <2>2
<1>8. Ops(s) \cap CollectiveOps = {} /\ "release" \notin Ops(s)
  BY <1>7 DEF WorkOps, CollectiveOps
<1>9. Tracked([g EXCEPT ![p] = k])'
  <2>1. OnPath(app, p, Tail(script[p]), k) /\ Remaining(app, Tail(script[p]), k) = Remaining(app, script[p], g[p])
    BY <1>2, <1>3
  <2> QED BY <1>0, <1>2, <1>6, <1>7, <1>8, <2>1, TrackThen
<1>10. Goes(app, p, g[p], Now(p), k)
  BY <1>1, <1>2 DEF Goes
<1> QED BY <1>9, <1>10

\* gtc_destroy at its end.
LEMMA TrackRelease ==
  ASSUME NEW g, Tracked(g), NEW p \in Procs, script[p] # <<>>, Now(p).op = "release", app' = app,
         Then(p, IF app.prog = "tasks" THEN GtcFini ELSE <<>>)
  PROVE  \E h : Goes(app, p, g[p], Now(p), h) /\ Tracked([g EXCEPT ![p] = h])'
<1>0. Now(p).op \notin CollectiveOps /\ WellFormed(app) /\ Now(p).op \notin LoopOps
  BY DEF LoopOps, CollectiveOps, Tracked
<1> DEFINE t == Tail(script[p])
<1>1. /\ Now(p) \in Steps(app) /\ g[p] \in Places /\ PlaceOK(app, g[p]) /\ t \in Seq(Steps(app))
      /\ \E k \in Places :
           /\ Moves(app, p, g[p], Now(p), k) /\ PlaceOK(app, k) /\ k.count = g[p].count
           /\ OnPath(app, p, After(app, Now(p), t), k)
           /\ Remaining(app, After(app, Now(p), t), k) = Remaining(app, script[p], g[p])
           /\ Now(p).op = "release" /\ app.prog = "tasks" => t = <<>>
  BY <1>0, TrackOwn
<1>2. PICK k \in Places :
           /\ Moves(app, p, g[p], Now(p), k) /\ PlaceOK(app, k) /\ k.count = g[p].count
           /\ OnPath(app, p, After(app, Now(p), t), k)
           /\ Remaining(app, After(app, Now(p), t), k) = Remaining(app, script[p], g[p])
           /\ Now(p).op = "release" /\ app.prog = "tasks" => t = <<>>
  BY <1>1
<1>3. script' = [script EXCEPT ![p] = (IF app.prog = "tasks" THEN GtcFini ELSE <<>>) \o t]
  BY Zenon DEF Then
<1>4. (IF app.prog = "tasks" THEN GtcFini ELSE <<>>) \o t = After(app, Now(p), t)
  <2>1. CASE app.prog = "tasks"
    <3>1. t = <<>>
      BY <2>1, <1>2
    <3>2. GtcFini \in Seq(Steps(app))
      BY CallsMade
    <3>3. GtcFini \o <<>> = GtcFini
      BY <3>2, CatEmpty, Zenon DEF Cat
    <3>4. (IF app.prog = "tasks" THEN GtcFini ELSE <<>>) \o t = GtcFini
      BY <3>1, <3>3, <2>1, Zenon
    <3> QED BY <3>4, <2>1, Zenon DEF After
  <2>2. CASE app.prog # "tasks"
    <3>1. <<>> \o t = t
      BY <1>1, CatEmpty, Zenon DEF Cat
    <3>2. (IF app.prog = "tasks" THEN GtcFini ELSE <<>>) \o t = t
      BY <3>1, <2>2, Zenon
    <3> QED BY <3>2, <2>2, Zenon DEF After
  <2> QED BY <2>1, <2>2
<1> DEFINE s == After(app, Now(p), t)
<1>5. script' = [script EXCEPT ![p] = s]
  BY <1>3, <1>4, Zenon
<1>6. OnPath(app, p, s, k) /\ Remaining(app, s, k) = Remaining(app, script[p], g[p])
  BY <1>2
<1> HIDE DEF s
<1>7. Tracked([g EXCEPT ![p] = k])'
  BY <1>2, <1>5, <1>6, TrackPut
<1>8. Goes(app, p, g[p], Now(p), k)
  BY <1>1, <1>2 DEF Goes
<1> QED BY <1>7, <1>8

\* A collective: all processes take the same step.
LEMMA TrackTogether ==
  ASSUME NEW g, Tracked(g), NEW o \in CollectiveOps, Together(o), AllDone, app' = app
  PROVE  /\ \A p, q \in Procs : Now(p) = Now(q)
         /\ \E f : /\ Tracked(f)'
                   /\ \A p \in Procs : Goes(app, p, g[p], Now(p), f[p]) /\ script[p] # <<>> /\ Now(p).op = o
<1>1. /\ WellFormed(app) /\ g \in [Procs -> Places]
      /\ \A p \in Procs : OnPath(app, p, script[p], g[p]) /\ PlaceOK(app, g[p])
      /\ \A p, q \in Procs : /\ g[p].count = g[q].count
                             /\ Remaining(app, script[p], g[p]) = Remaining(app, script[q], g[q])
  BY DEF Tracked
<1>2. \A p \in Procs : script[p] # <<>> /\ Now(p).op = o
  BY DEF Together, Does, Now
<1> DEFINE Leads(p, k) == /\ k \in Places /\ Moves(app, p, g[p], Now(p), k) /\ Now(p) \in Steps(app)
                          /\ OnPath(app, p, Tail(script[p]), k)
                          /\ Remaining(app, script[p], g[p]) = Cat(<<Now(p)>>, Remaining(app, Tail(script[p]), k))
<1>3. ASSUME NEW p \in Procs PROVE \E k : Leads(p, k)
  <2>0. OnPath(app, p, script[p], g[p]) /\ script[p] # <<>>
    BY <1>1, <1>2
  <2>1. PICK k : /\ k \in Places /\ Moves(app, p, g[p], Head(script[p]), k) /\ Head(script[p]) \in Steps(app)
                 /\ OnPath(app, p, After(app, Head(script[p]), Tail(script[p])), k)
                 /\ Head(script[p]).op \in CollectiveOps =>
                     Remaining(app, script[p], g[p]) = Cat(<<Head(script[p])>>, Remaining(app, After(app, Head(script[p]), Tail(script[p])), k))
    <3> DEFINE s == script[p]  h == g[p]
    <3> HIDE DEF s, h
    <3>1. OnPath(app, p, s, h) /\ s # <<>>
      BY <2>0 DEF s, h
    <3>2. \E k : /\ k \in Places /\ Moves(app, p, h, Head(s), k) /\ Head(s) \in Steps(app)
                 /\ OnPath(app, p, After(app, Head(s), Tail(s)), k)
                 /\ Head(s).op \in CollectiveOps =>
                     Remaining(app, s, h) = Cat(<<Head(s)>>, Remaining(app, After(app, Head(s), Tail(s)), k))
      BY <3>1, OnPathStep
    <3> QED BY <3>2, Zenon DEF s, h
  <2>2. After(app, Head(script[p]), Tail(script[p])) = Tail(script[p])
    <3>1. Head(script[p]).op # "release"
      BY <1>2 DEF Now, CollectiveOps
    <3> QED BY <3>1 DEF After
  <2>3. Head(script[p]).op \in CollectiveOps
    BY <1>2 DEF Now
  <2>4. Leads(p, k)
    <3>1. Head(script[p]) = Now(p)
      BY DEF Now
    <3>2. Remaining(app, script[p], g[p]) = Cat(<<Now(p)>>, Remaining(app, Tail(script[p]), k))
      BY <2>1, <2>2, <2>3, <3>1, Zenon
    <3>3. OnPath(app, p, Tail(script[p]), k)
      BY <2>1, <2>2, Zenon
    <3>4. k \in Places /\ Moves(app, p, g[p], Now(p), k) /\ Now(p) \in Steps(app)
      BY <2>1, <3>1, Zenon
    <3> QED BY <3>2, <3>3, <3>4, Zenon
  <2> QED BY <2>4
<1> DEFINE f == [p \in Procs |-> CHOOSE k : Leads(p, k)]
<1>4. \A p \in Procs : Leads(p, f[p])
  BY <1>3
<1> HIDE DEF f
<1>5. ASSUME NEW p \in Procs
      PROVE  /\ <<Now(p)>> \in Seq(Steps(app)) /\ Remaining(app, Tail(script[p]), f[p]) \in Seq(Steps(app))
             /\ Head(Remaining(app, script[p], g[p])) = Now(p)
             /\ Tail(Remaining(app, script[p], g[p])) = Remaining(app, Tail(script[p]), f[p])
  <2>1. Leads(p, f[p])
    BY <1>4
  <2> DEFINE S == Steps(app)  w == Whole(app, Tail(script[p]), f[p])  x == Now(p)  l == Remaining(app, Tail(script[p]), f[p])
  <2>2. w \in Seq(S) /\ x \in S
    BY <2>1, OnPathWhole
  <2> HIDE DEF S, x
  <2>3. l \in Seq(S)
    <3> HIDE DEF w
    <3>1. Picked(w, CollectiveOps) \in Seq(S)
      BY <2>2, PickedBasic
    <3> QED BY <3>1, Zenon DEF Remaining, w
  <2> HIDE DEF w, l
  <2>4. <<x>> \in Seq(S) /\ <<x>> # <<>> /\ Head(<<x>>) = x /\ Tail(<<x>>) = <<>>
    BY <2>2, SingleSeq
  <2>5. Head(Cat(<<x>>, l)) = x /\ Tail(Cat(<<x>>, l)) = Cat(<<>>, l)
    <3> DEFINE v == <<x>>
    <3>1. v \in Seq(S) /\ v # <<>> /\ Head(v) = x /\ Tail(v) = <<>>
      BY <2>4
    <3> HIDE DEF v
    <3>2. Head(Cat(v, l)) = Head(v) /\ Tail(Cat(v, l)) = Cat(Tail(v), l)
      BY <2>3, <3>1, CatHead
    <3>3. Head(Cat(v, l)) = x /\ Tail(Cat(v, l)) = Cat(<<>>, l)
      BY <3>1, <3>2, Zenon
    <3> QED BY <3>3 DEF v
  <2>6. Cat(<<>>, l) = l
    BY <2>3, CatEmpty
  <2>7. Remaining(app, script[p], g[p]) = Cat(<<x>>, l)
    BY <2>1 DEF x, l
  <2> QED BY <2>3, <2>4, <2>5, <2>6, <2>7, Zenon DEF S, x, l
<1>6. ASSUME NEW p \in Procs, NEW q \in Procs
      PROVE  Now(p) = Now(q) /\ Remaining(app, Tail(script[p]), f[p]) = Remaining(app, Tail(script[q]), f[q])
             /\ f[p].count = f[q].count
  <2>1. Remaining(app, script[p], g[p]) = Remaining(app, script[q], g[q]) /\ g[p].count = g[q].count
    BY <1>1
  <2>2. Leads(p, f[p]) /\ Leads(q, f[q])
    BY <1>4
  <2>3. f[p].count = g[p].count + 1 /\ f[q].count = g[q].count + 1
    BY <2>2, <1>2 DEF Moves
  <2>4. /\ Head(Remaining(app, script[p], g[p])) = Now(p) /\ Head(Remaining(app, script[q], g[q])) = Now(q)
        /\ Tail(Remaining(app, script[p], g[p])) = Remaining(app, Tail(script[p]), f[p])
        /\ Tail(Remaining(app, script[q], g[q])) = Remaining(app, Tail(script[q]), f[q])
    BY <1>5
  <2> QED BY <2>1, <2>3, <2>4, Zenon
<1>7. script' = [p \in Procs |-> Tail(script[p])]
  BY DEF AllDone
<1>8. ASSUME NEW p \in Procs
      PROVE  /\ OnPath(app, p, script'[p], f[p]) /\ PlaceOK(app, f[p]) /\ Goes(app, p, g[p], Now(p), f[p])
             /\ script'[p] = Tail(script[p])
  <2>1. Leads(p, f[p]) /\ g[p] \in Places /\ PlaceOK(app, g[p])
    BY <1>1, <1>4
  <2>2. PlaceOK(app, f[p])
    BY <1>1, <2>1, PlaceMove
  <2>3. Goes(app, p, g[p], Now(p), f[p])
    BY <2>1, <2>2 DEF Goes
  <2>4. script'[p] = Tail(script[p])
    BY <1>7
  <2> QED BY <2>1, <2>2, <2>3, <2>4
<1>9. f \in [Procs -> Places] /\ DOMAIN script' = Procs
  BY <1>4, <1>7 DEF f
<1>10. PICK f2 : f2 = f
  OBVIOUS
<1>11. Tracked(f2)'
  <2>1. /\ f2 \in [Procs -> Places]
        /\ \A p \in Procs : OnPath(app, p, script'[p], f2[p]) /\ PlaceOK(app, f2[p])
        /\ \A p, q \in Procs : /\ f2[p].count = f2[q].count
                               /\ Remaining(app, script'[p], f2[p]) = Remaining(app, script'[q], f2[q])
    <3>1. ASSUME NEW p \in Procs PROVE OnPath(app, p, script'[p], f2[p]) /\ PlaceOK(app, f2[p])
      BY <1>8, <1>10
    <3>2. ASSUME NEW p \in Procs, NEW q \in Procs
          PROVE  f2[p].count = f2[q].count /\ Remaining(app, script'[p], f2[p]) = Remaining(app, script'[q], f2[q])
      <4>1. script'[p] = Tail(script[p]) /\ script'[q] = Tail(script[q])
        BY <1>8
      <4>2. Remaining(app, Tail(script[p]), f[p]) = Remaining(app, Tail(script[q]), f[q]) /\ f[p].count = f[q].count
        BY <1>6
      <4> QED BY <4>1, <4>2, <1>10, Zenon
    <3>3. f2 \in [Procs -> Places]
      BY <1>9, <1>10
    <3> QED BY <3>1, <3>2, <3>3
  <2> QED BY <1>1, <1>9, <2>1 DEF Tracked
<1>12. \A p \in Procs : Goes(app, p, g[p], Now(p), f2[p]) /\ script[p] # <<>> /\ Now(p).op = o
  BY <1>2, <1>8, <1>10
<1> QED BY <1>6, <1>11, <1>12
-----------------------------------------------------------------------------
(***************************************************************************)
(* What the library holds of a process at a place: the handles, the tables *)
(* and the program's numbers for what is in them.                          *)
(***************************************************************************)
Numbers(n)     == [i \in 1..n |-> i - 1]
Upto(names, n) == [i \in 1..n |-> names[i]]

LEMMA NumbersFacts ==
  ASSUME NEW n \in Nat
  PROVE  /\ Numbers(n) \in Seq(Nat) /\ Len(Numbers(n)) = n
         /\ \A i \in 1..n : Numbers(n)[i] = i - 1
         /\ Append(Numbers(n), n) = Numbers(n + 1)
         /\ Numbers(0) = <<>> /\ Numbers(3) = KeyList
<1> DEFINE s == Numbers(n)  t == Numbers(n + 1)
<1>1. s \in Seq(Nat) /\ Len(s) = n /\ \A i \in 1..n : s[i] = i - 1
  BY DEF Numbers
<1>2. t \in Seq(Nat) /\ Len(t) = n + 1 /\ \A i \in 1..(n + 1) : t[i] = i - 1
  BY DEF Numbers
<1>3. Append(s, n) = t
  <2> HIDE DEF s, t
  <2>1. Append(s, n) \in Seq(Nat) /\ Len(Append(s, n)) = n + 1
        /\ \A i \in 1..(n + 1) : Append(s, n)[i] = IF i <= n THEN s[i] ELSE n
    BY <1>1, AppendProperties
  <2> DEFINE w == Append(s, n)
  <2> HIDE DEF w
  <2>2. w \in Seq(Nat) /\ Len(w) = n + 1 /\ \A i \in 1..(n + 1) : w[i] = IF i <= n THEN s[i] ELSE n
    BY <2>1 DEF w
  <2>3. w = t
    BY <1>1, <1>2, <2>2
  <2> QED BY <2>3 DEF w
<1>4. Numbers(0) = <<>>
  BY DEF Numbers
<1>5. Numbers(3) = KeyList
  BY DEF Numbers, KeyList
<1> QED BY <1>1, <1>3, <1>4, <1>5

LEMMA UptoFacts ==
  ASSUME NEW names, NEW n \in Nat
  PROVE  /\ Len(Upto(names, n)) = n
         /\ \A i \in 1..n : Upto(names, n)[i] = names[i]
         /\ Append(Upto(names, n), names[n + 1]) = Upto(names, n + 1)
         /\ Upto(names, 0) = <<>>
<1> DEFINE s == Upto(names, n)  t == Upto(names, n + 1)  e == names[n + 1]  S == {names[i] : i \in 1..(n + 1)}
<1>1. s \in Seq(S) /\ Len(s) = n /\ (\A i \in 1..n : s[i] = names[i]) /\ e \in S
  BY DEF Upto
<1>2. t \in Seq(S) /\ Len(t) = n + 1 /\ (\A i \in 1..n : t[i] = names[i]) /\ t[n + 1] = e
  BY DEF Upto
<1>3. Append(s, e) = t
  <2> HIDE DEF s, t, e, S
  <2>1. Append(s, e) \in Seq(S) /\ Len(Append(s, e)) = n + 1
        /\ \A i \in 1..(n + 1) : Append(s, e)[i] = IF i <= n THEN s[i] ELSE e
    BY <1>1, AppendProperties
  <2> DEFINE w == Append(s, e)
  <2> HIDE DEF w
  <2>2. w \in Seq(S) /\ Len(w) = n + 1 /\ \A i \in 1..(n + 1) : w[i] = IF i <= n THEN s[i] ELSE e
    BY <2>1 DEF w
  <2>3. w = t
    <3>1. \A i \in 1..(n + 1) : w[i] = t[i]
      <4> SUFFICES ASSUME NEW i \in 1..(n + 1) PROVE w[i] = t[i]
        OBVIOUS
      <4>1. CASE i \in 1..n
        BY <4>1, <1>1, <1>2, <2>2
      <4>2. CASE i = n + 1
        BY <4>2, <1>2, <2>2
      <4> QED BY <4>1, <4>2
    <3> QED BY <3>1, <1>2, <2>2
  <2> QED BY <2>3 DEF w
<1>4. Upto(names, 0) = <<>>
  BY DEF Upto
<1> QED BY <1>1, <1>3, <1>4

UpAt(a, h) == IF h.ph \in {0, 10} THEN "down" ELSE IF a.prog = "tasks" THEN "auto" ELSE "up"

\* Of a process at place h: is the library up, the slots in use, the program's variables,
\* the objects, the classes, is the collection's work known to be done?
LibOf(a, h, u, hs, v, c, cl, t) ==
  /\ u = UpAt(a, h)
  /\ hs = IF h.ph \in 3..8 THEN {0} ELSE {}
  /\ v \in [gtc : Nat, keys : Seq(Nat), classes : Seq(Nat)]
  /\ h.ph \in 3..8 => v.gtc = 0
  /\ v.keys = Numbers(h.objects) /\ v.classes = Numbers(h.classes)
  /\ c = IF h.ph >= 8 THEN <<>> ELSE Upto(ObjectNames(a), h.objects)
  /\ cl = Upto(ClassNames(a), h.classes)
  /\ t \in BOOLEAN /\ (t <=> h.ph >= 7)

LibOps == {"init", "implicit_init", "register", "clod_create", "clod_destroy", "associate", "class",
           "release", "finalize"}

\* Other steps do not bring a process from one of the library's phases to another.
LEMMA LibPhase ==
  ASSUME NEW a, WellFormed(a), NEW p, NEW g, NEW x, NEW h, Goes(a, p, g, x, h), x.op \notin LibOps
  PROVE  /\ h.classes = g.classes /\ h.objects = g.objects /\ h.ph \in Nat /\ g.ph \in Nat
         /\ UpAt(a, h) = UpAt(a, g)
         /\ h.ph \in 3..8 <=> g.ph \in 3..8
         /\ h.ph >= 8 <=> g.ph >= 8
         /\ x.op \notin LoopOps => (h.ph >= 7 <=> g.ph >= 7)
         /\ g.ph >= 7 => x.op \notin LoopOps
<1>1. /\ g \in Places /\ h \in Places /\ Permits(a, p, g, x)
      /\ x.op \notin LoopOps => h.ph = PhaseAfter(g.ph, x.op)
      /\ x.op \in LoopOps => h.ph \in {5, 6, 7} /\ g.ph \in {4, 6}
      /\ h.classes = IF x.op = "class" THEN g.classes + 1 ELSE g.classes
      /\ h.objects = IF x.op = "associate" THEN g.objects + 1 ELSE g.objects
  BY GoesFacts
<1>2. h.classes = g.classes /\ h.objects = g.objects
  BY <1>1 DEF LibOps
<1>3. g.ph \in 0..10 /\ h.ph \in 0..10
  BY <1>1 DEF Places
<1>4. CASE x.op \in LoopOps
  BY <1>1, <1>2, <1>3, <1>4 DEF UpAt
<1>5. CASE x.op \notin LoopOps
  <2>1. CASE x.op = "executed"
    <3>1. g.ph = 5 /\ h.ph = 6
      BY <1>1, <1>5, <2>1 DEF Permits, PhaseAfter
    <3> QED BY <1>2, <1>3, <1>5, <3>1 DEF UpAt
  <2>2. CASE x.op # "executed"
    <3>1. h.ph = g.ph
      BY <1>1, <1>5, <2>2 DEF PhaseAfter, LibOps
    <3> QED BY <1>2, <1>3, <1>5, <3>1 DEF UpAt
  <2> QED BY <2>1, <2>2
<1> QED BY <1>4, <1>5

LEMMA LibSame ==
  ASSUME NEW a, WellFormed(a), NEW p, NEW g, NEW x, NEW h, Goes(a, p, g, x, h), x.op \notin LibOps,
         NEW u, NEW hs, NEW v, NEW c, NEW cl, NEW t, LibOf(a, g, u, hs, v, c, cl, t), NEW t2 \in BOOLEAN,
         x.op \in LoopOps => (t2 <=> h.ph = 7), x.op \notin LoopOps => t2 = t
  PROVE  LibOf(a, h, u, hs, v, c, cl, t2)
<1>1. /\ h.classes = g.classes /\ h.objects = g.objects /\ h.ph \in Nat /\ g.ph \in Nat
      /\ UpAt(a, h) = UpAt(a, g)
      /\ h.ph \in 3..8 <=> g.ph \in 3..8
      /\ h.ph >= 8 <=> g.ph >= 8
      /\ x.op \notin LoopOps => (h.ph >= 7 <=> g.ph >= 7)
  BY LibPhase
<1>2. x.op \in LoopOps => h.ph \in {5, 6, 7}
  BY GoesFacts
<1>3. t2 <=> h.ph >= 7
  BY <1>1, <1>2 DEF LibOf
<1> QED BY <1>1, <1>3, Zenon DEF LibOf

LEMMA LeastFree ==
  FirstFree({}) = 0
<1> DEFINE S == 0..GTC_MAX_TC
<1>1. 0 \in S /\ \A y \in S : 0 <= y
  BY DEF GTC_MAX_TC
<1>2. Min(S) = 0
  <2>1. Min(S) = CHOOSE z \in S : \A y \in S : z <= y
    BY DEF Min
  <2>2. \A z \in S : (\A y \in S : z <= y) => z = 0
    BY <1>1 DEF GTC_MAX_TC
  <2> HIDE DEF S
  <2> QED BY <1>1, <2>1, <2>2
<1>3. S \ {} = S
  OBVIOUS
<1> QED BY <1>2, <1>3 DEF FirstFree

\* The end of gtc_destroy.
LEMMA LibRelease ==
  ASSUME NEW a, WellFormed(a), NEW p, NEW g, NEW x, NEW h, Goes(a, p, g, x, h), x.op = "release",
         NEW u, NEW hs, NEW v, NEW c, NEW cl, NEW t, LibOf(a, g, u, hs, v, c, cl, t)
  PROVE  hs \ {v.gtc} = {} /\ (u = "auto" <=> a.prog = "tasks") /\ LibOf(a, h, u, hs \ {v.gtc}, v, c, cl, t)
<1>1. /\ g \in Places /\ h \in Places /\ Permits(a, p, g, x) /\ PlaceOK(a, g) /\ PlaceOK(a, h)
      /\ x.op \notin LoopOps => h.ph = PhaseAfter(g.ph, x.op)
      /\ h.classes = IF x.op = "class" THEN g.classes + 1 ELSE g.classes
      /\ h.objects = IF x.op = "associate" THEN g.objects + 1 ELSE g.objects
  BY GoesFacts
<1>2. g.ph = 8 /\ h.ph = 9 /\ h.classes = g.classes /\ h.objects = g.objects
  BY <1>1 DEF Permits, PhaseAfter, LoopOps
<1>3. hs \ {v.gtc} = {} /\ (u = "auto" <=> a.prog = "tasks") /\ UpAt(a, h) = UpAt(a, g)
  BY <1>2 DEF UpAt, LibOf
<1>4. h.ph >= 7 /\ g.ph >= 7 /\ g.ph >= 8 /\ h.ph >= 8 /\ h.ph \notin 3..8
  BY <1>2
<1>5. LibOf(a, h, u, {}, v, c, cl, t)
  BY <1>2, <1>3, <1>4, Zenon DEF LibOf
<1> QED BY <1>3, <1>5, Zenon

\* Other steps of the library itself.
LEMMA LibSteps ==
  ASSUME NEW a, WellFormed(a), NEW p, NEW g, NEW x, NEW h, Goes(a, p, g, x, h),
         NEW u, NEW hs, NEW v, NEW c, NEW cl, NEW t, LibOf(a, g, u, hs, v, c, cl, t)
  PROVE  /\ x.op = "init" => LibOf(a, h, "up", {}, v, c, cl, t)
         /\ x.op = "implicit_init" => LibOf(a, h, IF u = "down" THEN "auto" ELSE u, {}, v, c, cl, t)
         /\ x.op = "register" =>
              LibOf(a, h, u, hs \cup {FirstFree(hs)}, [v EXCEPT !.gtc = FirstFree(hs)], c, cl, t)
         /\ x.op \in {"clod_create", "clod_destroy"} => LibOf(a, h, u, hs, v, <<>>, cl, t)
         /\ x.op = "finalize" => LibOf(a, h, "down", hs, v, c, cl, t)
<1>1. /\ g \in Places /\ h \in Places /\ Permits(a, p, g, x) /\ PlaceOK(a, g) /\ PlaceOK(a, h)
      /\ x.op \notin LoopOps => h.ph = PhaseAfter(g.ph, x.op)
      /\ h.classes = IF x.op = "class" THEN g.classes + 1 ELSE g.classes
      /\ h.objects = IF x.op = "associate" THEN g.objects + 1 ELSE g.objects
  BY GoesFacts
<1>2. g.ph \in 0..10 /\ h.ph \in 0..10
  BY <1>1 DEF Places
<1>3. x.op \in LibOps \ {"class", "associate"} => h.classes = g.classes /\ h.objects = g.objects /\ x.op \notin LoopOps
  BY <1>1 DEF LibOps, LoopOps
<1>4. /\ u = UpAt(a, g)
      /\ hs = IF g.ph \in 3..8 THEN {0} ELSE {}
      /\ v \in [gtc : Nat, keys : Seq(Nat), classes : Seq(Nat)]
      /\ g.ph \in 3..8 => v.gtc = 0
      /\ v.keys = Numbers(g.objects) /\ v.classes = Numbers(g.classes)
      /\ c = IF g.ph >= 8 THEN <<>> ELSE Upto(ObjectNames(a), g.objects)
      /\ cl = Upto(ClassNames(a), g.classes)
      /\ t \in BOOLEAN /\ (t <=> g.ph >= 7)
  BY DEF LibOf
<1>5. ASSUME x.op = "init" PROVE LibOf(a, h, "up", {}, v, c, cl, t)
  <2>1. g.ph = 0 /\ h.ph = 1 /\ a.prog # "tasks"
    BY <1>1, <1>5 DEF Permits, PhaseAfter, LoopOps
  <2>2. h.classes = g.classes /\ h.objects = g.objects
    BY <1>3, <1>5 DEF LibOps
  <2> QED BY <1>4, <2>1, <2>2 DEF LibOf, UpAt
<1>6. ASSUME x.op = "implicit_init" PROVE LibOf(a, h, IF u = "down" THEN "auto" ELSE u, {}, v, c, cl, t)
  <2>1. g.ph = (IF a.prog = "tasks" THEN 0 ELSE 1) /\ h.ph = 2
    BY <1>1, <1>6 DEF Permits, PhaseAfter, LoopOps
  <2>2. h.classes = g.classes /\ h.objects = g.objects
    BY <1>3, <1>6 DEF LibOps
  <2>3. (IF u = "down" THEN "auto" ELSE u) = UpAt(a, h)
    BY <1>4, <2>1 DEF UpAt
  <2>4. ~(g.ph >= 7) /\ ~(h.ph >= 7) /\ ~(g.ph >= 8) /\ ~(h.ph >= 8) /\ h.ph \notin 3..8
    BY <2>1
  <2> QED BY <1>4, <2>2, <2>3, <2>4, Zenon DEF LibOf
<1>7. ASSUME x.op = "register"
      PROVE  LibOf(a, h, u, hs \cup {FirstFree(hs)}, [v EXCEPT !.gtc = FirstFree(hs)], c, cl, t)
  <2>1. g.ph = 2 /\ h.ph = 3
    BY <1>1, <1>7 DEF Permits, PhaseAfter, LoopOps
  <2>2. h.classes = g.classes /\ h.objects = g.objects
    BY <1>3, <1>7 DEF LibOps
  <2>3. hs = {} /\ FirstFree(hs) = 0
    BY <1>4, <2>1, LeastFree
  <2> DEFINE w == [v EXCEPT !.gtc = FirstFree(hs)]
  <2>4. w \in [gtc : Nat, keys : Seq(Nat), classes : Seq(Nat)] /\ w.gtc = 0 /\ w.keys = v.keys /\ w.classes = v.classes
    <3> DEFINE f == FirstFree(hs)
    <3>1. f = 0 /\ w = [v EXCEPT !.gtc = f]
      BY <2>3
    <3> HIDE DEF f, w
    <3>2. w = [v EXCEPT !.gtc = 0]
      BY <3>1
    <3> QED BY <1>4, <3>2
  <2>5. hs \cup {FirstFree(hs)} = {0}
    BY <2>3
  <2>6. UpAt(a, h) = UpAt(a, g)
    BY <2>1 DEF UpAt
  <2>7. ~(g.ph >= 7) /\ ~(h.ph >= 7) /\ ~(g.ph >= 8) /\ ~(h.ph >= 8) /\ h.ph \in 3..8
    BY <2>1
  <2> HIDE DEF w
  <2>8. LibOf(a, h, u, {0}, w, c, cl, t)
    BY <1>4, <2>2, <2>4, <2>6, <2>7, Zenon DEF LibOf
  <2> QED BY <2>5, <2>8, Zenon DEF w
<1>8. ASSUME x.op \in {"clod_create", "clod_destroy"} PROVE LibOf(a, h, u, hs, v, <<>>, cl, t)
  <2>1. (x.op = "clod_create" /\ g.ph = 3 /\ h.ph = 4) \/ (x.op = "clod_destroy" /\ g.ph = 7 /\ h.ph = 8)
    BY <1>1, <1>8 DEF Permits, PhaseAfter, LoopOps
  <2>2. h.classes = g.classes /\ h.objects = g.objects
    BY <1>3, <1>8 DEF LibOps
  <2>3. h.ph = 4 => h.objects = 0
    BY <1>1, <2>1, <2>2 DEF PlaceOK
  <2>4. UpAt(a, h) = UpAt(a, g)
    BY <2>1 DEF UpAt
  <2>5. Upto(ObjectNames(a), 0) = <<>>
    BY UptoFacts
  <2> QED BY <1>4, <2>1, <2>2, <2>3, <2>4, <2>5 DEF LibOf
<1>9. ASSUME x.op = "finalize" PROVE LibOf(a, h, "down", hs, v, c, cl, t)
  <2>1. g.ph = 9 /\ h.ph = 10
    BY <1>1, <1>9 DEF Permits, PhaseAfter, LoopOps
  <2>2. h.classes = g.classes /\ h.objects = g.objects
    BY <1>3, <1>9 DEF LibOps
  <2> QED BY <1>4, <2>1, <2>2 DEF LibOf, UpAt
<1> QED BY <1>5, <1>6, <1>7, <1>8, <1>9

\* The table c with object o at key.
With(c, key, o) == [i \in (1..Len(c)) \cup {key + 1} |-> IF i = key + 1 THEN o ELSE c[i]]

LEMMA LibAssociate ==
  ASSUME NEW a, WellFormed(a), NEW p, NEW g, NEW x, NEW h, Goes(a, p, g, x, h), x.op = "associate",
         NEW u, NEW hs, NEW v, NEW c, NEW cl, NEW t, LibOf(a, g, u, hs, v, c, cl, t), NEW key, key = Nextfree(c)
  PROVE  LibOf(a, h, u, hs, [v EXCEPT !.keys = Append(@, key)],
               With(c, key, x.object), cl, t)
<1> DEFINE n == g.objects  names == ObjectNames(a)
<1> HIDE DEF n, names
<1>1. /\ g \in Places /\ h \in Places /\ Permits(a, p, g, x)
      /\ h.ph = PhaseAfter(g.ph, x.op) /\ h.classes = g.classes /\ h.objects = n + 1
  <2>1. /\ g \in Places /\ h \in Places /\ Permits(a, p, g, x)
        /\ x.op \notin LoopOps => h.ph = PhaseAfter(g.ph, x.op)
        /\ h.classes = IF x.op = "class" THEN g.classes + 1 ELSE g.classes
        /\ h.objects = IF x.op = "associate" THEN g.objects + 1 ELSE g.objects
    BY GoesFacts
  <2> QED BY <2>1 DEF LoopOps, n
<1>2. g.ph = 4 /\ h.ph = 4 /\ x.object = names[n + 1] /\ n \in Nat
  BY <1>1 DEF Permits, PhaseAfter, LoopOps, Places, n, names
<1>3. c = Upto(names, n) /\ v.keys = Numbers(n) /\ v \in [gtc : Nat, keys : Seq(Nat), classes : Seq(Nat)]
  BY <1>2 DEF LibOf, n, names
<1>4. Len(c) = n /\ key = n /\ \A i \in 1..n : c[i] = names[i]
  <2>1. Len(Upto(names, n)) = n /\ \A i \in 1..n : Upto(names, n)[i] = names[i]
    BY <1>2, UptoFacts
  <2>2. Nextfree(c) = Len(c)
    BY DEF Nextfree
  <2> QED BY <1>3, <2>1, <2>2
<1>5. With(c, key, x.object) = Upto(names, n + 1)
  <2>1. (1..Len(c)) \cup {key + 1} = 1..(n + 1)
    BY <1>2, <1>4
  <2>2. \A i \in 1..(n + 1) : (IF i = key + 1 THEN x.object ELSE c[i]) = names[i]
    BY <1>2, <1>4
  <2> QED BY <2>1, <2>2 DEF Upto, With
<1>6. Append(v.keys, key) = Numbers(n + 1) /\ Numbers(n + 1) \in Seq(Nat)
  <2>1. Append(Numbers(n), n) = Numbers(n + 1)
    BY <1>2, NumbersFacts
  <2>2. n + 1 \in Nat
    BY <1>2
  <2>3. Numbers(n + 1) \in Seq(Nat)
    BY <2>2, NumbersFacts
  <2> QED BY <1>3, <1>4, <2>1, <2>3, Zenon
<1> DEFINE w == [v EXCEPT !.keys = Append(@, key)]
<1>7. w \in [gtc : Nat, keys : Seq(Nat), classes : Seq(Nat)] /\ w.gtc = v.gtc /\ w.keys = Numbers(n + 1) /\ w.classes = v.classes
  <2> DEFINE k == Append(v.keys, key)
  <2>1. w = [v EXCEPT !.keys = k] /\ k \in Seq(Nat) /\ k = Numbers(n + 1)
    BY <1>6
  <2> HIDE DEF k
  <2> QED BY <1>3, <2>1
<1> HIDE DEF w
<1>8. /\ u = UpAt(a, g) /\ UpAt(a, g) = UpAt(a, h)
      /\ hs = {0} /\ v.gtc = 0 /\ v.classes = Numbers(g.classes) /\ cl = Upto(ClassNames(a), g.classes)
      /\ t \in BOOLEAN /\ ~t /\ h.ph \in 3..8 /\ ~(h.ph >= 7) /\ ~(h.ph >= 8)
  BY <1>1, <1>2 DEF LibOf, UpAt
<1>9. LibOf(a, h, u, hs, w, Upto(names, n + 1), cl, t)
  <2>1. w.keys = Numbers(h.objects) /\ Upto(names, n + 1) = Upto(ObjectNames(a), h.objects)
    BY <1>1, <1>7 DEF names
  <2> QED BY <1>1, <1>7, <1>8, <2>1, Zenon DEF LibOf
<1> QED BY <1>5, <1>9, Zenon DEF w

LEMMA LibClass ==
  ASSUME NEW a, WellFormed(a), NEW p, NEW g, NEW x, NEW h, Goes(a, p, g, x, h), x.op = "class",
         NEW u, NEW hs, NEW v, NEW c, NEW cl, NEW t, LibOf(a, g, u, hs, v, c, cl, t)
  PROVE  LibOf(a, h, u, hs, [v EXCEPT !.classes = Append(@, Len(cl))], c, Append(cl, x.fcn), t)
<1> DEFINE n == g.classes  names == ClassNames(a)
<1> HIDE DEF n, names
<1>1. /\ g \in Places /\ h \in Places /\ Permits(a, p, g, x)
      /\ h.ph = PhaseAfter(g.ph, x.op) /\ h.objects = g.objects /\ h.classes = n + 1
  <2>1. /\ g \in Places /\ h \in Places /\ Permits(a, p, g, x)
        /\ x.op \notin LoopOps => h.ph = PhaseAfter(g.ph, x.op)
        /\ h.classes = IF x.op = "class" THEN g.classes + 1 ELSE g.classes
        /\ h.objects = IF x.op = "associate" THEN g.objects + 1 ELSE g.objects
    BY GoesFacts
  <2> QED BY <2>1 DEF LoopOps, n
<1>2. g.ph \in 1..4 /\ h.ph = g.ph /\ x.fcn = names[n + 1] /\ n \in Nat
  BY <1>1 DEF Permits, PhaseAfter, LoopOps, Places, n, names
<1>3. cl = Upto(names, n) /\ v.classes = Numbers(n) /\ v \in [gtc : Nat, keys : Seq(Nat), classes : Seq(Nat)]
  BY DEF LibOf, n, names
<1>4. Len(cl) = n /\ Append(cl, x.fcn) = Upto(names, n + 1)
  <2>1. Len(Upto(names, n)) = n /\ Append(Upto(names, n), names[n + 1]) = Upto(names, n + 1)
    BY <1>2, UptoFacts
  <2> QED BY <1>2, <1>3, <2>1, Zenon
<1>6. Append(v.classes, Len(cl)) = Numbers(n + 1) /\ Numbers(n + 1) \in Seq(Nat)
  <2>1. Append(Numbers(n), n) = Numbers(n + 1)
    BY <1>2, NumbersFacts
  <2>2. n + 1 \in Nat
    BY <1>2
  <2>3. Numbers(n + 1) \in Seq(Nat)
    BY <2>2, NumbersFacts
  <2> QED BY <1>3, <1>4, <2>1, <2>3, Zenon
<1> DEFINE w == [v EXCEPT !.classes = Append(@, Len(cl))]
<1>7. w \in [gtc : Nat, keys : Seq(Nat), classes : Seq(Nat)] /\ w.gtc = v.gtc /\ w.classes = Numbers(n + 1) /\ w.keys = v.keys
  <2> DEFINE k == Append(v.classes, Len(cl))
  <2>1. w = [v EXCEPT !.classes = k] /\ k \in Seq(Nat) /\ k = Numbers(n + 1)
    BY <1>6
  <2> HIDE DEF k
  <2> QED BY <1>3, <2>1
<1> HIDE DEF w
<1>8. /\ u = UpAt(a, g) /\ UpAt(a, g) = UpAt(a, h)
      /\ hs = (IF h.ph \in 3..8 THEN {0} ELSE {}) /\ (h.ph \in 3..8 => v.gtc = 0) /\ v.keys = Numbers(g.objects)
      /\ c = (IF h.ph >= 8 THEN <<>> ELSE Upto(ObjectNames(a), g.objects))
      /\ t \in BOOLEAN /\ (t <=> h.ph >= 7)
  BY <1>1, <1>2 DEF LibOf, UpAt
<1>9. LibOf(a, h, u, hs, w, c, Upto(names, n + 1), t)
  <2>1. w.classes = Numbers(h.classes) /\ Upto(names, n + 1) = Upto(ClassNames(a), h.classes)
    BY <1>1, <1>7 DEF names
  <2>2. w.gtc = v.gtc /\ w.keys = Numbers(h.objects)
    BY <1>1, <1>7, <1>8
  <2> QED BY <1>7, <1>8, <1>1, <2>1, <2>2, Zenon DEF LibOf
<1> QED BY <1>4, <1>9, Zenon DEF w
-----------------------------------------------------------------------------
(***************************************************************************)
(* A process's own steps.                                                  *)
(***************************************************************************)
InLibrary(g) ==
  /\ up \in [Procs -> {"down", "up", "auto"}] /\ terminated \in [Procs -> BOOLEAN]
  /\ DOMAIN handles = Procs /\ DOMAIN prog = Procs /\ DOMAIN clod = Procs /\ DOMAIN classes = Procs
  /\ \A p \in Procs :
       LibOf(app, g[p], up[p], handles[p], prog[p], clod[p], classes[p], terminated[p])

\* Tasks.
TaskSet(a) == [class : 0..(Len(ClassNames(a)) - 1), body : Bodies(a), filled : BOOLEAN, created_by : Procs]

\* A queue with s tasks shared, of which the head may be blank, and what process p has claimed.
QueueAt(a, blank, q, s) ==
  /\ q \in Seq(TaskSet(a)) /\ s \in 0..Len(q)
  /\ \A i \in 1..Len(q) : q[i].filled \/ (blank /\ i = 1)
  /\ blank => s < Len(q)

ClaimAt(a, p, c) ==
  /\ c.from \in Procs /\ c.tasks \in Seq(TaskSet(a))
  /\ c.tasks # <<>> => c.from # p
  /\ \A i \in 1..Len(c.tasks) : c.tasks[i].filled

Queues(g) ==
  /\ DOMAIN queue = Procs /\ DOMAIN shared = Procs /\ DOMAIN claim = Procs
  /\ \A p \in Procs : /\ QueueAt(app, g[p].blank, queue[p], shared[p])
                      /\ ClaimAt(app, p, claim[p])

\* Steps of the loop of gtc_process that go on with it, and other steps.
Turning(p) == \/ Start(p) \/ Get(p) \/ PopNothing(p) \/ Land(p)
              \/ \E v \in Procs : \E n \in 1..shared[v] : Claim(p, v, n)

Ordinary(p) == Registry(p) \/ Program(p) \/ Executed(p)

\* Process p takes its next step to place h.
Own(g, p, h) ==
  /\ script[p] # <<>> /\ Goes(app, p, g[p], Now(p), h) /\ Tracked([g EXCEPT ![p] = h])'
  /\ \/ Ordinary(p) /\ Now(p).op \notin LoopOps
     \/ Turning(p) /\ h.ph = 6
     \/ PopHead(p) /\ h.ph = 5
     \/ Return(p) /\ h.ph = 7

LEMMA OwnDone ==
  ASSUME NEW g, Tracked(g), NEW p \in Procs, app' = app, Done(p), script[p] # <<>>,
         Now(p).op \notin CollectiveOps, Now(p).op # "release", Ordinary(p), Now(p).op \notin LoopOps
  PROVE  \E h : Own(g, p, h)
BY TrackDone DEF Own

\* Those of the library and of the program.
LEMMA OwnRegistry ==
  ASSUME NEW g, Tracked(g), InLibrary(g), NEW p \in Procs, Registry(p)
  PROVE  \E h : Own(g, p, h)
<1>0. Ordinary(p)
  BY DEF Ordinary
<1>1. CASE GtcInitStep(p)
  <2>1. app' = app /\ Done(p) /\ script[p] # <<>> /\ Now(p).op = "init"
    BY <1>1 DEF GtcInitStep, Init_, Does, Now
  <2> QED BY <1>0, <2>1, OwnDone DEF CollectiveOps, LoopOps
<1>2. CASE ImplicitInit(p)
  <2>1. app' = app /\ Done(p) /\ script[p] # <<>> /\ Now(p).op = "implicit_init"
    BY <1>2 DEF ImplicitInit, Init_, Does, Now
  <2> QED BY <1>0, <2>1, OwnDone DEF CollectiveOps, LoopOps
<1>3. CASE HandleRegister(p) \/ ClodChange(p) \/ Configure(p) \/ CloAssociate(p) \/ ClassRegister(p)
  <2>1. /\ app' = app /\ Done(p) /\ script[p] # <<>>
        /\ Now(p).op \in {"register", "clod_create", "clod_destroy", "configure", "evaluate", "associate", "class"}
    BY <1>3 DEF HandleRegister, ClodChange, Configure, CloAssociate, ClassRegister, Does, Now
  <2>2. Now(p).op \notin CollectiveOps /\ Now(p).op # "release" /\ Now(p).op \notin LoopOps
    BY <2>1 DEF CollectiveOps, LoopOps
  <2> QED BY <1>0, <2>1, <2>2, OwnDone
<1>4. CASE HandleRelease(p)
  <2> DEFINE left == handles[p] \ {prog[p].gtc}
  <2>1. /\ app' = app /\ script[p] # <<>> /\ Now(p).op = "release"
        /\ Then(p, IF left = {} /\ up[p] = "auto" THEN GtcFini ELSE <<>>)
    BY <1>4 DEF HandleRelease, Does, Now
  <2>2. left = {} /\ (up[p] = "auto" <=> app.prog = "tasks")
    <3>1. WellFormed(app) /\ LibOf(app, g[p], up[p], handles[p], prog[p], clod[p], classes[p], terminated[p])
      BY DEF Tracked, InLibrary
    <3>2. Now(p).op \notin CollectiveOps
      BY <2>1 DEF CollectiveOps
    <3>3. PICK k : /\ Now(p) \in Steps(app) /\ g[p] \in Places /\ PlaceOK(app, g[p])
                   /\ k \in Places /\ Moves(app, p, g[p], Now(p), k) /\ PlaceOK(app, k)
      BY <2>1, <3>2, TrackOwn
    <3>4. Goes(app, p, g[p], Now(p), k)
      BY <3>3 DEF Goes
    <3> DEFINE x == Now(p)  gg == g[p]  u == up[p]  hs == handles[p]  v == prog[p]  c == clod[p]  cl == classes[p]  tt == terminated[p]
    <3>5. WellFormed(app) /\ Goes(app, p, gg, x, k) /\ x.op = "release" /\ LibOf(app, gg, u, hs, v, c, cl, tt)
      BY <2>1, <3>1, <3>4
    <3> HIDE DEF x, gg, u, hs, v, c, cl, tt
    <3>6. hs \ {v.gtc} = {} /\ (u = "auto" <=> app.prog = "tasks") /\ LibOf(app, k, u, hs \ {v.gtc}, v, c, cl, tt)
      BY <3>5, LibRelease
    <3> QED BY <3>6 DEF hs, v, u
  <2>3. Then(p, IF app.prog = "tasks" THEN GtcFini ELSE <<>>)
    BY <2>1, <2>2, Zenon
  <2>4. \E h : Goes(app, p, g[p], Now(p), h) /\ Tracked([g EXCEPT ![p] = h])'
    BY <2>1, <2>3, TrackRelease
  <2> QED BY <1>0, <2>1, <2>4 DEF Own, LoopOps
<1> QED BY <1>1, <1>2, <1>3, <1>4 DEF Registry

LEMMA OwnProgram ==
  ASSUME NEW g, Tracked(g), InLibrary(g), NEW p \in Procs, Program(p)
  PROVE  \E h : Own(g, p, h)
<1>0. Ordinary(p)
  BY DEF Ordinary
<1>1. CASE \/ TaskCreate(p) \/ TaskDestroy(p) \/ TaskAdd(p) \/ TaskFill(p) \/ CallProgress(p) \/ CountTask(p)
           \/ PrintStats(p) \/ ChangeTree(p)
  <2>1. /\ app' = app /\ Done(p) /\ script[p] # <<>>
        /\ Now(p).op \in {"create", "destroy", "add", "inplace", "fill", "progress", "bump", "visit", "sleep",
                          "print", "create_tree", "wipe"}
    BY <1>1 DEF TaskCreate, TaskDestroy, TaskAdd, TaskFill, CallProgress, CountTask, PrintStats, ChangeTree, Does, Now
  <2>2. Now(p).op \notin CollectiveOps /\ Now(p).op # "release" /\ Now(p).op \notin LoopOps
    BY <2>1 DEF CollectiveOps, LoopOps
  <2> QED BY <1>0, <2>1, <2>2, OwnDone
<1>2. CASE Seed(p)
  <2>1. app' = app /\ script[p] # <<>> /\ Now(p).op = "seed" /\ Then(p, BpcSeed(app, prog[p].keys))
    BY <1>2 DEF Seed, Does, Now
  <2>2. prog[p].keys = KeyList
    <3>1. WellFormed(app) /\ LibOf(app, g[p], up[p], handles[p], prog[p], clod[p], classes[p], terminated[p])
      BY DEF Tracked, InLibrary
    <3>2. Now(p).op \notin CollectiveOps
      BY <2>1 DEF CollectiveOps
    <3>3. PICK k : g[p] \in Places /\ Moves(app, p, g[p], Now(p), k)
      BY <2>1, <3>2, TrackOwn
    <3>4. app.prog = "bpc" /\ Complete(app, g[p])
      BY <2>1, <3>3 DEF Moves, Permits, SeedOps, WorkOps
    <3>5. Len(<<"ntasks", "nproducers", "nconsumers">>) = 3
      OBVIOUS
    <3>6. g[p].objects = 3
      BY <3>4, <3>5 DEF Complete, ObjectNames
    <3>7. Numbers(3) = KeyList
      BY NumbersFacts
    <3>8. prog[p].keys = Numbers(g[p].objects)
      BY <3>1 DEF LibOf
    <3> QED BY <3>6, <3>7, <3>8
  <2>3. Then(p, BpcSeed(app, KeyList))
    BY <2>1, <2>2, Zenon
  <2>4. \E h : Goes(app, p, g[p], Now(p), h) /\ Tracked([g EXCEPT ![p] = h])'
    BY <2>1, <2>3, TrackCalls
  <2> QED BY <1>0, <2>1, <2>4 DEF Own, LoopOps
<1>3. CASE RefineBox(p)
  <2>1. /\ app' = app /\ script[p] # <<>> /\ Now(p).op = "refine"
        /\ Then(p, Further(app, Now(p).kept, Now(p).node, Now(p).box))
    BY <1>3 DEF RefineBox, Does, Now
  <2>2. \E h : Goes(app, p, g[p], Now(p), h) /\ Tracked([g EXCEPT ![p] = h])'
    BY <2>1, TrackCalls
  <2> QED BY <1>0, <2>1, <2>2 DEF Own, LoopOps
<1> QED BY <1>1, <1>2, <1>3 DEF Program

\* Those of gtc_process.
LEMMA OwnProcess ==
  ASSUME NEW g, Tracked(g), Queues(g), NEW p \in Procs, Process(p)
  PROVE  \E h : Own(g, p, h)
<1>1. CASE Executed(p)
  <2>0. Ordinary(p)
    BY <1>1 DEF Ordinary
  <2>1. app' = app /\ Done(p) /\ script[p] # <<>> /\ Now(p).op = "executed"
    BY <1>1 DEF Executed, Does, Now
  <2> QED BY <2>0, <2>1, OwnDone DEF CollectiveOps, LoopOps
<1>2. CASE Turning(p)
  <2>1. PICK o \in {"get", "pop", "search", "copy"} :
          /\ app' = app /\ script[p] # <<>> /\ Now(p).op \in LoopOps /\ Then(p, <<Step(o)>>)
    BY <1>2 DEF Turning, Start, Get, PopNothing, Land, Claim, Does, Now, LoopOps
  <2>2. \E h : Goes(app, p, g[p], Now(p), h) /\ Tracked([g EXCEPT ![p] = h])' /\ h.ph = 6
    BY <2>1, TrackLoop
  <2> QED BY <1>2, <2>1, <2>2 DEF Own
<1>3. CASE Return(p)
  <2>1. app' = app /\ Done(p) /\ script[p] # <<>> /\ Now(p).op = "search"
    BY <1>3 DEF Return, Does, Now
  <2>2. \E h : Goes(app, p, g[p], Now(p), h) /\ Tracked([g EXCEPT ![p] = h])' /\ h.ph = 7
    BY <2>1, TrackDone DEF CollectiveOps, LoopOps
  <2> QED BY <1>3, <2>1, <2>2 DEF Own
<1>4. CASE PopHead(p)
  <2> DEFINE t == Head(queue[p])  fcn == Lookup(classes[p], t.class)  b == t.body
             s == Body(app, fcn, b)
  <2>1. /\ app' = app /\ script[p] # <<>> /\ Now(p).op = "pop" /\ queue[p] # <<>>
        /\ Then(p, s \o <<Step("executed"), Step("get")>>)
    BY <1>4 DEF PopHead, Execute, Does, Now
  <2>2. b \in Bodies(app)
    <3>1. t \in TaskSet(app)
      BY <2>1 DEF Queues, QueueAt
    <3> QED BY <3>1 DEF TaskSet
  <2>3. \E ff : \E bb \in Bodies(app) : s = Body(app, ff, bb)
    BY <2>2
  <2>5. PICK z : z = s
    OBVIOUS
  <2>6. (\E ff : \E bb \in Bodies(app) : z = Body(app, ff, bb)) /\ Then(p, z \o <<Step("executed"), Step("get")>>)
    BY <2>1, <2>3, <2>5, Zenon
  <2> HIDE DEF s, t, fcn, b
  <2>4. \E h : Goes(app, p, g[p], Now(p), h) /\ Tracked([g EXCEPT ![p] = h])' /\ h.ph = 5
    <3>1. script[p] # <<>> /\ Now(p).op = "pop" /\ app' = app
      BY <2>1
    <3>2. BodyOf(app, z)
      BY <2>6 DEF BodyOf
    <3>3. Then(p, z \o <<Step("executed"), Step("get")>>)
      BY <2>6
    <3> QED BY <3>1, <3>2, <3>3, TrackExecute
  <2> QED BY <1>4, <2>1, <2>4 DEF Own
<1> QED BY <1>1, <1>2, <1>3, <1>4 DEF Process, Turning
-----------------------------------------------------------------------------
(***************************************************************************)
(* The library's state of each process fits its place.                     *)
(***************************************************************************)
\* The library's state of p becomes this, and that of the others stays.
LibPut(p, u, hs, v, c, cl, t) ==
  /\ up' \in [Procs -> {"down", "up", "auto"}] /\ terminated' \in [Procs -> BOOLEAN]
  /\ DOMAIN handles' = Procs /\ DOMAIN prog' = Procs /\ DOMAIN clod' = Procs /\ DOMAIN classes' = Procs
  /\ up'[p] = u /\ handles'[p] = hs /\ prog'[p] = v /\ clod'[p] = c /\ classes'[p] = cl /\ terminated'[p] = t
  /\ \A q \in Procs : q # p => /\ up'[q] = up[q] /\ handles'[q] = handles[q] /\ prog'[q] = prog[q]
                               /\ clod'[q] = clod[q] /\ classes'[q] = classes[q]
                               /\ terminated'[q] = terminated[q]

LEMMA LibraryPut ==
  ASSUME NEW g \in [Procs -> Places], InLibrary(g), NEW p \in Procs, NEW h, app' = app,
         NEW u, NEW hs, NEW v, NEW c, NEW cl, NEW t, LibPut(p, u, hs, v, c, cl, t),
         LibOf(app, h, u, hs, v, c, cl, t)
  PROVE  InLibrary([g EXCEPT ![p] = h])'
<1> DEFINE f == [g EXCEPT ![p] = h]
<1>1. f[p] = h /\ \A q \in Procs : q # p => f[q] = g[q]
  OBVIOUS
<1>2. InLibrary(f)' <=>
        /\ up' \in [Procs -> {"down", "up", "auto"}] /\ terminated' \in [Procs -> BOOLEAN]
        /\ DOMAIN handles' = Procs /\ DOMAIN prog' = Procs /\ DOMAIN clod' = Procs /\ DOMAIN classes' = Procs
        /\ \A q \in Procs :
             LibOf(app', f[q], up'[q], handles'[q], prog'[q], clod'[q], classes'[q], terminated'[q])
  BY DEF InLibrary, f
<1> HIDE DEF f
<1>3. ASSUME NEW q \in Procs
      PROVE  LibOf(app', f[q], up'[q], handles'[q], prog'[q], clod'[q], classes'[q], terminated'[q])
  <2>1. CASE q = p
    BY <1>1, <2>1, Zenon DEF LibPut
  <2>2. CASE q # p
    <3>1. LibOf(app, g[q], up[q], handles[q], prog[q], clod[q], classes[q], terminated[q])
      BY DEF InLibrary
    <3> QED BY <1>1, <2>2, <3>1, Zenon DEF LibPut
  <2> QED BY <2>1, <2>2
<1> QED BY <1>2, <1>3, Zenon DEF LibPut, f

\* Steps that leave the library as it is, but for the end of gtc_process.
LEMMA LibraryKept ==
  ASSUME NEW g, Tracked(g), InLibrary(g), NEW p \in Procs, NEW h, app' = app,
         Goes(app, p, g[p], Now(p), h), Now(p).op \notin LibOps,
         UNCHANGED library, NEW t \in BOOLEAN, terminated' = [terminated EXCEPT ![p] = t],
         Now(p).op \in LoopOps => (t <=> h.ph = 7), Now(p).op \notin LoopOps => t = terminated[p]
  PROVE  InLibrary([g EXCEPT ![p] = h])'
<1> DEFINE x == Now(p)  k == g[p]  u == up[p]  hs == handles[p]  v == prog[p]  c == clod[p]  cl == classes[p]
           tt == terminated[p]
<1>1. WellFormed(app) /\ g \in [Procs -> Places] /\ Goes(app, p, k, x, h) /\ LibOf(app, k, u, hs, v, c, cl, tt)
  BY DEF Tracked, InLibrary
<1>2. x.op \notin LibOps /\ (x.op \in LoopOps => (t <=> h.ph = 7)) /\ (x.op \notin LoopOps => t = tt)
  OBVIOUS
<1>3. LibPut(p, u, hs, v, c, cl, t)
  BY DEF LibPut, InLibrary, library
<1> HIDE DEF x, k, u, hs, v, c, cl, tt
<1>4. LibOf(app, h, u, hs, v, c, cl, t)
  BY <1>1, <1>2, LibSame
<1> QED BY <1>1, <1>3, <1>4, LibraryPut

\* Those that change it.
LEMMA LibraryChanges ==
  ASSUME NEW g, Tracked(g), InLibrary(g), NEW p \in Procs, NEW h, app' = app,
         Goes(app, p, g[p], Now(p), h),
         \/ GtcInitStep(p) \/ ImplicitInit(p) \/ HandleRegister(p) \/ ClodChange(p)
         \/ CloAssociate(p) \/ ClassRegister(p) \/ HandleRelease(p)
  PROVE  InLibrary([g EXCEPT ![p] = h])'
<1> DEFINE x == Now(p)  k == g[p]  u == up[p]  hs == handles[p]  v == prog[p]  c == clod[p]  cl == classes[p]
           t == terminated[p]
<1>1. WellFormed(app) /\ g \in [Procs -> Places] /\ Goes(app, p, k, x, h) /\ LibOf(app, k, u, hs, v, c, cl, t)
  BY DEF Tracked, InLibrary
<1>2. /\ up \in [Procs -> {"down", "up", "auto"}] /\ terminated \in [Procs -> BOOLEAN]
      /\ DOMAIN handles = Procs /\ DOMAIN prog = Procs /\ DOMAIN clod = Procs /\ DOMAIN classes = Procs
  BY DEF InLibrary
<1>3. CASE GtcInitStep(p)
  <2>1. x.op = "init" /\ LibPut(p, "up", {}, v, c, cl, t)
    BY <1>2, <1>3 DEF LibPut, GtcInitStep, Init_, Does, Now, pool
  <2> HIDE DEF x, k, u, hs, v, c, cl, t
  <2>2. LibOf(app, h, "up", {}, v, c, cl, t)
    BY <1>1, <2>1, LibSteps
  <2> QED BY <1>1, <2>1, <2>2, LibraryPut
<1>4. CASE ImplicitInit(p)
  <2> DEFINE u2 == IF u = "down" THEN "auto" ELSE u
  <2>1. x.op = "implicit_init" /\ LibPut(p, u2, {}, v, c, cl, t)
    BY <1>2, <1>4 DEF LibPut, ImplicitInit, Init_, Does, Now, pool
  <2>3. u2 = IF u = "down" THEN "auto" ELSE u
    OBVIOUS
  <2> HIDE DEF x, k, u, hs, v, c, cl, t
  <2>2. LibOf(app, h, u2, {}, v, c, cl, t)
    BY <1>1, <2>1, LibSteps
  <2> HIDE DEF u2
  <2> QED BY <1>1, <2>1, <2>2, LibraryPut
<1>5. CASE HandleRegister(p)
  <2> DEFINE hs2 == hs \cup {FirstFree(hs)}  v2 == [v EXCEPT !.gtc = FirstFree(hs)]
  <2>1. x.op = "register" /\ LibPut(p, u, hs2, v2, c, cl, t)
    <3>1. /\ x.op = "register" /\ up' = up /\ clod' = clod /\ classes' = classes /\ terminated' = terminated
          /\ handles' = [handles EXCEPT ![p] = hs2] /\ prog' = [prog EXCEPT ![p] = v2]
      BY <1>5, Zenon DEF HandleRegister, Does, Now, pool
    <3> HIDE DEF hs2, v2
    <3> QED BY <1>2, <3>1 DEF LibPut
  <2> HIDE DEF x, k, u, hs, v, c, cl, t
  <2>2. LibOf(app, h, u, hs2, v2, c, cl, t)
    BY <1>1, <2>1, LibSteps
  <2> HIDE DEF hs2, v2
  <2> QED BY <1>1, <2>1, <2>2, LibraryPut
<1>6. CASE ClodChange(p)
  <2>1. x.op \in {"clod_create", "clod_destroy"} /\ LibPut(p, u, hs, v, <<>>, cl, t)
    BY <1>2, <1>6 DEF LibPut, ClodChange, Does, Now, pool
  <2> HIDE DEF x, k, u, hs, v, c, cl, t
  <2>2. LibOf(app, h, u, hs, v, <<>>, cl, t)
    BY <1>1, <2>1, LibSteps
  <2> QED BY <1>1, <2>1, <2>2, LibraryPut
<1>7. CASE CloAssociate(p)
  <2> DEFINE key == Nextfree(c)  v2 == [v EXCEPT !.keys = Append(@, key)]
             c2 == With(c, key, x.object)
  <2>1. x.op = "associate" /\ LibPut(p, u, hs, v2, c2, cl, t)
    <3>1. /\ x.op = "associate" /\ up' = up /\ handles' = handles /\ classes' = classes /\ terminated' = terminated
          /\ clod' = [clod EXCEPT ![p] = c2] /\ prog' = [prog EXCEPT ![p] = v2]
      BY <1>7, Zenon DEF CloAssociate, Does, Now, pool, With
    <3> HIDE DEF c2, v2
    <3> QED BY <1>2, <3>1 DEF LibPut
  <2>3. key = Nextfree(c)
    OBVIOUS
  <2> HIDE DEF x, k, u, hs, v, c, cl, t, key
  <2>2. LibOf(app, h, u, hs, v2, c2, cl, t)
    BY <1>1, <2>1, <2>3, LibAssociate
  <2> HIDE DEF c2, v2
  <2> QED BY <1>1, <2>1, <2>2, LibraryPut
<1>8. CASE ClassRegister(p)
  <2> DEFINE v2 == [v EXCEPT !.classes = Append(@, Len(cl))]  cl2 == Append(cl, x.fcn)
  <2>1. x.op = "class" /\ LibPut(p, u, hs, v2, c, cl2, t)
    <3>1. /\ x.op = "class" /\ up' = up /\ handles' = handles /\ clod' = clod /\ terminated' = terminated
          /\ classes' = [classes EXCEPT ![p] = cl2] /\ prog' = [prog EXCEPT ![p] = v2]
      BY <1>8, Zenon DEF ClassRegister, Does, Now, pool
    <3> HIDE DEF cl2, v2
    <3> QED BY <1>2, <3>1 DEF LibPut
  <2> HIDE DEF x, k, u, hs, v, c, cl, t
  <2>2. LibOf(app, h, u, hs, v2, c, cl2, t)
    BY <1>1, <2>1, LibClass
  <2> HIDE DEF cl2, v2
  <2> QED BY <1>1, <2>1, <2>2, LibraryPut
<1>9. CASE HandleRelease(p)
  <2> DEFINE hs2 == hs \ {v.gtc}
  <2>1. x.op = "release" /\ LibPut(p, u, hs2, v, c, cl, t)
    <3>1. /\ x.op = "release" /\ up' = up /\ prog' = prog /\ clod' = clod /\ classes' = classes
          /\ terminated' = terminated /\ handles' = [handles EXCEPT ![p] = hs2]
      BY <1>9, Zenon DEF HandleRelease, Does, Now, pool
    <3> HIDE DEF hs2
    <3> QED BY <1>2, <3>1 DEF LibPut
  <2> HIDE DEF x, k, u, hs, v, c, cl, t
  <2>2. LibOf(app, h, u, hs2, v, c, cl, t)
    BY <1>1, <2>1, LibRelease
  <2> HIDE DEF hs2
  <2> QED BY <1>1, <2>1, <2>2, LibraryPut
<1> QED BY <1>3, <1>4, <1>5, <1>6, <1>7, <1>8, <1>9
-----------------------------------------------------------------------------
(***************************************************************************)
(* The queues.                                                             *)
(***************************************************************************)
LEMMA QueuePush ==
  ASSUME NEW a, NEW q, NEW s, QueueAt(a, FALSE, q, s), NEW t \in TaskSet(a), NEW b \in BOOLEAN, t.filled \/ b
  PROVE  QueueAt(a, b, <<t>> \o q, s)
<1> DEFINE S == TaskSet(a)
<1>1. q \in Seq(S) /\ s \in 0..Len(q) /\ (\A i \in 1..Len(q) : q[i].filled) /\ t \in S /\ Len(q) \in Nat
  BY DEF QueueAt
<1> HIDE DEF S
<1> DEFINE w == <<t>> \o q
<1>2. w \in Seq(S) /\ Len(w) = Len(q) + 1 /\ w[1] = t /\ \A i \in 2..Len(w) : w[i] = q[i - 1]
  BY <1>1
<1> HIDE DEF w
<1>3. \A i \in 1..Len(w) : w[i].filled \/ (b /\ i = 1)
  <2> SUFFICES ASSUME NEW i \in 1..Len(w) PROVE w[i].filled \/ (b /\ i = 1)
    OBVIOUS
  <2>1. CASE i = 1
    BY <2>1, <1>2
  <2>2. CASE i # 1
    <3>1. i \in 2..Len(w) /\ i - 1 \in 1..Len(q)
      BY <2>2, <1>1, <1>2
    <3> QED BY <3>1, <1>1, <1>2
  <2> QED BY <2>1, <2>2
<1>4. s \in 0..Len(w) /\ s < Len(w)
  BY <1>1, <1>2
<1> QED BY <1>2, <1>3, <1>4 DEF QueueAt, S, w

FilledIn(q, b) == [q EXCEPT ![1].body = b, ![1].filled = TRUE]

LEMMA QueueFill ==
  ASSUME NEW a, NEW q, NEW s, QueueAt(a, TRUE, q, s), NEW b \in Bodies(a)
  PROVE  QueueAt(a, FALSE, FilledIn(q, b), s)
<1> DEFINE S == TaskSet(a)  n == Len(q)
<1>1. q \in Seq(S) /\ s \in 0..n /\ (\A i \in 1..n : q[i].filled \/ i = 1) /\ s < n /\ n \in Nat
  BY DEF QueueAt
<1> DEFINE t == [q[1] EXCEPT !.body = b]  t2 == [t EXCEPT !.filled = TRUE]
<1>2. t2 \in S /\ t2.filled
  <2>1. q[1] \in S
    BY <1>1
  <2>2. t \in S
    BY <2>1 DEF TaskSet
  <2> QED BY <2>2 DEF TaskSet
<1> DEFINE w == [q EXCEPT ![1].body = b, ![1].filled = TRUE]
<1>3. w = [q EXCEPT ![1] = t2]
  <2>1. DOMAIN q = 1..n
    BY <1>1
  <2> QED BY <2>1, <1>1
<1> HIDE DEF S, n, t, t2, w
<1>4. w \in Seq(S) /\ Len(w) = n /\ w[1] = t2 /\ \A i \in 2..n : w[i] = q[i]
  <2>1. Len(q) = n
    BY DEF n
  <2> QED BY <1>1, <1>2, <1>3, <2>1
<1>5. \A i \in 1..Len(w) : w[i].filled
  <2> SUFFICES ASSUME NEW i \in 1..n PROVE w[i].filled
    BY <1>4
  <2>1. CASE i = 1
    BY <2>1, <1>4, <1>2
  <2>2. CASE i # 1
    BY <2>2, <1>1, <1>4
  <2> QED BY <2>1, <2>2
<1> QED BY <1>1, <1>4, <1>5 DEF QueueAt, S, w, FilledIn

\* gtc_progress
LEMMA QueueShare ==
  ASSUME NEW a, NEW q, NEW s, QueueAt(a, FALSE, q, s)
  PROVE  QueueAt(a, FALSE, q, Released(Len(q)))
<1>1. Len(q) \in Nat
  BY DEF QueueAt
<1>2. Released(Len(q)) \in 0..Len(q)
  <2> DEFINE n == Len(q)
  <2>0. n \in Nat
    BY <1>1
  <2> HIDE DEF n
  <2>1. n \div 2 \in Nat /\ n % 2 \in {0, 1} /\ n = 2 * (n \div 2) + (n % 2)
    BY <2>0
  <2>2. (n \div 2) + (n % 2) \in 0..n
    BY <2>0, <2>1
  <2> QED BY <2>2 DEF Released, n
<1> QED BY <1>2 DEF QueueAt

\* pop_head, with reacquire
LEMMA QueuePop ==
  ASSUME NEW a, NEW q, NEW s, QueueAt(a, FALSE, q, s), q # <<>>
  PROVE  QueueAt(a, FALSE, Tail(q), IF s = Len(q) THEN s - Reacquired(s) ELSE s)
<1> DEFINE S == TaskSet(a)  n == Len(q)  w == Tail(q)  r == IF s = n THEN s - Reacquired(s) ELSE s
<1>1. q \in Seq(S) /\ s \in 0..n /\ (\A i \in 1..n : q[i].filled) /\ n \in Nat /\ n # 0
  BY DEF QueueAt
<1>2. w \in Seq(S) /\ Len(w) = n - 1 /\ \A i \in 1..(n - 1) : w[i] = q[i + 1]
  BY <1>1
<1> HIDE DEF S, n, w
<1>3. r \in 0..(n - 1)
  <2>1. CASE s = n
    <3>1. n \div 2 \in Nat /\ n % 2 \in {0, 1} /\ n = 2 * (n \div 2) + (n % 2)
      BY <1>1
    <3>2. Reacquired(n) \in 1..n
      BY <1>1, <3>1 DEF Reacquired
    <3> QED BY <3>2, <2>1, <1>1
  <2>2. CASE s # n
    BY <2>2, <1>1
  <2> QED BY <2>1, <2>2
<1>4. \A i \in 1..Len(w) : w[i].filled
  BY <1>1, <1>2
<1> QED BY <1>2, <1>3, <1>4 DEF QueueAt, S, n, w

\* What a thief claims at the tail, and what is left.
LEMMA QueueClaim ==
  ASSUME NEW a, NEW q, NEW s, NEW b \in BOOLEAN, QueueAt(a, b, q, s), NEW n \in 1..s
  PROVE  LET keeps == Len(q) - n
             taken == SubSeq(q, keeps + 1, keeps + n)
         IN  /\ QueueAt(a, b, SubSeq(q, 1, keeps), s - n)
             /\ taken \in Seq(TaskSet(a)) /\ \A i \in 1..Len(taken) : taken[i].filled
<1> DEFINE S == TaskSet(a)  l == Len(q)  keeps == l - n  taken == SubSeq(q, keeps + 1, keeps + n)
           w == SubSeq(q, 1, keeps)
<1>1. q \in Seq(S) /\ s \in 0..l /\ (\A i \in 1..l : q[i].filled \/ (b /\ i = 1)) /\ l \in Nat
      /\ (b => s < l)
  BY DEF QueueAt
<1>2. keeps \in 0..l /\ n \in Nat /\ keeps + n = l /\ n <= s
  BY <1>1
<1> HIDE DEF S, keeps
<1>3. w \in Seq(S) /\ Len(w) = keeps /\ \A i \in 1..keeps : w[i] = q[i]
  BY <1>1, <1>2, SubSeqProperties
<1>4. taken \in Seq(S) /\ Len(taken) = n /\ \A i \in 1..n : taken[i] = q[keeps + i]
  <2>1. keeps + 1 \in 1..(l + 1) /\ keeps + n \in 0..l
    BY <1>1, <1>2
  <2> QED BY <1>1, <1>2, <2>1, SubSeqProperties
<1> HIDE DEF w, taken
<1>5. \A i \in 1..Len(taken) : taken[i].filled
  <2> SUFFICES ASSUME NEW i \in 1..n PROVE taken[i].filled
    BY <1>4
  <2>1. keeps + i \in 1..l /\ (b => keeps + i # 1)
    BY <1>1, <1>2
  <2> QED BY <2>1, <1>1, <1>4
<1>6. QueueAt(a, b, w, s - n)
  <2>1. s - n \in 0..keeps /\ (b => s - n < keeps)
    BY <1>1, <1>2
  <2>2. \A i \in 1..Len(w) : w[i].filled \/ (b /\ i = 1)
    BY <1>1, <1>2, <1>3
  <2> QED BY <2>1, <2>2, <1>3 DEF QueueAt, S
<1> QED BY <1>4, <1>5, <1>6 DEF S, keeps, w, taken

\* The claimed tasks are put before the queue's own.
LEMMA QueueLand ==
  ASSUME NEW a, NEW q, NEW s, QueueAt(a, FALSE, q, s), NEW c \in Seq(TaskSet(a)),
         \A i \in 1..Len(c) : c[i].filled
  PROVE  QueueAt(a, FALSE, c \o q, s)
<1> DEFINE S == TaskSet(a)  w == c \o q
<1>1. q \in Seq(S) /\ s \in 0..Len(q) /\ (\A i \in 1..Len(q) : q[i].filled) /\ c \in Seq(S)
      /\ Len(q) \in Nat /\ Len(c) \in Nat
  BY DEF QueueAt
<1> HIDE DEF S
<1>2. w \in Seq(S) /\ Len(w) = Len(c) + Len(q)
      /\ \A i \in 1..Len(w) : w[i] = IF i <= Len(c) THEN c[i] ELSE q[i - Len(c)]
  BY <1>1, ConcatProperties
<1> HIDE DEF w
<1>3. \A i \in 1..Len(w) : w[i].filled
  <2> SUFFICES ASSUME NEW i \in 1..Len(w) PROVE w[i].filled
    OBVIOUS
  <2>1. CASE i <= Len(c)
    BY <2>1, <1>1, <1>2
  <2>2. CASE ~(i <= Len(c))
    <3>1. i - Len(c) \in 1..Len(q)
      BY <2>2, <1>1, <1>2
    <3> QED BY <3>1, <2>2, <1>1, <1>2
  <2> QED BY <2>1, <2>2
<1>4. s \in 0..Len(w)
  BY <1>1, <1>2
<1> QED BY <1>2, <1>3, <1>4 DEF QueueAt, S, w
-----------------------------------------------------------------------------
\* The program's number of a class is that of the library.
LEMMA ClassIds ==
  ASSUME NEW g, Tracked(g), InLibrary(g), NEW p \in Procs, NEW h, Goes(app, p, g[p], Now(p), h),
         Now(p).op \in {"create", "destroy", "inplace", "add"}
  PROVE  /\ Now(p).class \in 1..g[p].classes /\ g[p].classes = Len(ClassNames(app))
         /\ ClassId(p, Now(p).class) = Now(p).class - 1
<1>1. WellFormed(app) /\ LibOf(app, g[p], up[p], handles[p], prog[p], clod[p], classes[p], terminated[p])
  BY DEF Tracked, InLibrary
<1>2. /\ Permits(app, p, g[p], Now(p)) /\ PlaceOK(app, g[p]) /\ Now(p) \in Steps(app) /\ g[p] \in Places
      /\ h \in Places
  BY <1>1, GoesFacts
<1>3. Now(p).class \in Classes(app)
  BY <1>2, StepFacts
<1>4. (g[p].ph = 4 /\ Complete(app, g[p])) \/ g[p].ph = 5 \/ g[p].ph = 7
  BY <1>2 DEF Permits, SeedOps, WorkOps
<1>5. Complete(app, g[p])
  BY <1>2, <1>4 DEF PlaceOK
<1>6. g[p].classes = Len(ClassNames(app)) /\ g[p].classes \in Nat
  BY <1>2, <1>5 DEF Complete, Places
<1>7. Now(p).class \in 1..Len(ClassNames(app))
  <2>1. Len(<<"producer_task_fcn", "consumer_task_fcn">>) = 2
    OBVIOUS
  <2>2. app.prog = "bpc" => Len(ClassNames(app)) = 2
    BY <2>1 DEF ClassNames
  <2>3. Len(ClassNames(app)) \in Nat /\ Len(ClassNames(app)) > 0
    BY <1>1, NamesFinite
  <2> QED BY <1>3, <2>2, <2>3 DEF Classes
<1>8. prog[p].classes = Numbers(g[p].classes)
  BY <1>1 DEF LibOf
<1>9. \A i \in 1..g[p].classes : Numbers(g[p].classes)[i] = i - 1
  BY <1>6, NumbersFacts
<1> QED BY <1>6, <1>7, <1>8, <1>9 DEF ClassId

\* A blank slot is filled next, and no other step leaves one.
LEMMA BlankFacts ==
  ASSUME NEW g, Tracked(g), NEW p \in Procs, NEW h, Goes(app, p, g[p], Now(p), h)
  PROVE  /\ g[p].blank = (Now(p).op = "fill") /\ h.blank = (Now(p).op = "inplace")
         /\ g[p].blank \in BOOLEAN /\ h.blank \in BOOLEAN
<1>1. WellFormed(app)
  BY DEF Tracked
<1> DEFINE x == Now(p)  k == g[p]
<1>2. Permits(app, p, k, x) /\ (h.blank <=> x.op = "inplace") /\ k \in Places /\ h \in Places
  <2>1. Goes(app, p, k, x, h)
    OBVIOUS
  <2> HIDE DEF x, k
  <2> QED BY <1>1, <2>1, GoesFacts
<1>3. g[p].blank <=> Now(p).op = "fill"
  BY <1>2 DEF Permits
<1>4. g[p].blank \in BOOLEAN /\ h.blank \in BOOLEAN
  BY <1>2 DEF Places
<1> QED BY <1>2, <1>3, <1>4

\* Queues fit the places of the processes afterwards if that of p does and the others' are
\* not changed.
LEMMA QueuesPut ==
  ASSUME NEW g \in [Procs -> Places], Queues(g), NEW p \in Procs, NEW h, app' = app,
         DOMAIN queue' = Procs, DOMAIN shared' = Procs, DOMAIN claim' = Procs,
         QueueAt(app, h.blank, queue'[p], shared'[p]), ClaimAt(app, p, claim'[p]),
         \A q \in Procs : q # p =>
            \/ queue'[q] = queue[q] /\ shared'[q] = shared[q] /\ claim'[q] = claim[q]
            \/ QueueAt(app, g[q].blank, queue'[q], shared'[q]) /\ ClaimAt(app, q, claim'[q])
  PROVE  Queues([g EXCEPT ![p] = h])'
<1> DEFINE f == [g EXCEPT ![p] = h]
<1>1. f[p] = h /\ \A q \in Procs : q # p => f[q] = g[q]
  OBVIOUS
<1>2. Queues(f)' <=>
        /\ DOMAIN queue' = Procs /\ DOMAIN shared' = Procs /\ DOMAIN claim' = Procs
        /\ \A q \in Procs : /\ QueueAt(app', f[q].blank, queue'[q], shared'[q])
                            /\ ClaimAt(app', q, claim'[q])
  BY DEF Queues, f
<1> HIDE DEF f
<1>3. ASSUME NEW q \in Procs
      PROVE  QueueAt(app', f[q].blank, queue'[q], shared'[q]) /\ ClaimAt(app', q, claim'[q])
  <2>1. CASE q = p
    BY <1>1, <2>1, Zenon
  <2>2. CASE q # p
    <3>1. QueueAt(app, g[q].blank, queue[q], shared[q]) /\ ClaimAt(app, q, claim[q])
      BY DEF Queues
    <3> QED BY <1>1, <2>2, <3>1, Zenon
  <2> QED BY <2>1, <2>2
<1> QED BY <1>2, <1>3, Zenon DEF f

LEMMA QueuesKept ==
  ASSUME NEW g, Tracked(g), Queues(g), NEW p \in Procs, NEW h, app' = app,
         Goes(app, p, g[p], Now(p), h), Now(p).op \notin {"fill", "inplace"},
         UNCHANGED <<queue, shared, claim>>
  PROVE  Queues([g EXCEPT ![p] = h])'
<1>1. g \in [Procs -> Places] /\ h.blank = g[p].blank
  BY BlankFacts DEF Tracked
<1>2. QueueAt(app, h.blank, queue[p], shared[p]) /\ ClaimAt(app, p, claim[p])
  BY <1>1 DEF Queues
<1>3. DOMAIN queue = Procs /\ DOMAIN shared = Procs /\ DOMAIN claim = Procs
  BY DEF Queues
<1> QED BY <1>1, <1>2, <1>3, QueuesPut

LEMMA QueuesAdd ==
  ASSUME NEW g, Tracked(g), InLibrary(g), Queues(g), NEW p \in Procs, NEW h,
         Goes(app, p, g[p], Now(p), h), TaskAdd(p)
  PROVE  Queues([g EXCEPT ![p] = h])'
<1> DEFINE b == IF Now(p).op = "add" THEN Now(p).body ELSE StaleBody
           t == [class |-> ClassId(p, Now(p).class), body |-> b, filled |-> Now(p).op = "add", created_by |-> p]
           q == <<t>> \o queue[p]
<1>1. /\ app' = app /\ Now(p).op \in {"add", "inplace"} /\ shared' = shared /\ claim' = claim
      /\ queue' = [queue EXCEPT ![p] = q]
  <2>1. CASE Does(p, "add") /\ queue' = [queue EXCEPT ![p] = Pushed(p, Now(p).body, TRUE)]
    <3>1. Now(p).op = "add" /\ b = Now(p).body /\ (Now(p).op = "add") = TRUE
      BY <2>1 DEF Does, Now
    <3>2. q = Pushed(p, Now(p).body, TRUE)
      BY <3>1, Zenon DEF Pushed
    <3> QED BY <2>1, <3>1, <3>2, Zenon DEF TaskAdd
  <2>2. CASE Does(p, "inplace") /\ queue' = [queue EXCEPT ![p] = Pushed(p, StaleBody, FALSE)]
    <3>1. Now(p).op = "inplace" /\ b = StaleBody /\ (Now(p).op = "add") = FALSE
      BY <2>2 DEF Does, Now
    <3>2. q = Pushed(p, StaleBody, FALSE)
      BY <3>1, Zenon DEF Pushed
    <3> QED BY <2>2, <3>1, <3>2, Zenon DEF TaskAdd
  <2> QED BY <2>1, <2>2 DEF TaskAdd
<1>2. WellFormed(app) /\ g \in [Procs -> Places] /\ Now(p) \in Steps(app)
  BY DEF Tracked, Goes
<1>3. b \in Bodies(app)
  <2>1. CASE Now(p).op = "add"
    BY <1>2, <2>1, StepFacts
  <2>2. CASE Now(p).op = "inplace"
    <3>1. app.prog = "uts"
      BY <1>2, <2>2, StepFacts
    <3>2. <<>> \in NodeSet(app)
      BY <1>2, <3>1 DEF WellFormed, NodeSet
    <3> QED BY <2>2, <3>1, <3>2 DEF StaleBody, Iterator, Bodies
  <2> QED BY <1>1, <2>1, <2>2
<1>4. t \in TaskSet(app) /\ (t.filled \/ Now(p).op = "inplace")
  <2>1. ClassId(p, Now(p).class) \in 0..(Len(ClassNames(app)) - 1)
    <3>1. /\ Now(p).class \in 1..g[p].classes /\ g[p].classes = Len(ClassNames(app))
          /\ ClassId(p, Now(p).class) = Now(p).class - 1
      BY <1>1, ClassIds
    <3>2. Len(ClassNames(app)) \in Nat
      BY <1>2, NamesFinite
    <3> QED BY <3>1, <3>2
  <2> HIDE DEF b
  <2> QED BY <1>1, <1>3, <2>1 DEF TaskSet
<1>5. QueueAt(app, FALSE, queue[p], shared[p]) /\ ClaimAt(app, p, claim[p])
  <2>1. g[p].blank = FALSE
    BY <1>1, BlankFacts
  <2> QED BY <2>1 DEF Queues
<1>6. h.blank \in BOOLEAN /\ h.blank = (Now(p).op = "inplace")
  BY BlankFacts
<1> HIDE DEF t, b
<1>7. QueueAt(app, h.blank, q, shared[p])
  BY <1>4, <1>5, <1>6, QueuePush
<1>8. DOMAIN queue = Procs /\ DOMAIN shared = Procs /\ DOMAIN claim = Procs
  BY DEF Queues
<1> HIDE DEF q
<1>9. queue'[p] = q /\ DOMAIN queue' = Procs /\ \A r \in Procs : r # p => queue'[r] = queue[r]
  BY <1>1, <1>8
<1> QED BY <1>1, <1>2, <1>5, <1>7, <1>8, <1>9, QueuesPut

LEMMA QueuesFill ==
  ASSUME NEW g, Tracked(g), Queues(g), NEW p \in Procs, NEW h,
         Goes(app, p, g[p], Now(p), h), TaskFill(p)
  PROVE  Queues([g EXCEPT ![p] = h])'
<1> DEFINE b == Now(p).body  q == [queue[p] EXCEPT ![1].body = b, ![1].filled = TRUE]
<1>1. DOMAIN queue = Procs /\ DOMAIN shared = Procs /\ DOMAIN claim = Procs
  BY DEF Queues
<1>2. app' = app /\ Now(p).op = "fill" /\ shared' = shared /\ claim' = claim
  BY DEF TaskFill, Does, Now
<1>3. WellFormed(app) /\ g \in [Procs -> Places] /\ b \in Bodies(app)
  BY <1>2, StepFacts DEF Tracked, Goes
<1>4. g[p].blank = TRUE /\ h.blank = FALSE
  BY <1>2, BlankFacts
<1>5. QueueAt(app, TRUE, queue[p], shared[p]) /\ ClaimAt(app, p, claim[p])
  BY <1>4 DEF Queues
<1>6. QueueAt(app, h.blank, q, shared[p])
  <2>1. [queue[p] EXCEPT ![1].body = b, ![1].filled = TRUE] = FilledIn(queue[p], b)
    BY Zenon DEF FilledIn
  <2> HIDE DEF b
  <2>2. QueueAt(app, FALSE, FilledIn(queue[p], b), shared[p])
    BY <1>3, <1>5, QueueFill
  <2> QED BY <1>4, <2>1, <2>2, Zenon
<1>7. queue' = [queue EXCEPT ![p] = q]
  <2>1. queue' = [queue EXCEPT ![p][1].body = b, ![p][1].filled = TRUE]
    BY DEF TaskFill
  <2> QED BY <1>1, <2>1
<1> HIDE DEF q
<1>8. queue'[p] = q /\ DOMAIN queue' = Procs /\ \A r \in Procs : r # p => queue'[r] = queue[r]
  BY <1>1, <1>7
<1> QED BY <1>1, <1>2, <1>3, <1>5, <1>6, <1>8, QueuesPut

LEMMA QueuesShare ==
  ASSUME NEW g, Tracked(g), Queues(g), NEW p \in Procs, NEW h,
         Goes(app, p, g[p], Now(p), h), CallProgress(p) \/ Get(p)
  PROVE  Queues([g EXCEPT ![p] = h])'
<1>1. DOMAIN queue = Procs /\ DOMAIN shared = Procs /\ DOMAIN claim = Procs /\ g \in [Procs -> Places]
  BY DEF Queues, Tracked
<1>2. app' = app /\ Now(p).op \in {"progress", "get"} /\ queue' = queue /\ claim' = claim
      /\ shared' \in Progressed(p)
  BY DEF CallProgress, Get, Does, Now
<1>3. g[p].blank = FALSE /\ h.blank = FALSE
  BY <1>2, BlankFacts
<1>4. QueueAt(app, FALSE, queue[p], shared[p]) /\ ClaimAt(app, p, claim[p])
  BY <1>3 DEF Queues
<1>5. QueueAt(app, FALSE, queue[p], Released(Len(queue[p])))
  BY <1>4, QueueShare
<1> DEFINE s == Released(Len(queue[p]))
<1>6. shared' = shared \/ shared' = [shared EXCEPT ![p] = s]
  BY <1>2 DEF Progressed
<1> HIDE DEF s
<1>7. /\ shared'[p] = shared[p] \/ shared'[p] = s
      /\ DOMAIN shared' = Procs /\ \A r \in Procs : r # p => shared'[r] = shared[r]
  BY <1>1, <1>6
<1>8. QueueAt(app, h.blank, queue'[p], shared'[p])
  BY <1>2, <1>3, <1>4, <1>5, <1>7, Zenon DEF s
<1>9. ClaimAt(app, p, claim'[p]) /\ DOMAIN queue' = Procs /\ DOMAIN claim' = Procs
      /\ \A r \in Procs : r # p => queue'[r] = queue[r] /\ shared'[r] = shared[r] /\ claim'[r] = claim[r]
  BY <1>1, <1>2, <1>4, <1>7
<1> QED BY <1>1, <1>2, <1>7, <1>8, <1>9, QueuesPut

LEMMA QueuesPop ==
  ASSUME NEW g, Tracked(g), Queues(g), NEW p \in Procs, NEW h,
         Goes(app, p, g[p], Now(p), h), PopHead(p)
  PROVE  Queues([g EXCEPT ![p] = h])'
<1> DEFINE q == Tail(queue[p])  s == IF shared[p] = Len(queue[p]) THEN shared[p] - Reacquired(shared[p]) ELSE shared[p]
<1>1. DOMAIN queue = Procs /\ DOMAIN shared = Procs /\ DOMAIN claim = Procs /\ g \in [Procs -> Places]
  BY DEF Queues, Tracked
<1>2. /\ app' = app /\ Now(p).op = "pop" /\ queue[p] # <<>> /\ claim' = claim
      /\ queue' = [queue EXCEPT ![p] = q] /\ shared' = [shared EXCEPT ![p] = s]
  BY DEF PopHead, Does, Now
<1>3. g[p].blank = FALSE /\ h.blank = FALSE
  BY <1>2, BlankFacts
<1>4. QueueAt(app, FALSE, queue[p], shared[p]) /\ ClaimAt(app, p, claim[p])
  BY <1>3 DEF Queues
<1>5. QueueAt(app, h.blank, q, s)
  BY <1>2, <1>3, <1>4, QueuePop
<1> HIDE DEF q, s
<1>6. /\ queue'[p] = q /\ DOMAIN queue' = Procs /\ shared'[p] = s /\ DOMAIN shared' = Procs
      /\ \A r \in Procs : r # p => queue'[r] = queue[r] /\ shared'[r] = shared[r] /\ claim'[r] = claim[r]
  BY <1>1, <1>2
<1> QED BY <1>1, <1>2, <1>4, <1>5, <1>6, QueuesPut

LEMMA QueuesClaim ==
  ASSUME NEW g, Tracked(g), Queues(g), NEW p \in Procs, NEW h,
         Goes(app, p, g[p], Now(p), h), NEW v \in Procs, NEW n \in 1..shared[v], Claim(p, v, n)
  PROVE  Queues([g EXCEPT ![p] = h])'
<1> DEFINE keeps == Len(queue[v]) - n
           q == SubSeq(queue[v], 1, keeps)  s == shared[v] - n
           c == SubSeq(queue[v], keeps + 1, keeps + n)
<1>1. DOMAIN queue = Procs /\ DOMAIN shared = Procs /\ DOMAIN claim = Procs /\ g \in [Procs -> Places]
  BY DEF Queues, Tracked
<1>2. /\ app' = app /\ Now(p).op = "search" /\ p # v
      /\ queue' = [queue EXCEPT ![v] = q] /\ shared' = [shared EXCEPT ![v] = s]
      /\ claim' = [claim EXCEPT ![p] = [from |-> v, tasks |-> c]]
  BY DEF Claim, Does, Now
<1>3. g[p].blank = FALSE /\ h.blank = FALSE
  BY <1>2, BlankFacts
<1>4. /\ QueueAt(app, FALSE, queue[p], shared[p]) /\ ClaimAt(app, v, claim[v])
      /\ QueueAt(app, g[v].blank, queue[v], shared[v]) /\ g[v].blank \in BOOLEAN
  BY <1>1, <1>3 DEF Queues, Places
<1>5. /\ QueueAt(app, g[v].blank, q, s)
      /\ c \in Seq(TaskSet(app)) /\ \A i \in 1..Len(c) : c[i].filled
  BY <1>4, QueueClaim
<1> HIDE DEF q, s, c
<1>6. /\ queue'[v] = q /\ DOMAIN queue' = Procs /\ shared'[v] = s /\ DOMAIN shared' = Procs
      /\ \A r \in Procs : r # v => queue'[r] = queue[r] /\ shared'[r] = shared[r]
      /\ claim'[p] = [from |-> v, tasks |-> c] /\ DOMAIN claim' = Procs
      /\ \A r \in Procs : r # p => claim'[r] = claim[r]
  BY <1>1, <1>2
<1>7. ClaimAt(app, p, claim'[p])
  BY <1>2, <1>5, <1>6 DEF ClaimAt
<1>8. QueueAt(app, h.blank, queue'[p], shared'[p])
  BY <1>2, <1>3, <1>4, <1>6
<1>9. \A r \in Procs : r # p =>
            \/ queue'[r] = queue[r] /\ shared'[r] = shared[r] /\ claim'[r] = claim[r]
            \/ QueueAt(app, g[r].blank, queue'[r], shared'[r]) /\ ClaimAt(app, r, claim'[r])
  <2> SUFFICES ASSUME NEW r \in Procs, r # p
               PROVE  \/ queue'[r] = queue[r] /\ shared'[r] = shared[r] /\ claim'[r] = claim[r]
                      \/ QueueAt(app, g[r].blank, queue'[r], shared'[r]) /\ ClaimAt(app, r, claim'[r])
    OBVIOUS
  <2>1. CASE r = v
    <3>1. QueueAt(app, g[v].blank, queue'[v], shared'[v]) /\ ClaimAt(app, v, claim'[v])
      BY <1>2, <1>4, <1>5, <1>6
    <3> QED BY <2>1, <3>1, Zenon
  <2>2. CASE r # v
    BY <2>2, <1>6
  <2> QED BY <2>1, <2>2
<1> QED BY <1>1, <1>2, <1>6, <1>7, <1>8, <1>9, QueuesPut

LEMMA QueuesLand ==
  ASSUME NEW g, Tracked(g), Queues(g), NEW p \in Procs, NEW h,
         Goes(app, p, g[p], Now(p), h), Land(p)
  PROVE  Queues([g EXCEPT ![p] = h])'
<1> DEFINE q == claim[p].tasks \o queue[p]  c == NoClaim(p)
<1>1. DOMAIN queue = Procs /\ DOMAIN shared = Procs /\ DOMAIN claim = Procs /\ g \in [Procs -> Places]
  BY DEF Queues, Tracked
<1>2. /\ app' = app /\ Now(p).op = "copy" /\ shared' = shared
      /\ queue' = [queue EXCEPT ![p] = q] /\ claim' = [claim EXCEPT ![p] = c]
  BY Zenon DEF Land, Does, Now
<1>3. g[p].blank = FALSE /\ h.blank = FALSE
  BY <1>2, BlankFacts
<1>4. QueueAt(app, FALSE, queue[p], shared[p]) /\ ClaimAt(app, p, claim[p])
  BY <1>3 DEF Queues
<1>5. QueueAt(app, h.blank, q, shared[p])
  BY <1>3, <1>4, QueueLand DEF ClaimAt
<1>6. ClaimAt(app, p, c)
  <2>1. <<>> \in Seq(TaskSet(app)) /\ Len(<<>>) = 0
    OBVIOUS
  <2> QED BY <2>1 DEF ClaimAt, NoClaim
<1> HIDE DEF q, c
<1>7. /\ queue'[p] = q /\ DOMAIN queue' = Procs /\ claim'[p] = c /\ DOMAIN claim' = Procs
      /\ \A r \in Procs : r # p => queue'[r] = queue[r] /\ shared'[r] = shared[r] /\ claim'[r] = claim[r]
  BY <1>1, <1>2
<1> QED BY <1>1, <1>2, <1>5, <1>6, <1>7, QueuesPut
-----------------------------------------------------------------------------
(***************************************************************************)
(* A process's own step keeps the library and the queues in order.         *)
(***************************************************************************)
LEMMA LibraryStays ==
  ASSUME NEW g, Tracked(g), InLibrary(g), NEW p \in Procs, NEW h, app' = app,
         Goes(app, p, g[p], Now(p), h), Now(p).op \notin LibOps,
         UNCHANGED library, UNCHANGED terminated, Now(p).op \in LoopOps => h.ph # 7
  PROVE  InLibrary([g EXCEPT ![p] = h])'
<1> DEFINE x == Now(p)  k == g[p]
<1>1. WellFormed(app) /\ terminated \in [Procs -> BOOLEAN]
      /\ LibOf(app, k, up[p], handles[p], prog[p], clod[p], classes[p], terminated[p])
  BY DEF Tracked, InLibrary
<1>2. Goes(app, p, k, x, h)
  OBVIOUS
<1>3. k \in Places /\ (x.op \in LoopOps => k.ph \in {4, 6})
  <2> HIDE DEF x, k
  <2> QED BY <1>1, <1>2, GoesFacts
<1>4. PICK t \in BOOLEAN : t = terminated[p]
  BY <1>1
<1>5. terminated' = [terminated EXCEPT ![p] = t]
  BY <1>1, <1>4
<1>6. x.op \in LoopOps => (t <=> h.ph = 7)
  BY <1>1, <1>3, <1>4 DEF LibOf
<1> QED BY <1>4, <1>5, <1>6, LibraryKept

LEMMA OwnLibrary ==
  ASSUME NEW g, Tracked(g), InLibrary(g), NEW p \in Procs, NEW h, Own(g, p, h)
  PROVE  InLibrary([g EXCEPT ![p] = h])'
<1>1. Goes(app, p, g[p], Now(p), h)
  BY DEF Own
<1>2. CASE Registry(p) /\ ~Configure(p)
  <2>1. app' = app
    BY <1>2 DEF Registry, GtcInitStep, ImplicitInit, Init_, HandleRegister, ClodChange, CloAssociate, ClassRegister,
                HandleRelease
  <2> QED BY <1>1, <1>2, <2>1, LibraryChanges DEF Registry
<1>3. CASE Configure(p) \/ Program(p) \/ Executed(p)
  <2>1. CASE Configure(p)
    <3>1. app' = app /\ UNCHANGED library /\ UNCHANGED terminated /\ Now(p).op \notin LibOps /\ Now(p).op \notin LoopOps
      BY <2>1 DEF Configure, Does, Now, pool, LibOps, LoopOps
    <3> QED BY <1>1, <3>1, LibraryStays
  <2>2. CASE Program(p)
    <3>1. app' = app /\ UNCHANGED library /\ UNCHANGED terminated
      BY <2>2 DEF Program, TaskCreate, TaskDestroy, TaskAdd, TaskFill, CallProgress, CountTask, PrintStats, Seed,
                  RefineBox, ChangeTree, pool
    <3>2. Now(p).op \in {"create", "destroy", "add", "inplace", "fill", "progress", "bump", "visit", "sleep",
                         "print", "seed", "refine", "create_tree", "wipe"}
      BY <2>2 DEF Program, TaskCreate, TaskDestroy, TaskAdd, TaskFill, CallProgress, CountTask, PrintStats, Seed,
                  RefineBox, ChangeTree, Does, Now
    <3>3. Now(p).op \notin LibOps /\ Now(p).op \notin LoopOps
      BY <3>2 DEF LibOps, LoopOps
    <3> QED BY <1>1, <3>1, <3>3, LibraryStays
  <2>3. CASE Executed(p)
    <3>1. app' = app /\ UNCHANGED library /\ UNCHANGED terminated /\ Now(p).op \notin LibOps /\ Now(p).op \notin LoopOps
      BY <2>3 DEF Executed, Does, Now, LibOps, LoopOps
    <3> QED BY <1>1, <3>1, LibraryStays
  <2> QED BY <1>3, <2>1, <2>2, <2>3
<1>4. CASE Turning(p) /\ ~Start(p) /\ h.ph = 6
  <2>1. app' = app /\ UNCHANGED library /\ UNCHANGED terminated /\ Now(p).op \notin LibOps
    BY <1>4 DEF Turning, Get, PopNothing, Land, Claim, Does, Now, pool, LibOps
  <2> QED BY <1>1, <1>4, <2>1, LibraryStays
<1>5. CASE PopHead(p) /\ h.ph = 5
  <2>1. app' = app /\ UNCHANGED library /\ UNCHANGED terminated /\ Now(p).op \notin LibOps
    BY <1>5 DEF PopHead, Does, Now, pool, LibOps
  <2> QED BY <1>1, <1>5, <2>1, LibraryStays
<1>6. CASE Start(p) /\ h.ph = 6
  <2>1. /\ app' = app /\ UNCHANGED library /\ terminated' = [terminated EXCEPT ![p] = FALSE]
        /\ Now(p).op \notin LibOps /\ Now(p).op \in LoopOps
    BY <1>6 DEF Start, Does, Now, LibOps, LoopOps
  <2>2. FALSE <=> h.ph = 7
    BY <1>6
  <2> QED BY <1>1, <2>1, <2>2, LibraryKept
<1>7. CASE Return(p) /\ h.ph = 7
  <2>1. /\ app' = app /\ UNCHANGED library /\ terminated' = [terminated EXCEPT ![p] = TRUE]
        /\ Now(p).op \notin LibOps /\ Now(p).op \in LoopOps
    BY <1>7 DEF Return, Does, Now, LibOps, LoopOps
  <2>2. TRUE <=> h.ph = 7
    BY <1>7
  <2> QED BY <1>1, <2>1, <2>2, LibraryKept
<1> QED BY <1>2, <1>3, <1>4, <1>5, <1>6, <1>7 DEF Own, Ordinary

LEMMA OwnQueues ==
  ASSUME NEW g, Tracked(g), InLibrary(g), Queues(g), NEW p \in Procs, NEW h, Own(g, p, h)
  PROVE  Queues([g EXCEPT ![p] = h])'
<1>1. Goes(app, p, g[p], Now(p), h)
  BY DEF Own
<1>2. CASE Registry(p)
  <2>1. app' = app /\ UNCHANGED <<queue, shared, claim>>
    BY <1>2 DEF Registry, GtcInitStep, ImplicitInit, Init_, HandleRegister, ClodChange, Configure, CloAssociate,
                ClassRegister, HandleRelease, pool
  <2>2. Now(p).op \in {"init", "implicit_init", "register", "clod_create", "clod_destroy", "configure", "evaluate",
                       "associate", "class", "release"}
    BY <1>2 DEF Registry, GtcInitStep, ImplicitInit, Init_, HandleRegister, ClodChange, Configure, CloAssociate,
                ClassRegister, HandleRelease, Does, Now
  <2>3. Now(p).op \notin {"fill", "inplace"}
    BY <2>2
  <2> QED BY <1>1, <2>1, <2>3, QueuesKept
<1>3. CASE Program(p) /\ ~TaskAdd(p) /\ ~TaskFill(p) /\ ~CallProgress(p)
  <2>1. app' = app /\ UNCHANGED <<queue, shared, claim>>
    BY <1>3 DEF Program, TaskCreate, TaskDestroy, CountTask, PrintStats, Seed, RefineBox, ChangeTree, pool
  <2>2. Now(p).op \in {"create", "destroy", "bump", "visit", "sleep", "print", "seed", "refine", "create_tree", "wipe"}
    BY <1>3 DEF Program, TaskCreate, TaskDestroy, CountTask, PrintStats, Seed, RefineBox, ChangeTree, Does, Now
  <2>3. Now(p).op \notin {"fill", "inplace"}
    BY <2>2
  <2> QED BY <1>1, <2>1, <2>3, QueuesKept
<1>4. CASE Start(p) \/ PopNothing(p) \/ Executed(p) \/ Return(p)
  <2>1. app' = app /\ UNCHANGED <<queue, shared, claim>> /\ Now(p).op \notin {"fill", "inplace"}
    BY <1>4 DEF Start, PopNothing, Executed, Return, Does, Now, pool
  <2> QED BY <1>1, <2>1, QueuesKept
<1>5. CASE TaskAdd(p)
  BY <1>1, <1>5, QueuesAdd
<1>6. CASE TaskFill(p)
  BY <1>1, <1>6, QueuesFill
<1>7. CASE CallProgress(p) \/ Get(p)
  BY <1>1, <1>7, QueuesShare
<1>8. CASE PopHead(p)
  BY <1>1, <1>8, QueuesPop
<1>9. CASE \E v \in Procs : \E n \in 1..shared[v] : Claim(p, v, n)
  BY <1>1, <1>9, QueuesClaim
<1>10. CASE Land(p)
  BY <1>1, <1>10, QueuesLand
<1> QED BY <1>2, <1>3, <1>4, <1>5, <1>6, <1>7, <1>8, <1>9, <1>10 DEF Own, Ordinary, Turning
-----------------------------------------------------------------------------
(***************************************************************************)
(* Counters, symmetric memory and what is printed.                         *)
(***************************************************************************)
\* Counters are natural numbers.
Counting(t) == \A v \in DOMAIN t : t[v] \in Nat

Counted ==
  /\ DOMAIN spawned = Procs /\ DOMAIN completed = Procs /\ DOMAIN tally = Procs
  /\ \A p \in Procs : spawned[p] \in Nat /\ completed[p] \in Nat /\ Counting(tally[p])

LEMMA CountMore ==
  ASSUME NEW t, Counting(t), NEW v, NEW n \in Nat
  PROVE  Counting([t EXCEPT ![v] = @ + n])
BY DEF Counting

LEMMA CountSet ==
  ASSUME NEW t, Counting(t), NEW v, NEW n, v \in DOMAIN t => n \in Nat
  PROVE  Counting([t EXCEPT ![v] = n])
BY DEF Counting

LEMMA LargerOf ==
  ASSUME NEW m \in Nat, NEW n \in Nat
  PROVE  Max({m, n}) \in Nat
<1> DEFINE S == {m, n}
<1>1. \E z \in S : \A y \in S : z >= y
  OBVIOUS
<1>2. Max(S) = CHOOSE z \in S : \A y \in S : z >= y
  BY DEF Max
<1> HIDE DEF S
<1>3. Max(S) \in S
  BY <1>1, <1>2
<1> QED BY <1>3 DEF S

LEMMA CountVisited ==
  ASSUME NEW t, Counting(t), NEW node, Len(node) \in Nat
  PROVE  Counting(Visited(t, node))
<1> DEFINE t1 == [t EXCEPT !["nNodes"] = t["nNodes"] + 1]
           l  == IF app.tree[node] = 0 THEN t1["nLeaves"] + 1 ELSE t1["nLeaves"]
           t2 == [t1 EXCEPT !["nLeaves"] = l]
           m  == Max({t2["maxDepth"], Len(node)})
           t3 == [t2 EXCEPT !["maxDepth"] = m]
<1>1. Counting(t1)
  <2>1. "nNodes" \in DOMAIN t => t["nNodes"] + 1 \in Nat
    BY DEF Counting
  <2> QED BY <2>1, CountSet
<1> HIDE DEF t1
<1>2. Counting(t2)
  <2>1. "nLeaves" \in DOMAIN t1 => l \in Nat
    BY <1>1 DEF Counting
  <2> HIDE DEF l
  <2> QED BY <1>1, <2>1, CountSet
<1> HIDE DEF t2, l
<1>3. Counting(t3)
  <2>1. "maxDepth" \in DOMAIN t2 => m \in Nat
    BY <1>2, LargerOf DEF Counting
  <2> HIDE DEF m
  <2> QED BY <1>2, <2>1, CountSet
<1> HIDE DEF m
<1>4. Visited(t, node) = t3
  BY DEF Visited, t1, t2, l, m
<1> QED BY <1>3, <1>4, Zenon

LEMMA CountedPut ==
  ASSUME Counted, NEW p \in Procs, NEW t, Counting(t), tally' = [tally EXCEPT ![p] = t],
         UNCHANGED <<spawned, completed>>
  PROVE  Counted'
<1>1. tally'[p] = t /\ DOMAIN tally' = Procs /\ \A q \in Procs : q # p => tally'[q] = tally[q]
  BY DEF Counted
<1> QED BY <1>1 DEF Counted

LEMMA OwnCounted ==
  ASSUME NEW g, Tracked(g), Counted, NEW p \in Procs, NEW h, Own(g, p, h)
  PROVE  Counted'
<1>1. CASE CountTask(p)
  <2>1. UNCHANGED <<spawned, completed>> /\ Counting(tally[p])
    BY <1>1 DEF CountTask, pool, Counted
  <2>2. CASE Does(p, "bump") /\ tally' = [tally EXCEPT ![p] = Bumped(p, Now(p).keys)]
    <3> DEFINE t == Bumped(p, Now(p).keys)
    <3>1. Counting(t)
      BY <2>1 DEF Bumped, Counting
    <3> QED BY <2>1, <2>2, <3>1, CountedPut
  <2>3. CASE Does(p, "visit") /\ tally' = [tally EXCEPT ![p] = Visited(@, Now(p).node)]
    <3>1. Now(p).op = "visit" /\ Now(p) \in Steps(app) /\ WellFormed(app)
      BY <2>3 DEF Does, Now, Own, Goes, Tracked
    <3>2. Now(p).node \in NodeSet(app)
      BY <3>1, StepFacts
    <3>3. Len(Now(p).node) \in Nat
      BY <3>1, <3>2 DEF NodeSet, WellFormed
    <3> DEFINE t == Visited(tally[p], Now(p).node)
    <3>4. Counting(t)
      BY <2>1, <3>3, CountVisited
    <3>5. tally' = [tally EXCEPT ![p] = t]
      BY <2>3
    <3> HIDE DEF t
    <3> QED BY <2>1, <3>4, <3>5, CountedPut
  <2>4. CASE Does(p, "sleep") /\ tally' = [tally EXCEPT ![p].sleep_time = @ + 1]
    <3> DEFINE t == [tally[p] EXCEPT !["sleep_time"] = @ + 1]
    <3>1. Counting(t)
      BY <2>1, CountMore
    <3>2. tally' = [tally EXCEPT ![p] = t]
      BY <2>4 DEF Counted
    <3> HIDE DEF t
    <3> QED BY <2>1, <3>1, <3>2, CountedPut
  <2> QED BY <1>1, <2>2, <2>3, <2>4 DEF CountTask
<1>2. CASE RefineBox(p)
  <2> DEFINE t == [tally[p] EXCEPT ![Now(p).box] = @ + 1]
  <2>1. UNCHANGED <<spawned, completed>> /\ Counting(tally[p]) /\ tally' = [tally EXCEPT ![p] = t]
    BY <1>2 DEF RefineBox, pool, Counted
  <2>2. Counting(t)
    BY <2>1, CountMore
  <2> HIDE DEF t
  <2> QED BY <2>1, <2>2, CountedPut
<1>3. CASE TaskAdd(p)
  <2>1. spawned' = [spawned EXCEPT ![p] = @ + 1] /\ UNCHANGED <<completed, tally>>
    BY <1>3 DEF TaskAdd, results
  <2> QED BY <2>1 DEF Counted
<1>4. CASE Executed(p)
  <2>1. completed' = [completed EXCEPT ![p] = @ + 1] /\ UNCHANGED <<spawned, tally>>
    BY <1>4 DEF Executed, results
  <2> QED BY <2>1 DEF Counted
<1>5. CASE UNCHANGED <<spawned, completed, tally>>
  BY <1>5 DEF Counted
<1>6. Registry(p) => UNCHANGED <<spawned, completed, tally>>
  BY DEF Registry, GtcInitStep, ImplicitInit, Init_, HandleRegister, ClodChange, Configure, CloAssociate,
         ClassRegister, HandleRelease, pool, results
<1>7. Program(p) => CountTask(p) \/ RefineBox(p) \/ TaskAdd(p) \/ UNCHANGED <<spawned, completed, tally>>
  BY DEF Program, TaskCreate, TaskDestroy, TaskFill, CallProgress, PrintStats, Seed, ChangeTree, pool, results
<1>8. Turning(p) \/ PopHead(p) \/ Return(p) => UNCHANGED <<spawned, completed, tally>>
  BY DEF Turning, Start, Get, PopHead, PopNothing, Land, Claim, Return, pool, results
<1> QED BY <1>1, <1>2, <1>3, <1>4, <1>5, <1>6, <1>7, <1>8 DEF Own, Ordinary

-----------------------------------------------------------------------------
\* Symmetric memory in use is what the processes are at a place to have allocated.
Memory(blocks) == UNION {ToSet(b) : b \in blocks}

Heaps(g) ==
  /\ heap = [p \in Procs |-> heap[p]] /\ \A p, q \in Procs : heap[p] = heap[q]
  /\ \A p \in Procs : heap[p] = Memory(g[p].blocks)

LEMMA MemoryAdd ==
  ASSUME NEW S, NEW c
  PROVE  Memory(S \cup {c}) = Memory(S) \cup ToSet(c)
BY DEF Memory

\* What belongs to one block belongs to no other.
LEMMA MemoryFree ==
  ASSUME NEW S \in SUBSET Blocks, NEW c \in Blocks
  PROVE  Memory(S \ {c}) = Memory(S) \ ToSet(c)
<1>1. ASSUME NEW y \in Memory(S \ {c}) PROVE y \in Memory(S) \ ToSet(c)
  <2>1. PICK b \in S \ {c} : y \in ToSet(b)
    BY <1>1 DEF Memory
  <2>2. ToSet(b) \cap ToSet(c) = {}
    BY <2>1, BlocksDisjoint
  <2> QED BY <2>1, <2>2 DEF Memory
<1>2. ASSUME NEW y \in Memory(S) \ ToSet(c) PROVE y \in Memory(S \ {c})
  <2>1. PICK b \in S : y \in ToSet(b)
    BY <1>2 DEF Memory
  <2> QED BY <1>2, <2>1 DEF Memory
<1> QED BY <1>1, <1>2

LEMMA OwnHeaps ==
  ASSUME NEW g, Tracked(g), Heaps(g), NEW p \in Procs, NEW h, Own(g, p, h)
  PROVE  Heaps([g EXCEPT ![p] = h])'
<1> DEFINE f == [g EXCEPT ![p] = h]  x == Now(p)  k == g[p]
<1>1. g \in [Procs -> Places] /\ WellFormed(app) /\ Goes(app, p, k, x, h)
  BY DEF Tracked, Own
<1>2. heap' = heap /\ x.op \notin CollectiveOps
  <2>1. Registry(p) => heap' = heap /\ x.op \notin CollectiveOps
    BY DEF Registry, GtcInitStep, ImplicitInit, Init_, HandleRegister, ClodChange, Configure, CloAssociate,
           ClassRegister, HandleRelease, Does, Now, CollectiveOps
  <2>2. Program(p) => heap' = heap /\ x.op \notin CollectiveOps
    BY DEF Program, TaskCreate, TaskDestroy, TaskAdd, TaskFill, CallProgress, CountTask, PrintStats, Seed, RefineBox,
           ChangeTree, Does, Now, CollectiveOps
  <2>3. Turning(p) \/ PopHead(p) \/ Return(p) \/ Executed(p) => heap' = heap /\ x.op \notin CollectiveOps
    BY DEF Turning, Start, Get, PopHead, PopNothing, Land, Claim, Return, Executed, Does, Now, CollectiveOps
  <2> QED BY <2>1, <2>2, <2>3 DEF Own, Ordinary
<1>3. h.blocks = k.blocks
  <2>1. h.blocks = CASE x.op = "alloc" -> k.blocks \cup {x.blocks}
                     [] x.op = "free" -> k.blocks \ {x.blocks}
                     [] OTHER -> k.blocks
    <3> HIDE DEF x, k
    <3> QED BY <1>1, GoesFacts
  <2>2. x.op # "alloc" /\ x.op # "free"
    BY <1>2 DEF CollectiveOps
  <2> HIDE DEF x, k
  <2> QED BY <2>1, <2>2
<1>4. \A q \in Procs : f[q].blocks = g[q].blocks
  BY <1>1, <1>3
<1>5. Heaps(f)' <=>
        /\ heap' = [q \in Procs |-> heap'[q]] /\ \A q, r \in Procs : heap'[q] = heap'[r]
        /\ \A q \in Procs : heap'[q] = Memory(f[q].blocks)
  BY DEF Heaps, f
<1> HIDE DEF f
<1> QED BY <1>2, <1>4, <1>5 DEF Heaps, f

-----------------------------------------------------------------------------
\* Who has printed is past its turn, and the totals are printed by process 0 at the end.
HasPrinted(g, v) ==
  IF v = N THEN g[0].totals
  ELSE v \in Procs /\ app.prog = "tasks" /\ g[v].mine /\ g[v].count >= Turns(app) + v

Prints(g) ==
  /\ printed \in Seq(0..N)
  /\ \A i \in 1..Len(printed) : HasPrinted(g, printed[i])
  /\ \A i \in 2..Len(printed) : printed[i - 1] < printed[i]

\* What has been printed is recorded at later places, too.
LEMMA PrintsKept ==
  ASSUME NEW g \in [Procs -> Places], Prints(g), NEW f \in [Procs -> Places], app' = app, printed' = printed,
         \A q \in Procs : /\ (g[q].mine => f[q].mine) /\ (g[q].totals => f[q].totals)
                          /\ g[q].count <= f[q].count
  PROVE  Prints(f)'
<1>1. 0 \in Procs /\ N \notin Procs
  BY NAssumption DEF Procs
<1>2. \A q \in Procs : g[q].count \in Nat /\ f[q].count \in Nat
  BY DEF Places
<1>3. ASSUME NEW v \in 0..N, HasPrinted(g, v) PROVE HasPrinted(f, v)
  <2>1. CASE v = N
    BY <1>1, <1>3, <2>1 DEF HasPrinted
  <2>2. CASE v # N
    <3>1. v \in Procs /\ app.prog = "tasks" /\ g[v].mine /\ g[v].count >= Turns(app) + v /\ v \in Nat
      BY <1>3, <2>2, NAssumption DEF HasPrinted, Procs
    <3>2. Turns(app) \in Nat
      BY DEF Turns, Entry
    <3>3. f[v].mine /\ f[v].count >= Turns(app) + v
      BY <1>2, <3>1, <3>2
    <3> QED BY <2>2, <3>1, <3>3 DEF HasPrinted
  <2> QED BY <2>1, <2>2
<1>4. \A i \in 1..Len(printed) : HasPrinted(f, printed[i])
  <2> SUFFICES ASSUME NEW i \in 1..Len(printed) PROVE HasPrinted(f, printed[i])
    OBVIOUS
  <2> DEFINE v == printed[i]
  <2>0. printed \in Seq(0..N)
    BY DEF Prints
  <2>1. v \in 0..N
    <3> DEFINE S == 0..N
    <3>1. printed \in Seq(S)
      BY <2>0
    <3> HIDE DEF S
    <3>2. v \in S
      BY <3>1
    <3> QED BY <3>2 DEF S
  <2>3. HasPrinted(g, v)
    BY Zenon DEF Prints
  <2> HIDE DEF v
  <2>2. HasPrinted(f, v)
    BY <1>3, <2>1, <2>3
  <2> QED BY <2>2 DEF v
<1>5. \A i \in 1..Len(printed') : HasPrinted(f, printed[i])'
  BY <1>4 DEF HasPrinted
<1> QED BY <1>5 DEF Prints

\* Where a process goes, what it has printed before is known, and it has done no fewer
\* collectives.
LEMMA PrintsGoes ==
  ASSUME NEW a, WellFormed(a), NEW p, NEW g, NEW x, NEW h, Goes(a, p, g, x, h)
  PROVE  (g.mine => h.mine) /\ (g.totals => h.totals) /\ g.count <= h.count /\ h \in Places
<1>1. g \in Places /\ h \in Places
  BY GoesFacts
<1>2. h.mine <=> g.mine \/ Mine(x)
  BY GoesFacts
<1>3. h.totals <=> g.totals \/ TotalsStep(x)
  BY GoesFacts
<1>4. h.count = IF x.op \in CollectiveOps THEN g.count + 1 ELSE g.count
  <2>1. PICK k \in Places : Moves(a, p, g, x, k) /\ (h = k \/ InLoop(x, k, h))
    BY DEF Goes
  <2>2. h.count = k.count
    BY <2>1 DEF InLoop, Places
  <2> QED BY <2>1, <2>2 DEF Moves
<1>5. g.count \in Nat
  BY <1>1 DEF Places
<1> QED BY <1>1, <1>2, <1>3, <1>4, <1>5

LEMMA PrintsStay ==
  ASSUME NEW g, Tracked(g), Prints(g), NEW p \in Procs, NEW h, Goes(app, p, g[p], Now(p), h), app' = app,
         printed' = printed
  PROVE  Prints([g EXCEPT ![p] = h])'
<1> DEFINE f == [g EXCEPT ![p] = h]  x == Now(p)  k == g[p]
<1>1. g \in [Procs -> Places] /\ WellFormed(app) /\ Goes(app, p, k, x, h)
  BY DEF Tracked
<1>2. (k.mine => h.mine) /\ (k.totals => h.totals) /\ k.count <= h.count /\ h \in Places
  <2> HIDE DEF k, x
  <2> QED BY <1>1, PrintsGoes
<1>3. \A q \in Procs : g[q].count <= g[q].count
  BY <1>1 DEF Places
<1>4. f \in [Procs -> Places] /\ \A q \in Procs : /\ (g[q].mine => f[q].mine) /\ (g[q].totals => f[q].totals)
                                                 /\ g[q].count <= f[q].count
  BY <1>1, <1>2, <1>3
<1> HIDE DEF f
<1>5. Prints(f)'
  BY <1>1, <1>4, PrintsKept
<1> QED BY <1>5 DEF f
-----------------------------------------------------------------------------
\* A process prints its statistics after those of lower rank, and process 0 the totals
\* when all have.
LEMMA PrintsOne ==
  ASSUME NEW g, Tracked(g), Prints(g), NEW p \in Procs, NEW h, Goes(app, p, g[p], Now(p), h), PrintStats(p)
  PROVE  Prints([g EXCEPT ![p] = h])'
<1> DEFINE f == [g EXCEPT ![p] = h]  x == Now(p)  k == g[p]  e == IF x.what = "totals" THEN N ELSE p
           m == Len(printed)
<1>1. g \in [Procs -> Places] /\ WellFormed(app) /\ Goes(app, p, k, x, h) /\ app' = app /\ x.op = "print"
      /\ (\A q \in Procs : g[q].count = g[p].count /\ PlaceOK(app, g[q]))
  BY DEF Tracked, PrintStats, Does, Now
<1>2. printed' = Append(printed, e)
  BY DEF PrintStats
<1>3. 0 \in Procs /\ N \notin Procs /\ N \in Nat /\ Procs \subseteq Nat /\ Procs \subseteq 0..N
      /\ \A q \in Procs : q < N
  BY NAssumption DEF Procs
<1>4. /\ Mine(x) => app.prog = "tasks" /\ ~k.mine /\ k.count = Turns(app) + p
      /\ TotalsStep(x) => p = 0 /\ ~k.totals
  <2>1. Permits(app, p, k, x)
    <3> HIDE DEF x, k
    <3> QED BY <1>1, GoesFacts
  <2> QED BY <2>1 DEF Permits
<1>5. IF x.what = "totals" THEN TotalsStep(x) ELSE Mine(x)
  <2>1. x \in Steps(app)
    BY <1>1 DEF Goes
  <2>2. x.what \in {"my stats", "totals"}
    <3> HIDE DEF x
    <3> QED BY <1>1, <2>1, StepFacts
  <2> QED BY <1>1, <2>2 DEF TotalsStep, Mine
<1>6. (k.mine => h.mine) /\ (k.totals => h.totals) /\ k.count <= h.count /\ h \in Places
  <2> HIDE DEF k, x
  <2> QED BY <1>1, PrintsGoes
<1>7. (Mine(x) => h.mine) /\ (TotalsStep(x) => h.totals)
  <2>1. h.mine <=> k.mine \/ Mine(x)
    <3> HIDE DEF x, k
    <3> QED BY <1>1, GoesFacts
  <2>2. h.totals <=> k.totals \/ TotalsStep(x)
    <3> HIDE DEF x, k
    <3> QED BY <1>1, GoesFacts
  <2> QED BY <2>1, <2>2
<1>8. f \in [Procs -> Places] /\ f[p] = h
      /\ \A q \in Procs : /\ (g[q].mine => f[q].mine) /\ (g[q].totals => f[q].totals)
                          /\ g[q].count <= f[q].count
  <2>1. \A q \in Procs : g[q].count <= g[q].count
    BY <1>1 DEF Places
  <2> QED BY <1>1, <1>6, <2>1
<1>9. Turns(app) \in Nat /\ \A q \in Procs : g[q].count \in Nat /\ f[q].count \in Nat
  BY <1>8, <1>1 DEF Turns, Entry, Places
<1>10. printed \in Seq(0..N) /\ m \in Nat
  BY DEF Prints
<1> DEFINE S == 0..N
<1>11. \A i \in 1..m : printed[i] \in S
  <2>1. printed \in Seq(S)
    BY <1>10
  <2> HIDE DEF S
  <2> QED BY <2>1
<1>12. \A i \in 1..m : HasPrinted(g, printed[i])
  BY Zenon DEF Prints
<1>13. ASSUME NEW v \in S, HasPrinted(g, v) PROVE HasPrinted(f, v) /\ v < e
  <2>1. CASE v = N
    <3>1. g[0].totals /\ f[0].totals
      BY <1>3, <1>8, <1>13, <2>1 DEF HasPrinted
    <3>2. ~TotalsStep(x)
      BY <1>4, <3>1
    <3>3. Mine(x) /\ app.prog = "tasks" /\ k.count = Turns(app) + p
      BY <1>4, <1>5, <3>2
    <3>4. g[0].count > Turns(app) + N
      BY <1>1, <1>3, <3>1, <3>3 DEF PlaceOK
    <3>5. g[0].count = k.count
      BY <1>1, <1>3
    <3>6. p < N /\ p \in Nat
      BY <1>3
    <3> HIDE DEF k, x, e, f
    <3>7. FALSE
      BY <1>3, <1>9, <3>3, <3>4, <3>5, <3>6
    <3> QED BY <3>7
  <2>2. CASE v # N
    <3>1. v \in Procs /\ app.prog = "tasks" /\ g[v].mine /\ g[v].count >= Turns(app) + v /\ v \in Nat
      BY <1>3, <1>13, <2>2 DEF HasPrinted
    <3>2. f[v].mine /\ f[v].count >= Turns(app) + v
      BY <1>8, <1>9, <3>1
    <3>3. HasPrinted(f, v)
      BY <2>2, <3>1, <3>2 DEF HasPrinted
    <3>4. v < e
      <4>1. CASE x.what = "totals"
        BY <1>3, <3>1, <4>1
      <4>2. CASE x.what # "totals"
        <5>1. ~k.mine /\ k.count = Turns(app) + p
          BY <1>4, <1>5, <4>2
        <5>2. g[v].count = k.count /\ v # p /\ p \in Nat
          BY <1>1, <1>3, <3>1, <5>1
        <5>3. v < p
          <6> HIDE DEF k
          <6> QED BY <1>9, <3>1, <5>1, <5>2
        <5> QED BY <4>2, <5>3
      <4> QED BY <4>1, <4>2
    <3> QED BY <3>3, <3>4
  <2> QED BY <2>1, <2>2
<1>14. HasPrinted(f, e) /\ e \in S
  <2>1. CASE x.what = "totals"
    <3>1. p = 0 /\ h.totals
      BY <1>4, <1>5, <1>7, <2>1
    <3> QED BY <1>3, <1>8, <2>1, <3>1 DEF HasPrinted
  <2>2. CASE x.what # "totals"
    <3>1. app.prog = "tasks" /\ k.count = Turns(app) + p /\ h.mine
      BY <1>4, <1>5, <1>7, <2>2
    <3>2. f[p].count >= Turns(app) + p
      BY <1>3, <1>8, <1>9, <3>1
    <3> QED BY <1>3, <1>8, <2>2, <3>1, <3>2 DEF HasPrinted
  <2> QED BY <2>1, <2>2
<1> DEFINE w == Append(printed, e)
<1>15. w \in Seq(S) /\ Len(w) = m + 1 /\ w[m + 1] = e /\ \A i \in 1..m : w[i] = printed[i]
  <2>1. printed \in Seq(S) /\ e \in S
    BY <1>10, <1>14
  <2> HIDE DEF S, e
  <2> QED BY <2>1
<1> HIDE DEF w, e, f, S, x, k
<1>16. ASSUME NEW i \in 1..Len(w) PROVE HasPrinted(f, w[i])
  <2> DEFINE v == printed[i]  z == w[i]
  <2>1. CASE i \in 1..m
    <3>1. v \in S /\ HasPrinted(g, v) /\ z = v
      BY <1>11, <1>12, <1>15, <2>1
    <3> HIDE DEF v, z
    <3>2. HasPrinted(f, z)
      BY <1>13, <3>1
    <3> QED BY <3>2 DEF z
  <2>2. CASE i = m + 1
    <3>1. z = e
      BY <1>15, <2>2
    <3> HIDE DEF z
    <3>2. HasPrinted(f, z)
      BY <1>14, <3>1
    <3> QED BY <3>2 DEF z
  <2> QED BY <1>10, <1>15, <2>1, <2>2
<1>17. ASSUME NEW i \in 2..Len(w) PROVE w[i - 1] < w[i]
  <2>1. CASE i \in 2..m
    <3>1. i \in 1..m /\ i - 1 \in 1..m
      BY <1>10, <2>1
    <3>2. printed[i - 1] < printed[i]
      BY <2>1 DEF Prints
    <3> QED BY <1>15, <3>1, <3>2
  <2>2. CASE i = m + 1
    <3> DEFINE v == printed[m]
    <3>1. m \in 1..m
      BY <1>10, <2>2
    <3>2. v \in S /\ HasPrinted(g, v)
      BY <1>11, <1>12, <3>1
    <3>3. v < e
      <4> HIDE DEF v
      <4> QED BY <1>13, <3>2
    <3>4. i - 1 = m /\ w[m] = v /\ w[i] = e
      BY <1>10, <1>15, <2>2, <3>1
    <3> QED BY <3>3, <3>4
  <2> QED BY <1>10, <1>15, <2>1, <2>2
<1>18. PICK ww : ww = w
  OBVIOUS
<1>19. printed' = ww /\ ww \in Seq(0..N) /\ (\A i \in 1..Len(ww) : HasPrinted(f, ww[i])) /\ \A i \in 2..Len(ww) : ww[i - 1] < ww[i]
  BY <1>2, <1>15, <1>16, <1>17, <1>18 DEF S, w
<1>20. PICK ff : ff = f
  OBVIOUS
<1>21. \A i \in 1..Len(ww) : HasPrinted(ff, ww[i])'
  <2>1. \A i \in 1..Len(ww) : HasPrinted(ff, ww[i])
    BY <1>19, <1>20
  <2> QED BY <1>1, <2>1 DEF HasPrinted
<1>22. Prints(ff)'
  <2>1. Prints(ff)' <=>
       /\ printed' \in Seq(0..N)
       /\ \A i \in 1..Len(printed') : HasPrinted(ff, printed[i])'
       /\ \A i \in 2..Len(printed') : printed'[i - 1] < printed'[i]
    BY DEF Prints
  <2>2. \A i \in 1..Len(ww) : HasPrinted(ff, printed[i])' <=> HasPrinted(ff, ww[i])'
    BY <1>19 DEF HasPrinted
  <2> QED BY <1>19, <1>21, <2>1, <2>2
<1> QED BY <1>20, <1>22 DEF f

LEMMA OwnPrints ==
  ASSUME NEW g, Tracked(g), Prints(g), NEW p \in Procs, NEW h, Own(g, p, h)
  PROVE  Prints([g EXCEPT ![p] = h])'
<1>1. Goes(app, p, g[p], Now(p), h)
  BY DEF Own
<1>2. CASE PrintStats(p)
  BY <1>1, <1>2, PrintsOne
<1>3. CASE printed' = printed /\ app' = app
  BY <1>1, <1>3, PrintsStay
<1>4. Registry(p) => printed' = printed /\ app' = app
  BY DEF Registry, GtcInitStep, ImplicitInit, Init_, HandleRegister, ClodChange, Configure, CloAssociate,
         ClassRegister, HandleRelease, results
<1>5. Program(p) /\ ~PrintStats(p) => printed' = printed /\ app' = app
  BY DEF Program, TaskCreate, TaskDestroy, TaskAdd, TaskFill, CallProgress, CountTask, Seed, RefineBox, ChangeTree, results
<1>6. Turning(p) \/ PopHead(p) \/ Return(p) \/ Executed(p) => printed' = printed /\ app' = app
  BY DEF Turning, Start, Get, PopHead, PopNothing, Land, Claim, Return, Executed, results
<1> QED BY <1>2, <1>3, <1>4, <1>5, <1>6 DEF Own, Ordinary
-----------------------------------------------------------------------------
(***************************************************************************)
(* The steps all processes take together.                                  *)
(***************************************************************************)
\* All processes take the same step, with operation o, from places g to places f.
AllGo(g, o, f) ==
  /\ o \in CollectiveOps /\ f \in [Procs -> Places] /\ \A p, q \in Procs : Now(p) = Now(q)
  /\ \A p \in Procs : Goes(app, p, g[p], Now(p), f[p]) /\ Now(p).op = o

LEMMA AllLibrary ==
  ASSUME NEW g, Tracked(g), InLibrary(g), NEW o, NEW f, AllGo(g, o, f),
         UNCHANGED <<app, handles, clod, classes, prog, terminated>>,
         up' = IF o = "finalize" THEN All("down") ELSE up
  PROVE  InLibrary(f)'
<1>1. ASSUME NEW p \in Procs
      PROVE  LibOf(app, f[p], up'[p], handles[p], prog[p], clod[p], classes[p], terminated[p])
  <2> DEFINE x == Now(p)  k == g[p]  h == f[p]
             u == up[p]  hs == handles[p]  v == prog[p]  c == clod[p]  cl == classes[p]  t == terminated[p]
  <2>1. WellFormed(app) /\ Goes(app, p, k, x, h) /\ x.op = o /\ LibOf(app, k, u, hs, v, c, cl, t) /\ t \in BOOLEAN
    BY DEF Tracked, InLibrary, AllGo
  <2>2. o \in CollectiveOps /\ up'[p] = IF o = "finalize" THEN "down" ELSE u
    BY DEF AllGo, All
  <2> HIDE DEF x, k, h, u, hs, v, c, cl, t
  <2>3. CASE o = "finalize"
    <3>1. LibOf(app, h, "down", hs, v, c, cl, t)
      BY <2>1, <2>3, LibSteps
    <3>2. up'[p] = "down"
      BY <2>2, <2>3
    <3> QED BY <3>1, <3>2 DEF h, hs, v, c, cl, t
  <2>4. CASE o # "finalize"
    <3>1. x.op \notin LibOps /\ x.op \notin LoopOps
      BY <2>1, <2>2, <2>4 DEF CollectiveOps, LibOps, LoopOps
    <3>2. LibOf(app, h, u, hs, v, c, cl, t)
      BY <2>1, <3>1, LibSame
    <3>3. up'[p] = u
      BY <2>2, <2>4
    <3> QED BY <3>2, <3>3 DEF h, hs, v, c, cl, t
  <2> QED BY <2>3, <2>4
<1>2. up' \in [Procs -> {"down", "up", "auto"}]
  BY DEF InLibrary, All
<1> QED BY <1>1, <1>2 DEF InLibrary

LEMMA AllQueues ==
  ASSUME NEW g, Tracked(g), Queues(g), NEW o, NEW f, AllGo(g, o, f), UNCHANGED <<app, queue, shared, claim>>
  PROVE  Queues(f)'
<1>1. \A p \in Procs : f[p].blank = g[p].blank
  <2> TAKE p \in Procs
  <2>1. Goes(app, p, g[p], Now(p), f[p]) /\ Now(p).op = o /\ o \in CollectiveOps
    BY DEF AllGo
  <2>2. g[p].blank = (Now(p).op = "fill") /\ f[p].blank = (Now(p).op = "inplace")
    BY <2>1, BlankFacts
  <2>3. Now(p).op # "fill" /\ Now(p).op # "inplace"
    BY <2>1 DEF CollectiveOps
  <2> QED BY <2>2, <2>3
<1> QED BY <1>1 DEF Queues

LEMMA AllHeaps ==
  ASSUME NEW g, Tracked(g), Heaps(g), NEW o, NEW f, AllGo(g, o, f),
         \/ o \notin {"alloc", "free"} /\ heap' = heap
         \/ o = "alloc" /\ heap' = [p \in Procs |-> heap[p] \cup ToSet(Now(p).blocks)]
         \/ o = "free"  /\ heap' = [p \in Procs |-> heap[p] \ ToSet(Now(p).blocks)]
  PROVE  Heaps(f)'
<1>1. ASSUME NEW p \in Procs, NEW q \in Procs PROVE heap'[p] = heap'[q]
  <2>1. heap[p] = heap[q] /\ Now(p) = Now(q)
    BY DEF Heaps, AllGo
  <2> DEFINE x == Now(p)  y == Now(q)
  <2>2. x = y
    BY <2>1
  <2>3. \/ heap'[p] = heap[p] /\ heap'[q] = heap[q]
        \/ heap'[p] = heap[p] \cup ToSet(x.blocks) /\ heap'[q] = heap[q] \cup ToSet(y.blocks)
        \/ heap'[p] = heap[p] \ ToSet(x.blocks) /\ heap'[q] = heap[q] \ ToSet(y.blocks)
    OBVIOUS
  <2> HIDE DEF x, y
  <2> QED BY <2>1, <2>2, <2>3
<1>2. ASSUME NEW p \in Procs PROVE heap'[p] = Memory(f[p].blocks)
  <2> DEFINE x == Now(p)  k == g[p]  h == f[p]
  <2>1. WellFormed(app) /\ Goes(app, p, k, x, h) /\ x.op = o
    BY DEF Tracked, AllGo
  <2>2. heap[p] = Memory(k.blocks)
    BY DEF Heaps
  <2> HIDE DEF x, k, h
  <2>3. h.blocks = CASE x.op = "alloc" -> k.blocks \cup {x.blocks}
                     [] x.op = "free" -> k.blocks \ {x.blocks}
                     [] OTHER -> k.blocks
    BY <2>1, GoesFacts
  <2>4. CASE o = "alloc"
    <3>1. h.blocks = k.blocks \cup {x.blocks}
      BY <2>1, <2>3, <2>4
    <3>2. heap'[p] = heap[p] \cup ToSet(x.blocks)
      BY <2>4 DEF x
    <3> QED BY <2>2, <3>1, <3>2, MemoryAdd DEF h
  <2>5. CASE o = "free"
    <3>1. h.blocks = k.blocks \ {x.blocks}
      BY <2>1, <2>3, <2>5
    <3>2. heap'[p] = heap[p] \ ToSet(x.blocks)
      BY <2>5 DEF x
    <3>3. k.blocks \in SUBSET Blocks
      <4>1. k \in Places
        BY <2>1, GoesFacts
      <4> QED BY <4>1 DEF Places
    <3>4. x.blocks \in Blocks
      BY <2>1, <2>5, GoesFacts, StepFacts
    <3> QED BY <2>2, <3>1, <3>2, <3>3, <3>4, MemoryFree DEF h
  <2>6. CASE o \notin {"alloc", "free"}
    <3>1. h.blocks = k.blocks
      BY <2>1, <2>3, <2>6
    <3> QED BY <2>2, <2>6, <3>1 DEF h
  <2> QED BY <2>4, <2>5, <2>6
<1>3. heap' = [p \in Procs |-> heap'[p]]
  BY DEF Heaps
<1> QED BY <1>1, <1>2, <1>3 DEF Heaps

LEMMA AllPrints ==
  ASSUME NEW g, Tracked(g), Prints(g), NEW o, NEW f, AllGo(g, o, f), app' = app, printed' = printed
  PROVE  Prints(f)'
<1>1. g \in [Procs -> Places] /\ f \in [Procs -> Places] /\ WellFormed(app)
  BY DEF Tracked, AllGo
<1>2. \A q \in Procs : /\ (g[q].mine => f[q].mine) /\ (g[q].totals => f[q].totals)
                       /\ g[q].count <= f[q].count
  <2> TAKE q \in Procs
  <2> DEFINE x == Now(q)  k == g[q]  h == f[q]
  <2>1. Goes(app, q, k, x, h)
    BY DEF AllGo
  <2> HIDE DEF x, k, h
  <2>2. (k.mine => h.mine) /\ (k.totals => h.totals) /\ k.count <= h.count
    BY <1>1, <2>1, PrintsGoes
  <2> QED BY <2>2 DEF k, h
<1> QED BY <1>1, <1>2, PrintsKept
-----------------------------------------------------------------------------
(***************************************************************************)
(* Steps of the loop are added to what a process has to do one at a time:  *)
(* it searches or copies only as its next step, it has no tasks while it   *)
(* searches, and has claimed some only while it is to copy them.           *)
(***************************************************************************)
Quiet(s) == "search" \notin Ops(s) /\ "copy" \notin Ops(s)

\* The steps s that a process with queue q and claimed tasks c has to take.
StackAt(s, q, c) ==
  /\ s = <<>> => c = <<>>
  /\ s # <<>> => /\ Quiet(Tail(s))
                 /\ Head(s).op = "search" => q = <<>>
                 /\ c # <<>> => Head(s).op = "copy"

Stacks == \A p \in Procs : StackAt(script[p], queue[p], claim[p].tasks)

\* A process searches in the loop of gtc_process, where only that loop's steps and a task's
\* end lead.
LEMMA SearchesInLoop ==
  ASSUME NEW a, NEW p, NEW g, NEW x, NEW h, <<g, x, h>> \in Protocol(a, p)
  PROVE  /\ x.op \in {"search", "copy"} => g.ph = 6
         /\ g.ph \notin {5, 6} => h.ph \notin {5, 6}
<1>1. g \in Places /\ h \in Places /\ Moves(a, p, g, x, h)
  BY DEF Protocol
<1>2. g.ph \in 0..10 /\ h.ph \in 0..10 /\ Permits(a, p, g, x) /\ h.ph = PhaseAfter(g.ph, x.op)
  BY <1>1 DEF Moves, Places
<1>3. x.op \in {"search", "copy"} => g.ph = 6
  BY <1>2 DEF Permits, LoopOps
<1>4. ASSUME g.ph \notin {5, 6} PROVE h.ph \notin {5, 6}
  <2>1. x.op # "executed"
    BY <1>2, <1>4 DEF Permits
  <2> QED BY <1>2, <1>4, <2>1 DEF PhaseAfter
<1> QED BY <1>3, <1>4

LEMMA NeverSearches ==
  ASSUME NEW a, NEW p, NEW s \in Seq(Steps(a)), NEW g, NEW h, Path(Protocol(a, p), s, g, h),
         g.ph \notin {5, 6}
  PROVE  Quiet(s)
<1>1. PICK f : f[0] = g /\ f[Len(s)] = h /\ Runs(Protocol(a, p), s, f)
  BY DEF Path
<1> DEFINE m == Len(s)
<1>2. m \in Nat /\ DOMAIN s = 1..m
  BY LenProperties
<1>3. \A i \in 1..m : <<f[i-1], s[i], f[i]>> \in Protocol(a, p)
  BY <1>1 DEF Runs
<1> HIDE DEF m
<1> DEFINE A == {j \in Nat : j <= m => f[j].ph \notin {5, 6}}
<1>4. 0 \in A
  BY <1>1
<1>5. ASSUME NEW j \in Nat, j \in A PROVE j + 1 \in A
  <2> SUFFICES ASSUME j + 1 <= m PROVE f[j+1].ph \notin {5, 6}
    OBVIOUS
  <2> DEFINE k == j + 1
  <2>1. k \in 1..m /\ k - 1 = j /\ j <= m
    BY <1>2
  <2>2. f[j].ph \notin {5, 6}
    BY <1>5, <2>1
  <2> HIDE DEF A, k
  <2>3. <<f[k-1], s[k], f[k]>> \in Protocol(a, p)
    BY <2>1, <1>3
  <2>4. f[k].ph \notin {5, 6}
    BY <2>1, <2>2, <2>3, SearchesInLoop
  <2> QED BY <2>4 DEF k
<1> HIDE DEF A
<1>6. Nat \subseteq A
  BY <1>4, <1>5, SetInduction
<1>7. ASSUME NEW i \in 1..m PROVE s[i].op \notin {"search", "copy"}
  <2>1. i - 1 \in Nat /\ i - 1 <= m
    BY <1>2
  <2>2. f[i-1].ph \notin {5, 6}
    BY <1>6, <2>1 DEF A
  <2>3. <<f[i-1], s[i], f[i]>> \in Protocol(a, p)
    BY <1>3
  <2> QED BY <2>2, <2>3, SearchesInLoop
<1> QED BY <1>2, <1>7 DEF Quiet, Ops

LEMMA QuietFacts ==
  ASSUME NEW a, NEW s \in Seq(Steps(a)), NEW t \in Seq(Steps(a))
  PROVE  /\ Quiet(Cat(s, t)) <=> Quiet(s) /\ Quiet(t)
         /\ Quiet(s) /\ s # <<>> => Quiet(Tail(s)) /\ Head(s).op \notin {"search", "copy"}
         /\ Quiet(<<>>)
<1>1. Ops(Cat(s, t)) = Ops(s) \cup Ops(t)
  BY OpsCat
<1>2. s # <<>> => Ops(s) = {Head(s).op} \cup Ops(Tail(s))
  BY OpsHead
<1> QED BY <1>1, <1>2, OpsOfNothing DEF Quiet

\* In the main program a process does not search.
LEMMA QuietMain ==
  ASSUME NEW a, NEW p \in Procs, NEW s, NEW h, OnPath(a, p, s, h), h.ph \notin {5, 6}
  PROVE  Quiet(s)
<1>1. s \in Seq(Steps(a)) /\ GtcFini \in Seq(Steps(a)) /\ Whole(a, s, h) \in Seq(Steps(a))
  BY OnPathWhole
<1>2. Quiet(Whole(a, s, h))
  <2>1. PICK e : Path(Protocol(a, p), Whole(a, s, h), h, e)
    BY DEF OnPath
  <2> QED BY <1>1, <2>1, NeverSearches
<1>3. Quiet(Cat(s, GtcFini)) => Quiet(s)
  BY <1>1, QuietFacts
<1> QED BY <1>2, <1>3 DEF Whole

\* A process that does not search, and has claimed nothing.
LEMMA StackQuiet ==
  ASSUME NEW a, NEW s \in Seq(Steps(a)), Quiet(s), NEW q
  PROVE  StackAt(s, q, <<>>)
BY QuietFacts DEF StackAt
-----------------------------------------------------------------------------
\* What a step is replaced by in the main program and in tasks does not search.
LEMMA OrdinaryCalls ==
  ASSUME NEW g, Tracked(g), InLibrary(g), NEW p \in Procs, Ordinary(p)
  PROVE  \E u \in Seq(Steps(app)) : Then(p, u) /\ Quiet(u)
<1>0. WellFormed(app) /\ <<>> \in Seq(Steps(app)) /\ Quiet(<<>>)
  BY OpsOfNothing DEF Tracked, Quiet
<1>1. CASE Done(p)
  BY <1>0, <1>1 DEF Done
<1>2. CASE HandleRelease(p)
  <2>1. Then(p, GtcFini) \/ Then(p, <<>>)
    BY <1>2 DEF HandleRelease
  <2>2. GtcFini \in Seq(Steps(app))
    BY CallsMade
  <2>3. Quiet(GtcFini)
    BY DEF Quiet, Ops, GtcFini, Barrier, Step
  <2> QED BY <1>0, <2>1, <2>2, <2>3
<1>3. ASSUME NEW s, Then(p, s), NEW kept, s \in WorkCalls(app, p, kept)
      PROVE  \E u \in Seq(Steps(app)) : Then(p, u) /\ Quiet(u)
  <2>1. s \in Seq(Steps(app)) /\ Ops(s) \subseteq WorkOps
    BY <1>3 DEF WorkCalls
  <2>2. Quiet(s)
    BY <2>1 DEF Quiet, WorkOps
  <2> QED BY <1>3, <2>1, <2>2
<1>4. CASE Seed(p) \/ RefineBox(p)
  <2>0. script[p] # <<>> /\ Now(p).op \in {"seed", "refine"}
    BY <1>4 DEF Seed, RefineBox, Does, Now
  <2>1. PICK k : Now(p) \in Steps(app) /\ g[p] \in Places /\ Moves(app, p, g[p], Now(p), k)
    BY <2>0, TrackOwn DEF CollectiveOps
  <2>2. CASE Seed(p)
    <3>1. Then(p, BpcSeed(app, prog[p].keys)) /\ Now(p).op = "seed"
      BY <2>2 DEF Seed, Does, Now
    <3>2. app.prog = "bpc" /\ Complete(app, g[p])
      BY <2>1, <3>1 DEF Moves, Permits, SeedOps, WorkOps
    <3>3. Len(<<"ntasks", "nproducers", "nconsumers">>) = 3
      OBVIOUS
    <3>4. g[p].objects = 3
      BY <3>2, <3>3 DEF Complete, ObjectNames
    <3>5. prog[p].keys = Numbers(g[p].objects) /\ Numbers(3) = KeyList
      BY NumbersFacts DEF InLibrary, LibOf
    <3>6. Then(p, BpcSeed(app, KeyList))
      BY <3>1, <3>4, <3>5, Zenon
    <3>7. BpcSeed(app, KeyList) \in WorkCalls(app, p, FALSE)
      BY <1>0, <3>2, BpcSeedCalls
    <3> QED BY <1>3, <3>6, <3>7
  <2>3. CASE RefineBox(p)
    <3> DEFINE x == Now(p)
    <3>1. Then(p, Further(app, x.kept, x.node, x.box)) /\ x.op = "refine"
      BY <2>3 DEF RefineBox, Does, Now
    <3>2. x.kept \in BOOLEAN /\ x.node \in Seq(Nat) /\ x.box \in BoxSet(app)
      BY <2>1, <3>1, StepFacts
    <3>3. app.prog = "mad3d"
      BY <3>2 DEF BoxSet
    <3> HIDE DEF x
    <3>4. Further(app, x.kept, x.node, x.box) \in WorkCalls(app, p, x.kept)
      BY <1>0, <3>2, <3>3, FurtherCalls
    <3> QED BY <1>3, <3>1, <3>4
  <2> QED BY <1>4, <2>2, <2>3
<1>5. Done(p) \/ HandleRelease(p) \/ Seed(p) \/ RefineBox(p)
  BY DEF Ordinary, Registry, Program, GtcInitStep, ImplicitInit, Init_, HandleRegister, ClodChange, Configure,
         CloAssociate, ClassRegister, TaskCreate, TaskDestroy, TaskAdd, TaskFill, CallProgress, CountTask,
         PrintStats, ChangeTree, Executed
<1> QED BY <1>1, <1>2, <1>4, <1>5

\* Process p's steps, queue and claim are put in order, and the others' queues change only
\* if there is something in them.
LEMMA StacksPut ==
  ASSUME Stacks, DOMAIN script = Procs, NEW p \in Procs, NEW s, script' = [script EXCEPT ![p] = s],
         StackAt(s, queue'[p], claim'[p].tasks),
         \A q \in Procs : q # p => /\ claim'[q] = claim[q]
                                   /\ queue'[q] = queue[q] \/ queue[q] # <<>>
  PROVE  Stacks'
<1>1. ASSUME NEW q \in Procs, q # p PROVE StackAt(script'[q], queue'[q], claim'[q].tasks)
  <2>1. script'[q] = script[q] /\ claim'[q].tasks = claim[q].tasks /\ (queue'[q] = queue[q] \/ queue[q] # <<>>)
    BY <1>1
  <2>2. StackAt(script[q], queue[q], claim[q].tasks)
    BY DEF Stacks
  <2> QED BY <2>1, <2>2 DEF StackAt
<1>2. script'[p] = s
  OBVIOUS
<1> QED BY <1>1, <1>2 DEF Stacks

\* One more step of the loop.
LEMMA StackOne ==
  ASSUME NEW a, NEW o, Step(o) \in Steps(a), NEW t \in Seq(Steps(a)), Quiet(t), NEW q, NEW c,
         o = "search" => q = <<>>, c # <<>> => o = "copy"
  PROVE  StackAt(<<Step(o)>> \o t, q, c)
<1>1. /\ <<Step(o)>> \o t # <<>> /\ Head(<<Step(o)>> \o t) = Step(o) /\ Tail(<<Step(o)>> \o t) = <<>> \o t
      /\ <<>> \o t = t
  <2> DEFINE x == Step(o)
  <2>1. x \in Steps(a)
    OBVIOUS
  <2> HIDE DEF x
  <2>2. <<x>> \in Seq(Steps(a)) /\ <<x>> # <<>> /\ Head(<<x>>) = x /\ Tail(<<x>>) = <<>>
    BY <2>1
  <2>3. <<x>> \o t # <<>> /\ Head(<<x>> \o t) = Head(<<x>>) /\ Tail(<<x>> \o t) = Tail(<<x>>) \o t
    BY <2>2, HeadOfConcat
  <2>4. <<>> \o t = t
    BY ConcatEmptySeq
  <2> QED BY <2>2, <2>3, <2>4 DEF x
<1>2. Step(o).op = o
  BY DEF Step
<1> QED BY <1>1, <1>2 DEF StackAt

LEMMA OwnStacks ==
  ASSUME NEW g, Tracked(g), InLibrary(g), Queues(g), Stacks, NEW p \in Procs, NEW h, Own(g, p, h)
  PROVE  Stacks'
<1> DEFINE t == Tail(script[p])
<1>1. /\ script[p] # <<>> /\ Goes(app, p, g[p], Now(p), h) /\ DOMAIN script = Procs /\ WellFormed(app)
      /\ DOMAIN queue = Procs /\ DOMAIN shared = Procs /\ DOMAIN claim = Procs
  BY DEF Own, Tracked, Queues
<1>2. t \in Seq(Steps(app))
  <2>1. OnPath(app, p, script[p], g[p])
    BY DEF Tracked
  <2> QED BY <1>1, <2>1, OnPathWhole
<1>3. /\ Quiet(t) /\ (Now(p).op = "search" => queue[p] = <<>>)
      /\ claim[p].tasks # <<>> => Now(p).op = "copy"
  BY <1>1 DEF Stacks, StackAt, Now
<1> HIDE DEF t
<1>4. ASSUME NEW u \in Seq(Steps(app)), Quiet(u), Then(p, u), Now(p).op # "copy", claim' = claim,
             \A q \in Procs : q # p => queue'[q] = queue[q]
      PROVE  Stacks'
  <2>1. u \o t \in Seq(Steps(app)) /\ Quiet(u \o t)
    BY <1>2, <1>3, <1>4, QuietFacts, CatType DEF Cat
  <2>2. script' = [script EXCEPT ![p] = u \o t]
    BY <1>4 DEF Then, t
  <2>3. claim'[p].tasks = <<>>
    BY <1>3, <1>4
  <2>4. StackAt(u \o t, queue'[p], claim'[p].tasks)
    BY <2>1, <2>3, StackQuiet
  <2> QED BY <1>1, <1>4, <2>2, <2>4, StacksPut
<1>5. CASE Ordinary(p) /\ Now(p).op \notin LoopOps
  <2>1. claim' = claim /\ \A q \in Procs : q # p => queue'[q] = queue[q]
    BY <1>1, <1>5 DEF Ordinary, Registry, Program, GtcInitStep, ImplicitInit, Init_, HandleRegister, ClodChange, Configure,
           CloAssociate, ClassRegister, HandleRelease, TaskCreate, TaskDestroy, TaskAdd, TaskFill, CallProgress, CountTask,
           PrintStats, Seed, RefineBox, ChangeTree, Executed, pool
  <2>2. PICK u \in Seq(Steps(app)) : Then(p, u) /\ Quiet(u)
    BY <1>5, OrdinaryCalls
  <2>3. Now(p).op # "copy"
    BY <1>5 DEF LoopOps
  <2> QED BY <1>4, <2>1, <2>2, <2>3
<1>6. CASE PopHead(p)
  <2>1. claim' = claim /\ Now(p).op = "pop" /\ \A q \in Procs : q # p => queue'[q] = queue[q]
    BY <1>1, <1>6 DEF PopHead, Does, Now
  <2> DEFINE s == Body(app, Lookup(classes[p], Head(queue[p]).class), Head(queue[p]).body)
  <2>2. Then(p, s \o <<Step("executed"), Step("get")>>) /\ queue[p] # <<>>
    BY <1>6 DEF PopHead, Execute
  <2>3. s \in WorkCalls(app, p, FALSE)
    <3>1. queue[p] \in Seq(TaskSet(app))
      BY DEF Queues, QueueAt
    <3>2. Head(queue[p]) \in TaskSet(app)
      BY <2>2, <3>1
    <3>3. Head(queue[p]).body \in Bodies(app)
      BY <3>2 DEF TaskSet
    <3> QED BY <1>1, <3>3, BodyCalls
  <2> HIDE DEF s
  <2>4. s \in Seq(Steps(app)) /\ Quiet(s)
    BY <2>3 DEF WorkCalls, Quiet, WorkOps
  <2> DEFINE e == <<Step("executed"), Step("get")>>
  <2>5. e \in Seq(Steps(app)) /\ Quiet(e)
    <3>1. Step("executed") \in Steps(app) /\ Step("get") \in Steps(app)
      BY DEF Step, Steps, PlainSteps, LoopOps
    <3>2. Quiet(e)
      BY DEF Quiet, Ops, Step
    <3> QED BY <3>1, <3>2
  <2> HIDE DEF e
  <2>6. s \o e \in Seq(Steps(app)) /\ Quiet(s \o e)
    BY <2>4, <2>5, QuietFacts, CatType DEF Cat
  <2> QED BY <1>4, <2>1, <2>2, <2>6 DEF e
<1>7. CASE Return(p)
  <2>1. claim' = claim /\ Now(p).op = "search" /\ Then(p, <<>>) /\ queue' = queue
    BY <1>7 DEF Return, Done, Does, Now
  <2>2. <<>> \in Seq(Steps(app)) /\ Quiet(<<>>)
    BY OpsOfNothing DEF Quiet
  <2> QED BY <1>4, <2>1, <2>2
<1>8. ASSUME NEW o \in {"get", "pop", "search", "copy"}, Then(p, <<Step(o)>>), o = "search" => queue'[p] = <<>>,
             claim'[p].tasks # <<>> => o = "copy",
             \A q \in Procs : q # p => /\ claim'[q] = claim[q]
                                       /\ queue'[q] = queue[q] \/ queue[q] # <<>>
      PROVE  Stacks'
  <2>1. Step(o) \in Steps(app)
    BY DEF Step, Steps, PlainSteps, LoopOps
  <2>2. StackAt(<<Step(o)>> \o t, queue'[p], claim'[p].tasks)
    BY <1>2, <1>3, <1>8, <2>1, StackOne
  <2>3. script' = [script EXCEPT ![p] = <<Step(o)>> \o t]
    BY <1>8 DEF Then, t
  <2> QED BY <1>1, <1>8, <2>2, <2>3, StacksPut
<1>9. CASE Start(p) \/ Get(p)
  <2>1. PICK o \in {"get", "pop"} : /\ Then(p, <<Step(o)>>) /\ queue' = queue /\ claim' = claim
                                    /\ Now(p).op \in {"start", "get"}
    BY <1>9 DEF Start, Get, Does, Now
  <2> QED BY <1>3, <1>8, <2>1
<1>10. CASE PopNothing(p)
  <2>1. Then(p, <<Step("search")>>) /\ queue' = queue /\ claim' = claim /\ Now(p).op = "pop" /\ queue[p] = <<>>
    BY <1>10 DEF PopNothing, Does, Now, pool
  <2> QED BY <1>3, <1>8, <2>1
<1>11. CASE Land(p)
  <2>1. /\ Then(p, <<Step("get")>>) /\ claim'[p].tasks = <<>>
        /\ \A q \in Procs : q # p => claim'[q] = claim[q] /\ queue'[q] = queue[q]
    BY <1>1, <1>11 DEF Land, NoClaim
  <2> QED BY <1>8, <2>1
<1>12. ASSUME NEW v \in Procs, NEW n \in 1..shared[v], Claim(p, v, n) PROVE Stacks'
  <2>1. queue[v] # <<>>
    <3>1. shared[v] \in 0..Len(queue[v]) /\ queue[v] \in Seq(TaskSet(app))
      BY DEF Queues, QueueAt
    <3>2. Len(queue[v]) # 0
      BY <3>1
    <3> QED BY <3>2
  <2>2. /\ Then(p, <<Step("copy")>>)
        /\ \A q \in Procs : q # p => claim'[q] = claim[q] /\ (q # v => queue'[q] = queue[q])
    BY <1>1, <1>12 DEF Claim
  <2> QED BY <1>8, <2>1, <2>2
<1> QED BY <1>5, <1>6, <1>7, <1>9, <1>10, <1>11, <1>12 DEF Own, Turning

LEMMA AllStacks ==
  ASSUME NEW g, Tracked(g), Stacks, NEW o, NEW f, AllGo(g, o, f), \A p \in Procs : script[p] # <<>>,
         AllDone, UNCHANGED <<queue, claim>>
  PROVE  Stacks'
<1> SUFFICES ASSUME NEW p \in Procs PROVE StackAt(script'[p], queue[p], claim[p].tasks)
  BY DEF Stacks
<1>1. OnPath(app, p, script[p], g[p]) /\ script[p] # <<>>
  BY DEF Tracked
<1>2. Tail(script[p]) \in Seq(Steps(app))
  BY <1>1, OnPathWhole
<1>3. Quiet(Tail(script[p])) /\ (claim[p].tasks # <<>> => Now(p).op = "copy")
  BY <1>1 DEF Stacks, StackAt, Now
<1>4. Now(p).op # "copy"
  BY DEF AllGo, CollectiveOps
<1>5. script'[p] = Tail(script[p])
  BY DEF AllDone
<1>6. claim[p].tasks = <<>>
  BY <1>3, <1>4
<1> QED BY <1>2, <1>3, <1>5, <1>6, StackQuiet
-----------------------------------------------------------------------------
(***************************************************************************)
(* Processes that have tasks, and those that have created them, are where  *)
(* all classes and objects are registered.                                 *)
(***************************************************************************)
MakersOf(q) == {q[i].created_by : i \in 1..Len(q)}
Makers(p)   == MakersOf(queue[p]) \cup MakersOf(claim[p].tasks)

Holders(g) ==
  \A p \in Procs : /\ Makers(p) # {} => g[p].ph \in 4..6 /\ Complete(app, g[p])
                   /\ \A m \in Makers(p) : m \in Procs /\ Complete(app, g[m])

LEMMA MakersFacts ==
  ASSUME NEW S, NEW q \in Seq(S), NEW r \in Seq(S)
  PROVE  /\ MakersOf(q \o r) = MakersOf(q) \cup MakersOf(r)
         /\ q # <<>> => MakersOf(Tail(q)) \subseteq MakersOf(q)
         /\ q # <<>> => MakersOf(q) # {}
         /\ \A m, n \in Int : 1 <= m /\ n <= Len(q) => MakersOf(SubSeq(q, m, n)) \subseteq MakersOf(q)
         /\ \A t \in S : MakersOf(<<t>>) = {t.created_by}
         /\ MakersOf(<<>>) = {}
<1>1. MakersOf(q \o r) = MakersOf(q) \cup MakersOf(r)
  <2>1. Cat(q, r) \in Seq(S) /\ Concatenated(Cat(q, r), q, r)
    BY CatMembers
  <2> DEFINE c == Cat(q, r)  m == Len(q)  n == Len(r)
  <2>2. /\ m \in Nat /\ n \in Nat /\ Len(c) = m + n
        /\ \A i \in 1..m : c[i] = q[i]
        /\ \A i \in 1..n : c[m + i] = r[i]
    BY <2>1 DEF Concatenated
  <2>3. MakersOf(c) = {c[i].created_by : i \in 1..(m + n)} /\ MakersOf(q) = {q[i].created_by : i \in 1..m}
        /\ MakersOf(r) = {r[i].created_by : i \in 1..n}
    BY <2>2 DEF MakersOf
  <2> HIDE DEF c, m, n
  <2>4. \A i \in 1..m : i \in 1..(m + n)
    BY <2>2
  <2>5. \A i \in 1..n : m + i \in 1..(m + n)
    BY <2>2
  <2>6. \A i \in 1..(m + n) : i \in 1..m \/ (i - m \in 1..n /\ i = m + (i - m))
    BY <2>2
  <2>7. MakersOf(c) \subseteq MakersOf(q) \cup MakersOf(r)
    <3> SUFFICES ASSUME NEW i \in 1..(m + n) PROVE c[i].created_by \in MakersOf(q) \cup MakersOf(r)
      BY <2>3
    <3>1. CASE i \in 1..m
      BY <3>1, <2>2, <2>3
    <3>2. CASE i \notin 1..m
      <4>1. PICK j \in 1..n : i = m + j
        BY <3>2, <2>6
      <4>2. c[i] = r[j]
        BY <4>1, <2>2
      <4> QED BY <4>2, <2>3
    <3> QED BY <3>1, <3>2
  <2>8. MakersOf(q) \subseteq MakersOf(c)
    BY <2>2, <2>3, <2>4
  <2>9. MakersOf(r) \subseteq MakersOf(c)
    BY <2>2, <2>3, <2>5
  <2>10. MakersOf(c) = MakersOf(q) \cup MakersOf(r)
    BY <2>7, <2>8, <2>9
  <2> QED BY <2>10 DEF c, Cat
<1>2. ASSUME q # <<>> PROVE MakersOf(Tail(q)) \subseteq MakersOf(q) /\ MakersOf(q) # {}
  <2> DEFINE t == Tail(q)  n == Len(q)
  <2>1. n \in Nat \ {0} /\ Len(t) = n - 1 /\ \A i \in 1..(n - 1) : t[i] = q[i+1]
    BY <1>2, TailMembers
  <2>2. MakersOf(t) = {t[i].created_by : i \in 1..(n - 1)} /\ MakersOf(q) = {q[i].created_by : i \in 1..n}
    BY <2>1 DEF MakersOf
  <2> HIDE DEF t, n
  <2>3. 1 \in 1..n /\ \A i \in 1..(n - 1) : i + 1 \in 1..n
    BY <2>1
  <2> QED BY <2>1, <2>2, <2>3 DEF t
<1>3. ASSUME NEW m \in Int, NEW n \in Int, 1 <= m, n <= Len(q)
      PROVE  MakersOf(SubSeq(q, m, n)) \subseteq MakersOf(q)
  <2> DEFINE t == SubSeq(q, m, n)  k == Len(q)  l == Len(t)
  <2>1. k \in Nat
    BY LenProperties
  <2>2. l \in Nat /\ \A i \in 1..l : m + i - 1 \in 1..k /\ t[i] = q[m + i - 1]
    <3>1. CASE m <= n
      <4>1. Len(t) = n - m + 1 /\ \A i \in 1..(n - m + 1) : t[i] = q[m + i - 1]
        BY <3>1, <1>3, <2>1
      <4>2. \A i \in 1..(n - m + 1) : m + i - 1 \in 1..k
        BY <1>3, <2>1
      <4>3. n - m + 1 \in Nat
        BY <3>1
      <4> HIDE DEF t, k
      <4> QED BY <4>1, <4>2, <4>3
    <3>2. CASE m > n
      <4>1. Len(t) = 0
        BY <3>2
      <4> QED BY <4>1
    <3> QED BY <3>1, <3>2
  <2>3. MakersOf(t) = {t[i].created_by : i \in 1..l} /\ MakersOf(q) = {q[i].created_by : i \in 1..k}
    BY DEF MakersOf
  <2> HIDE DEF t, k, l
  <2>4. MakersOf(t) \subseteq MakersOf(q)
    BY <2>2, <2>3
  <2> QED BY <2>4 DEF t
<1>4. \A t \in S : MakersOf(<<t>>) = {t.created_by}
  BY DEF MakersOf
<1>5. MakersOf(<<>>) = {}
  BY DEF MakersOf
<1> QED BY <1>1, <1>2, <1>3, <1>4, <1>5

LEMMA MakersFilled ==
  ASSUME NEW a, NEW q, NEW s, QueueAt(a, TRUE, q, s), NEW b
  PROVE  MakersOf(FilledIn(q, b)) = MakersOf(q)
<1> DEFINE w == [q EXCEPT ![1].body = b, ![1].filled = TRUE]  n == Len(q)
<1>1. q \in Seq(TaskSet(a)) /\ s \in 0..n /\ s < n /\ n \in Nat /\ DOMAIN q = 1..n
  BY DEF QueueAt
<1>2. DOMAIN w = 1..n /\ \A i \in 2..n : w[i] = q[i]
  BY <1>1
<1>3. w[1].created_by = q[1].created_by
  <2>1. 1 \in DOMAIN q /\ q[1] \in TaskSet(a)
    BY <1>1
  <2>2. w[1] = [[q[1] EXCEPT !.body = b] EXCEPT !.filled = TRUE]
    BY <2>1
  <2> QED BY <2>1, <2>2 DEF TaskSet
<1>4. Len(w) = n
  BY <1>1, <1>2
<1>5. \A i \in 1..n : w[i].created_by = q[i].created_by
  <2> SUFFICES ASSUME NEW i \in 1..n PROVE w[i].created_by = q[i].created_by
    OBVIOUS
  <2> HIDE DEF w, n
  <2>1. i = 1 \/ i \in 2..n
    BY <1>1
  <2> QED BY <2>1, <1>2, <1>3
<1>6. MakersOf(w) = {w[i].created_by : i \in 1..n} /\ MakersOf(q) = {q[i].created_by : i \in 1..n}
  BY <1>4 DEF MakersOf
<1> HIDE DEF w, n
<1>7. MakersOf(w) = MakersOf(q)
  BY <1>5, <1>6
<1> QED BY <1>7 DEF w, FilledIn

-----------------------------------------------------------------------------
\* What is registered stays so.
LEMMA CompleteStays ==
  ASSUME NEW a, WellFormed(a), NEW p, NEW g, NEW x, NEW h, Goes(a, p, g, x, h), Complete(a, g)
  PROVE  Complete(a, h)
<1> DEFINE lc == Len(ClassNames(a))  lo == Len(ObjectNames(a))
<1>1. lc \in Nat /\ lo \in Nat /\ g.classes = lc /\ g.objects = lo
  BY NamesFinite DEF Complete
<1>2. h.classes <= lc /\ h.objects <= lo
  BY GoesFacts DEF PlaceOK
<1>3. h.classes = IF x.op = "class" THEN g.classes + 1 ELSE g.classes
  BY GoesFacts
<1>4. h.objects = IF x.op = "associate" THEN g.objects + 1 ELSE g.objects
  BY GoesFacts
<1> HIDE DEF lc, lo
<1>5. h.classes = lc
  BY <1>1, <1>2, <1>3
<1>6. h.objects = lo
  BY <1>1, <1>2, <1>4
<1> QED BY <1>5, <1>6 DEF Complete, lc, lo

\* Between the end of gtc_create and that of gtc_process.
LEMMA AmidStays ==
  ASSUME NEW a, WellFormed(a), NEW p, NEW g, NEW x, NEW h, Goes(a, p, g, x, h), g.ph \in 4..6,
         x.op \in LoopOps => h.ph # 7
  PROVE  h.ph \in 4..6
<1>1. Permits(a, p, g, x) /\ (x.op \notin LoopOps => h.ph = PhaseAfter(g.ph, x.op))
      /\ (x.op \in LoopOps => h.ph \in {5, 6, 7})
  BY GoesFacts
<1>3. g.ph \in {4, 5, 6}
  OBVIOUS
<1>2. CASE x.op \notin LoopOps
  <2>1. x.op \notin {"init", "implicit_init", "register", "clod_create", "clod_destroy", "release", "finalize"}
    BY <1>1, <1>3 DEF Permits
  <2> QED BY <1>1, <1>2, <1>3, <2>1 DEF PhaseAfter
<1> QED BY <1>1, <1>2

\* Process p goes on; tasks are moved, or created by p.
LEMMA HoldersPut ==
  ASSUME NEW g \in [Procs -> Places], Holders(g), NEW p \in Procs, NEW h, app' = app,
         Complete(app, g[p]) => Complete(app, h),
         Makers(p)' # {} => h.ph \in 4..6 /\ Complete(app, h),
         \A q \in Procs : q # p => Makers(q)' \subseteq Makers(q),
         \A m \in Makers(p)' : m = p \/ \E r \in Procs : m \in Makers(r)
  PROVE  Holders([g EXCEPT ![p] = h])'
<1> DEFINE f == [g EXCEPT ![p] = h]
<1>1. f[p] = h /\ \A q \in Procs : q # p => f[q] = g[q]
  OBVIOUS
<1>2. \A m : Complete(app, g[m]) /\ m \in Procs => Complete(app, f[m])
  BY <1>1
<1>5. \A q \in Procs : \A m \in Makers(q) : m \in Procs /\ Complete(app, f[m])
  BY <1>2 DEF Holders
<1> HIDE DEF f
<1>6. ASSUME NEW q \in Procs
      PROVE  /\ Makers(q)' # {} => f[q].ph \in 4..6 /\ Complete(app, f[q])
             /\ \A m \in Makers(q)' : m \in Procs /\ Complete(app, f[m])
  <2>1. CASE q = p
    <3>1. Makers(p)' # {} => f[p].ph \in 4..6 /\ Complete(app, f[p])
      BY <1>1
    <3>2. \A m \in Makers(p)' : m \in Procs /\ Complete(app, f[m])
      BY <1>1, <1>5, <3>1
    <3> QED BY <2>1, <3>1, <3>2
  <2>2. CASE q # p
    <3>1. Makers(q)' \subseteq Makers(q) /\ f[q] = g[q]
      BY <2>2, <1>1
    <3>2. Makers(q)' # {} => f[q].ph \in 4..6 /\ Complete(app, f[q])
      BY <3>1 DEF Holders
    <3>3. \A m \in Makers(q)' : m \in Procs /\ Complete(app, f[m])
      BY <3>1, <1>5
    <3> QED BY <3>2, <3>3
  <2> QED BY <2>1, <2>2
<1>7. Holders(f)'
  BY <1>6 DEF Holders
<1> QED BY <1>7 DEF f
-----------------------------------------------------------------------------
LEMMA OwnHolders ==
  ASSUME NEW g, Tracked(g), Queues(g), Stacks, Holders(g), NEW p \in Procs, NEW h, Own(g, p, h)
  PROVE  Holders([g EXCEPT ![p] = h])'
<1>1. /\ script[p] # <<>> /\ Goes(app, p, g[p], Now(p), h) /\ WellFormed(app) /\ g \in [Procs -> Places]
      /\ DOMAIN queue = Procs /\ DOMAIN claim = Procs
  BY DEF Own, Tracked, Queues
<1> DEFINE q == queue[p]  c == claim[p].tasks  S == TaskSet(app)  k == g[p]  x == Now(p)
<1>2. q \in Seq(S) /\ c \in Seq(S) /\ Makers(p) = MakersOf(q) \cup MakersOf(c)
  BY DEF Queues, QueueAt, ClaimAt, Makers
<1>3. /\ PlaceOK(app, k) /\ PlaceOK(app, h) /\ h \in Places /\ Permits(app, p, k, x)
      /\ x.op \notin LoopOps => h.ph = PhaseAfter(k.ph, x.op)
      /\ Complete(app, k) => Complete(app, h)
  <2>1. Goes(app, p, k, x, h)
    BY <1>1
  <2> HIDE DEF k, x
  <2> QED BY <1>1, <2>1, GoesFacts, CompleteStays
<1>4. x.op \in LoopOps /\ h.ph \in {5, 6} => h.ph \in 4..6 /\ Complete(app, h)
  BY <1>3 DEF PlaceOK
<1>5. ASSUME x.op \in LoopOps => h.ph # 7, Makers(p) # {}
      PROVE  h.ph \in 4..6 /\ Complete(app, h)
  <2>1. k.ph \in 4..6 /\ Complete(app, k)
    BY <1>5 DEF Holders
  <2>2. Goes(app, p, k, x, h) /\ (x.op \in LoopOps => h.ph # 7)
    BY <1>1, <1>5
  <2> HIDE DEF k, x
  <2>3. h.ph \in 4..6
    BY <1>1, <2>1, <2>2, AmidStays
  <2> QED BY <1>3, <2>1, <2>3
<1>6. Now(p).op = x.op
  OBVIOUS
<1> HIDE DEF q, c, S, k, x
\* The queues and claims stay, or hold the same tasks.
<1>7. ASSUME app' = app, x.op \in LoopOps => h.ph # 7, \A r \in Procs : Makers(r)' \subseteq Makers(r)
      PROVE  Holders([g EXCEPT ![p] = h])'
  <2>1. Complete(app, g[p]) => Complete(app, h)
    BY <1>3 DEF k
  <2>2. Makers(p)' # {} => h.ph \in 4..6 /\ Complete(app, h)
    BY <1>5, <1>7
  <2>3. \A m \in Makers(p)' : m = p \/ \E r \in Procs : m \in Makers(r)
    BY <1>7
  <2> QED BY <1>1, <1>7, <2>1, <2>2, <2>3, HoldersPut
<1>8. CASE /\ \/ Registry(p) \/ Executed(p) \/ Start(p) \/ PopNothing(p) \/ Get(p)
              \/ Program(p) /\ ~TaskAdd(p) /\ ~TaskFill(p)
           /\ x.op \in LoopOps => h.ph # 7
  <2>1. app' = app /\ UNCHANGED <<queue, claim>>
    BY <1>8 DEF Registry, Program, GtcInitStep, ImplicitInit, Init_, HandleRegister, ClodChange, Configure,
           CloAssociate, ClassRegister, HandleRelease, TaskCreate, TaskDestroy, CallProgress, CountTask,
           PrintStats, Seed, RefineBox, ChangeTree, Executed, Start, PopNothing, Get, pool
  <2>2. \A r \in Procs : Makers(r)' = Makers(r)
    BY <2>1 DEF Makers
  <2> QED BY <1>7, <1>8, <2>1, <2>2
<1>9. CASE Return(p)
  <2>1. x.op = "search" /\ app' = app /\ UNCHANGED <<queue, claim>>
    BY <1>9 DEF Return, Does, Now, x
  <2>2. q = <<>> /\ c = <<>>
    BY <1>1, <2>1 DEF Stacks, StackAt, Now, x, q, c
  <2>3. Makers(p) = {}
    BY <1>2, <2>2, MakersFacts
  <2>4. \A r \in Procs : Makers(r)' = Makers(r)
    BY <2>1 DEF Makers
  <2>5. Complete(app, g[p]) => Complete(app, h)
    BY <1>3 DEF k
  <2>6. Makers(p)' = {}
    BY <2>3, <2>4
  <2> QED BY <1>1, <2>1, <2>4, <2>5, <2>6, HoldersPut
<1>10. CASE TaskAdd(p)
  <2>1. PICK t : /\ t.created_by = p /\ queue' = [queue EXCEPT ![p] = <<t>> \o q]
                 /\ x.op \in {"add", "inplace"} /\ app' = app /\ claim' = claim
    <3> DEFINE new(b, d) == [class |-> ClassId(p, Now(p).class), body |-> b, filled |-> d, created_by |-> p]
    <3>1. app' = app /\ claim' = claim /\ x.op \in {"add", "inplace"}
      BY <1>10 DEF TaskAdd, Does, Now, x
    <3>2. \E b, d : queue' = [queue EXCEPT ![p] = Pushed(p, b, d)]
      BY <1>10 DEF TaskAdd
    <3>3. PICK b, d : queue' = [queue EXCEPT ![p] = Pushed(p, b, d)]
      BY <3>2
    <3>4. Pushed(p, b, d) = <<new(b, d)>> \o q
      BY Zenon DEF Pushed, q
    <3>5. new(b, d).created_by = p
      OBVIOUS
    <3> HIDE DEF new
    <3>6. queue' = [queue EXCEPT ![p] = <<new(b, d)>> \o q]
      BY <3>3, <3>4
    <3> QED BY <3>1, <3>5, <3>6
  <2>2. k.ph \in {4, 5} /\ Complete(app, k)
    <3>1. x.op \in SeedOps /\ x.op # "destroy"
      BY <2>1 DEF SeedOps, WorkOps
    <3>2. (k.ph = 4 /\ Complete(app, k)) \/ k.ph = 5
      BY <1>3, <3>1 DEF Permits
    <3> QED BY <1>3, <3>2 DEF PlaceOK
  <2>3. h.ph \in 4..6 /\ Complete(app, h)
    <3>1. h.ph = k.ph
      BY <1>3, <2>1 DEF PhaseAfter, LoopOps
    <3> QED BY <1>3, <2>2, <3>1
  <2>4. /\ \A r \in Procs : r # p => Makers(r)' = Makers(r)
        /\ Makers(p)' = MakersOf(<<t>> \o q) \cup MakersOf(c)
    BY <1>1, <2>1 DEF Makers, c
  <2>5. MakersOf(<<t>> \o q) = {p} \cup MakersOf(q)
    <3> DEFINE T == S \cup {t}
    <3>1. q \in Seq(T) /\ <<t>> \in Seq(T) /\ t \in T
      <4>1. S \subseteq T
        OBVIOUS
      <4>2. q \in Seq(T)
        BY <1>2, <4>1, SeqOfMore
      <4> QED BY <4>2
    <3> HIDE DEF T
    <3>2. MakersOf(<<t>> \o q) = MakersOf(<<t>>) \cup MakersOf(q)
      <4> DEFINE y == <<t>>
      <4>1. y \in Seq(T) /\ q \in Seq(T)
        BY <3>1
      <4> HIDE DEF y
      <4>2. MakersOf(y \o q) = MakersOf(y) \cup MakersOf(q)
        BY <4>1, MakersFacts
      <4> QED BY <4>2 DEF y
    <3>3. MakersOf(<<t>>) = {t.created_by}
      BY <3>1, MakersFacts
    <3> QED BY <2>1, <3>2, <3>3
  <2>6. \A m \in Makers(p)' : m = p \/ \E r \in Procs : m \in Makers(r)
    BY <1>2, <2>4, <2>5
  <2>7. Complete(app, g[p]) => Complete(app, h)
    BY <1>3 DEF k
  <2> QED BY <1>1, <2>1, <2>3, <2>4, <2>6, <2>7, HoldersPut
<1>11. CASE TaskFill(p)
  <2> DEFINE b == Now(p).body
  <2>1. app' = app /\ x.op = "fill" /\ claim' = claim
    BY <1>11 DEF TaskFill, Does, Now, x
  <2>2. queue' = [queue EXCEPT ![p] = FilledIn(q, b)]
    <3>1. queue' = [queue EXCEPT ![p][1].body = b, ![p][1].filled = TRUE]
      BY <1>11 DEF TaskFill
    <3> QED BY <1>1, <3>1 DEF FilledIn, q
  <2> HIDE DEF b
  <2>3. QueueAt(app, TRUE, q, shared[p])
    <3>1. g[p].blank = TRUE
      BY <1>1, <2>1, BlankFacts DEF x
    <3> QED BY <3>1 DEF Queues, q
  <2>4. MakersOf(FilledIn(q, b)) = MakersOf(q)
    BY <2>3, MakersFilled
  <2>5. \A r \in Procs : Makers(r)' = Makers(r)
    <3>1. \A r \in Procs : r # p => queue'[r] = queue[r]
      BY <1>1, <2>2
    <3>2. queue'[p] = FilledIn(q, b)
      BY <1>1, <2>2
    <3> QED BY <2>1, <2>4, <3>1, <3>2 DEF Makers, q
  <2>6. x.op \notin LoopOps
    BY <2>1 DEF LoopOps
  <2> QED BY <1>7, <2>1, <2>5, <2>6
<1>12. CASE PopHead(p) /\ h.ph = 5
  <2>1. app' = app /\ queue' = [queue EXCEPT ![p] = Tail(q)] /\ claim' = claim /\ q # <<>>
    BY <1>12 DEF PopHead, q
  <2>2. MakersOf(Tail(q)) \subseteq MakersOf(q)
    BY <1>2, <2>1, MakersFacts
  <2>3. \A r \in Procs : Makers(r)' \subseteq Makers(r)
    <3>1. queue'[p] = Tail(q) /\ \A r \in Procs : r # p => queue'[r] = queue[r]
      BY <1>1, <2>1
    <3> QED BY <2>1, <2>2, <3>1 DEF Makers, q
  <2> QED BY <1>7, <1>12, <2>1, <2>3
<1>13. CASE Land(p) /\ h.ph = 6
  <2>1. /\ app' = app /\ queue' = [queue EXCEPT ![p] = c \o q]
        /\ claim' = [claim EXCEPT ![p] = NoClaim(p)]
    BY <1>13 DEF Land, q, c
  <2>2. MakersOf(c \o q) = MakersOf(c) \cup MakersOf(q) /\ MakersOf(<<>>) = {}
    BY <1>2, MakersFacts
  <2>3. \A r \in Procs : Makers(r)' \subseteq Makers(r)
    <3>1. /\ queue'[p] = c \o q /\ claim'[p].tasks = <<>>
          /\ \A r \in Procs : r # p => queue'[r] = queue[r] /\ claim'[r] = claim[r]
      BY <1>1, <2>1 DEF NoClaim
    <3>2. Makers(p)' = MakersOf(c \o q) \cup MakersOf(<<>>)
      BY <3>1 DEF Makers
    <3>3. Makers(p)' = Makers(p)
      BY <1>2, <2>2, <3>2
    <3> QED BY <3>1, <3>3 DEF Makers
  <2> QED BY <1>7, <1>13, <2>1, <2>3
<1>14. ASSUME NEW v \in Procs, NEW n \in 1..shared[v], Claim(p, v, n), h.ph = 6
       PROVE  Holders([g EXCEPT ![p] = h])'
  <2> DEFINE w == queue[v]  keeps == Len(w) - n
             left == SubSeq(w, 1, keeps)  taken == SubSeq(w, keeps + 1, keeps + n)
  <2>1. /\ app' = app /\ p # v /\ queue' = [queue EXCEPT ![v] = left] /\ x.op \in LoopOps
        /\ claim' = [claim EXCEPT ![p] = [from |-> v, tasks |-> taken]]
    BY <1>14 DEF Claim, Does, Now, x, LoopOps
  <2>2. MakersOf(left) \subseteq MakersOf(w) /\ MakersOf(taken) \subseteq MakersOf(w)
    <3>1. w \in Seq(S) /\ shared[v] \in 0..Len(w)
      BY DEF Queues, QueueAt, S
    <3>2. Len(w) \in Nat /\ n \in Nat /\ n <= Len(w)
      BY <3>1
    <3>3. keeps \in Int /\ 1 \in Int /\ keeps + 1 \in Int /\ keeps + n \in Int
          /\ 1 <= keeps + 1 /\ keeps <= Len(w) /\ keeps + n <= Len(w)
      BY <3>2
    <3> HIDE DEF w, keeps
    <3>4. \A a, b \in Int : 1 <= a /\ b <= Len(w) => MakersOf(SubSeq(w, a, b)) \subseteq MakersOf(w)
      BY <3>1, MakersFacts
    <3> QED BY <3>3, <3>4
  <2> HIDE DEF left, taken, keeps, w
  <2>3. /\ queue'[v] = left /\ queue'[p] = queue[p] /\ claim'[p].tasks = taken
        /\ \A r \in Procs : r # v => queue'[r] = queue[r]
        /\ \A r \in Procs : r # p => claim'[r] = claim[r]
    BY <1>1, <2>1
  <2>4. \A r \in Procs : r # p => Makers(r)' \subseteq Makers(r)
    BY <2>2, <2>3 DEF Makers, w
  <2>5. \A m \in Makers(p)' : m = p \/ \E r \in Procs : m \in Makers(r)
    <3>1. Makers(p)' \subseteq Makers(p) \cup Makers(v)
      BY <2>2, <2>3 DEF Makers, w
    <3> QED BY <3>1
  <2>6. h.ph \in 4..6 /\ Complete(app, h)
    BY <1>4, <1>14, <2>1
  <2>7. Complete(app, g[p]) => Complete(app, h)
    BY <1>3 DEF k
  <2> QED BY <1>1, <2>1, <2>4, <2>5, <2>6, <2>7, HoldersPut
<1>15. CASE Ordinary(p) /\ Now(p).op \notin LoopOps
  <2>1. x.op \in LoopOps => h.ph # 7
    BY <1>15, <1>6
  <2> QED BY <1>8, <1>10, <1>11, <1>15, <2>1 DEF Ordinary
<1>16. CASE Turning(p) /\ h.ph = 6
  <2>1. x.op \in LoopOps => h.ph # 7
    BY <1>16
  <2> QED BY <1>8, <1>13, <1>14, <1>16, <2>1 DEF Turning
<1> QED BY <1>9, <1>12, <1>15, <1>16 DEF Own

LEMMA AllHolders ==
  ASSUME NEW g, Tracked(g), Holders(g), NEW o, NEW f, AllGo(g, o, f), UNCHANGED <<app, queue, claim>>
  PROVE  Holders(f)'
<1>1. WellFormed(app) /\ DOMAIN f = Procs /\ DOMAIN g = Procs
  BY DEF Tracked, AllGo
<1>2. ASSUME NEW q \in Procs
      PROVE  /\ Complete(app, g[q]) => Complete(app, f[q])
             /\ g[q].ph \in 4..6 => f[q].ph \in 4..6
  <2> DEFINE x == Now(q)  k == g[q]  h == f[q]
  <2>1. Goes(app, q, k, x, h) /\ x.op \notin LoopOps
    BY DEF AllGo, CollectiveOps, LoopOps
  <2> HIDE DEF x, k, h
  <2>2. Complete(app, k) => Complete(app, h)
    BY <1>1, <2>1, CompleteStays
  <2>3. k.ph \in 4..6 => h.ph \in 4..6
    BY <1>1, <2>1, AmidStays
  <2> QED BY <2>2, <2>3 DEF k, h
<1>3. \A q \in Procs : Makers(q)' = Makers(q)
  BY DEF Makers
<1>4. \A m : m \in Procs /\ Complete(app, g[m]) => Complete(app, f[m])
  BY <1>2
<1> QED BY <1>2, <1>3, <1>4 DEF Holders
-----------------------------------------------------------------------------
(***************************************************************************)
(* Task descriptors: of those in use, and the spare ones, no two are the   *)
(* same.                                                                   *)
(***************************************************************************)
\* Spare ones sp of k classes, and d ones he that are in use.
Apart(sp, he, k, d) ==
  /\ sp \in Seq(Nat) /\ Len(sp) = k /\ he \in Seq(Nat \ {0}) /\ Len(he) = d
  /\ \A i, j \in 1..d : he[i] = he[j] => i = j
  /\ \A i \in 1..k : \A j \in 1..d : sp[i] # he[j]
  /\ \A i, j \in 1..k : (sp[i] = sp[j] /\ sp[i] # 0) => i = j

Fresh(x, sp, he) ==
  /\ x \in Nat \ {0}
  /\ \A i \in 1..Len(sp) : sp[i] # x
  /\ \A i \in 1..Len(he) : he[i] # x

LEMMA PushMembers ==
  ASSUME NEW S, NEW x \in S, NEW s \in Seq(S)
  PROVE  /\ <<x>> \o s \in Seq(S) /\ Len(<<x>> \o s) = Len(s) + 1
         /\ (<<x>> \o s)[1] = x /\ \A i \in 2..(Len(s) + 1) : (<<x>> \o s)[i] = s[i - 1]
<1> DEFINE e == <<x>>  r == Cat(e, s)  n == Len(s)
<1>1. n \in Nat /\ e \in Seq(S) /\ Len(e) = 1 /\ e[1] = x
  OBVIOUS
<1> HIDE DEF e
<1>2. r \in Seq(S) /\ Concatenated(r, e, s)
  BY <1>1, CatMembers
<1> HIDE DEF r, n
<1>3. /\ Len(r) = 1 + n /\ \A i \in 1..1 : r[i] = e[i]
      /\ \A i \in 1..n : r[1 + i] = s[i]
  BY <1>1, <1>2 DEF Concatenated, n
<1>4. Len(r) = n + 1 /\ r[1] = x
  BY <1>1, <1>3
<1>5. ASSUME NEW i \in 2..(n + 1) PROVE r[i] = s[i - 1]
  <2> DEFINE j == i - 1
  <2>1. j \in 1..n /\ i = 1 + j
    BY <1>1
  <2> HIDE DEF j
  <2>2. r[i] = s[j]
    BY <2>1, <1>3
  <2> QED BY <2>2 DEF j
<1> QED BY <1>2, <1>4, <1>5 DEF r, n, e, Cat

LEMMA ApartPush ==
  ASSUME NEW sp, NEW he, NEW k \in Nat, NEW d \in Nat, Apart(sp, he, k, d), NEW x, Fresh(x, sp, he)
  PROVE  Apart(sp, <<x>> \o he, k, d + 1)
<1> DEFINE r == <<x>> \o he  e == d + 1
<1>1. he \in Seq(Nat \ {0}) /\ x \in Nat \ {0} /\ Len(he) = d /\ Len(sp) = k
  BY DEF Apart, Fresh
<1>2. r \in Seq(Nat \ {0}) /\ Len(r) = e /\ r[1] = x /\ \A i \in 2..e : r[i] = he[i - 1]
  BY <1>1, PushMembers
<1> HIDE DEF r
<1>3. /\ \A i, j \in 1..d : he[i] = he[j] => i = j
      /\ \A i \in 1..k : \A j \in 1..d : sp[i] # he[j]
      /\ \A i \in 1..k : sp[i] # x
      /\ \A j \in 1..d : he[j] # x
  BY <1>1 DEF Apart, Fresh
<1>4. ASSUME NEW i \in 1..e PROVE i = 1 \/ (i \in 2..e /\ i - 1 \in 1..d)
  OBVIOUS
<1> HIDE DEF e
<1>9. ASSUME NEW i \in 1..e, i # 1 PROVE r[i] # x
  <2> DEFINE m == i - 1
  <2>1. m \in 1..d /\ r[i] = he[m]
    BY <1>2, <1>4, <1>9
  <2> HIDE DEF m
  <2> QED BY <2>1, <1>3
<1>5. ASSUME NEW i \in 1..e, NEW j \in 1..e, r[i] = r[j] PROVE i = j
  <2>1. CASE i = 1
    BY <1>2, <1>5, <1>9, <2>1
  <2>2. CASE j = 1
    BY <1>2, <1>5, <1>9, <2>2
  <2>3. CASE i # 1 /\ j # 1
    <3> DEFINE m == i - 1  n == j - 1
    <3>1. m \in 1..d /\ n \in 1..d /\ r[i] = he[m] /\ r[j] = he[n]
      BY <1>2, <1>4, <2>3
    <3>2. m = n
      BY <1>3, <1>5, <3>1
    <3> QED BY <3>2
  <2> QED BY <2>1, <2>2, <2>3
<1>6. ASSUME NEW i \in 1..k, NEW j \in 1..e PROVE sp[i] # r[j]
  <2>1. CASE j = 1
    BY <1>2, <1>3, <2>1
  <2>2. CASE j # 1
    <3> DEFINE m == j - 1
    <3>1. m \in 1..d /\ r[j] = he[m]
      BY <1>2, <1>4, <2>2
    <3> HIDE DEF m
    <3> QED BY <3>1, <1>3
  <2> QED BY <2>1, <2>2
<1>7. Apart(sp, r, k, e)
  BY <1>2, <1>5, <1>6 DEF Apart
<1> QED BY <1>7 DEF r, e

\* The last one that was taken into use is not any more.
LEMMA ApartTail ==
  ASSUME NEW sp, NEW he, NEW k \in Nat, NEW d \in Nat, Apart(sp, he, k, d), d > 0
  PROVE  Apart(sp, Tail(he), k, d - 1) /\ Fresh(Head(he), sp, Tail(he))
<1> DEFINE t == Tail(he)  e == d - 1  x == Head(he)
<1>1. he \in Seq(Nat \ {0}) /\ Len(he) = d /\ Len(sp) = k
  BY DEF Apart
<1>2. he # <<>>
  BY <1>1
<1>3. t \in Seq(Nat \ {0}) /\ Len(t) = e /\ x = he[1] /\ \A i \in 1..e : t[i] = he[i + 1]
  BY <1>1, <1>2, TailMembers
<1>4. e \in Nat /\ 1 \in 1..d /\ \A i \in 1..e : i + 1 \in 1..d /\ i + 1 # 1
  OBVIOUS
<1>5. he[1] \in Nat \ {0}
  BY <1>1, <1>4
<1> HIDE DEF t, e, x
<1>6. /\ \A i, j \in 1..d : he[i] = he[j] => i = j
      /\ \A i \in 1..k : \A j \in 1..d : sp[i] # he[j]
  BY DEF Apart
<1>7. ASSUME NEW i \in 1..e, NEW j \in 1..e, t[i] = t[j] PROVE i = j
  <2>1. i + 1 = j + 1
    BY <1>3, <1>4, <1>6, <1>7
  <2> QED BY <2>1
<1>8. ASSUME NEW i \in 1..k, NEW j \in 1..e PROVE sp[i] # t[j]
  <2> DEFINE m == j + 1
  <2>1. m \in 1..d /\ t[j] = he[m]
    BY <1>3, <1>4
  <2> HIDE DEF m
  <2> QED BY <2>1, <1>6
<1>9. Apart(sp, t, k, e)
  BY <1>3, <1>7, <1>8 DEF Apart
<1>10. ASSUME NEW i \in 1..e PROVE t[i] # x
  BY <1>3, <1>4, <1>6
<1>11. Fresh(x, sp, t)
  BY <1>1, <1>3, <1>4, <1>5, <1>6, <1>10 DEF Fresh
<1> QED BY <1>9, <1>11 DEF t, e, x

\* A class's spare one is taken, or it gets one.
LEMMA ApartSpare ==
  ASSUME NEW sp, NEW he, NEW k \in Nat, NEW d \in Nat, Apart(sp, he, k, d), NEW c \in 1..k, NEW x,
         x = 0 \/ Fresh(x, sp, he)
  PROVE  Apart([sp EXCEPT ![c] = x], he, k, d)
<1> DEFINE s == [sp EXCEPT ![c] = x]
<1>1. sp \in Seq(Nat) /\ Len(sp) = k /\ he \in Seq(Nat \ {0}) /\ Len(he) = d /\ x \in Nat
  BY DEF Apart, Fresh
<1>2. s \in Seq(Nat) /\ Len(s) = k /\ s[c] = x /\ \A i \in 1..k : i # c => s[i] = sp[i]
  BY <1>1
<1> HIDE DEF s
<1>3. /\ \A i \in 1..k : \A j \in 1..d : sp[i] # he[j]
      /\ \A i, j \in 1..k : (sp[i] = sp[j] /\ sp[i] # 0) => i = j
      /\ \A i, j \in 1..d : he[i] = he[j] => i = j
  BY DEF Apart
<1>4. \A j \in 1..d : he[j] # x
  <2>1. \A j \in 1..d : he[j] # 0
    BY <1>1
  <2> QED BY <1>1, <2>1 DEF Fresh
<1>5. \A i \in 1..k : \A j \in 1..d : s[i] # he[j]
  BY <1>2, <1>3, <1>4
<1>6. x # 0 => \A i \in 1..k : sp[i] # x
  BY <1>1 DEF Fresh
<1>7. \A i, j \in 1..k : (s[i] = s[j] /\ s[i] # 0) => i = j
  BY <1>2, <1>3, <1>6
<1>8. Apart(s, he, k, d)
  BY <1>1, <1>2, <1>3, <1>5, <1>7 DEF Apart
<1> QED BY <1>8 DEF s

\* A spare one that is taken is used by nobody, and is not spare any more.
LEMMA ApartTaken ==
  ASSUME NEW sp, NEW he, NEW k \in Nat, NEW d \in Nat, Apart(sp, he, k, d), NEW c \in 1..k, sp[c] # 0
  PROVE  Fresh(sp[c], [sp EXCEPT ![c] = 0], he)
<1> DEFINE s == [sp EXCEPT ![c] = 0]  x == sp[c]
<1>1. sp \in Seq(Nat) /\ Len(sp) = k /\ Len(he) = d /\ x \in Nat \ {0}
  BY DEF Apart
<1>2. Len(s) = k /\ s[c] = 0 /\ \A i \in 1..k : i # c => s[i] = sp[i]
  BY <1>1
<1> HIDE DEF s
<1>3. /\ \A i \in 1..k : \A j \in 1..d : sp[i] # he[j]
      /\ \A i \in 1..k : (sp[i] = sp[c] /\ sp[i] # 0) => i = c
  BY DEF Apart
<1>4. \A i \in 1..k : s[i] # x
  BY <1>1, <1>2, <1>3
<1>5. \A i \in 1..d : he[i] # x
  BY <1>3
<1> HIDE DEF x
<1>6. Fresh(x, s, he)
  BY <1>1, <1>2, <1>4, <1>5 DEF Fresh
<1> QED BY <1>6 DEF s, x

\* A class that is registered has no spare one.
LEMMA ApartClass ==
  ASSUME NEW sp, NEW he, NEW k \in Nat, NEW d \in Nat, Apart(sp, he, k, d)
  PROVE  Apart(Append(sp, 0), he, k + 1, d)
<1> DEFINE s == Append(sp, 0)  e == k + 1
<1>1. sp \in Seq(Nat) /\ Len(sp) = k /\ he \in Seq(Nat \ {0}) /\ Len(he) = d
  BY DEF Apart
<1>2. s \in Seq(Nat) /\ Len(s) = e /\ s[e] = 0 /\ \A i \in 1..k : s[i] = sp[i]
  BY <1>1
<1>3. \A i \in 1..e : i = e \/ i \in 1..k
  OBVIOUS
<1>4. /\ \A i \in 1..k : \A j \in 1..d : sp[i] # he[j]
      /\ \A i, j \in 1..k : (sp[i] = sp[j] /\ sp[i] # 0) => i = j
      /\ \A i, j \in 1..d : he[i] = he[j] => i = j
  BY DEF Apart
<1>5. \A j \in 1..d : he[j] # 0
  BY <1>1
<1> HIDE DEF s, e
<1>6. \A i \in 1..e : \A j \in 1..d : s[i] # he[j]
  BY <1>2, <1>3, <1>4, <1>5
<1>7. \A i, j \in 1..e : (s[i] = s[j] /\ s[i] # 0) => i = j
  BY <1>2, <1>3, <1>4
<1>8. Apart(s, he, e, d)
  BY <1>1, <1>2, <1>4, <1>6, <1>7 DEF Apart
<1> QED BY <1>8 DEF s, e

-----------------------------------------------------------------------------
BuffersAt(b, k, d) ==
  b \in [spare : Seq(Nat), held : Seq(Nat \ {0})] /\ Apart(b.spare, b.held, k, d)

\* The spare descriptors of the classes a process has registered, and those it uses.
Buffers(g) ==
  DOMAIN buffers = Procs /\ \A p \in Procs : BuffersAt(buffers[p], g[p].classes, g[p].depth)

\* Of one number more than there are descriptors, one is not taken.
LEMMA OneLeft ==
  ASSUME NEW sp, NEW he, NEW k \in Nat, NEW d \in Nat, Apart(sp, he, k, d)
  PROVE  \E x \in 1..(k + d + 1) : Fresh(x, sp, he)
<1>1. SUFFICES ASSUME \A x \in 1..(k + d + 1) : ~Fresh(x, sp, he) PROVE FALSE
  OBVIOUS
<1> DEFINE n == k + d  S == 1..(n + 1)  T == 1..n
           At_(i, x) == \/ i \in 1..k /\ sp[i] = x
                        \/ \E j \in 1..d : i = k + j /\ he[j] = x
           f == [x \in S |-> CHOOSE i \in T : At_(i, x)]
<1>2. n \in Nat /\ Len(sp) = k /\ Len(he) = d
  BY DEF Apart
<1>3. ASSUME NEW x \in S PROVE \E i \in T : At_(i, x)
  <2>1. x \in Nat \ {0}
    OBVIOUS
  <2>2. ~Fresh(x, sp, he)
    BY <1>1
  <2>3. CASE \E i \in 1..k : sp[i] = x
    <3>1. PICK i \in 1..k : sp[i] = x
      BY <2>3
    <3>2. i \in T
      OBVIOUS
    <3> QED BY <3>1, <3>2
  <2>4. CASE \E j \in 1..d : he[j] = x
    <3>1. PICK j \in 1..d : he[j] = x
      BY <2>4
    <3>2. k + j \in T
      OBVIOUS
    <3> QED BY <3>1, <3>2
  <2> QED BY <1>2, <2>1, <2>2, <2>3, <2>4 DEF Fresh
<1>4. ASSUME NEW i, NEW x, NEW y, At_(i, x), At_(i, y) PROVE x = y
  <2>1. CASE i \in 1..k
    <3>1. \A j \in 1..d : i # k + j
      BY <2>1
    <3> QED BY <1>4, <3>1
  <2>2. CASE i \notin 1..k
    <3>1. PICK j \in 1..d : i = k + j /\ he[j] = x
      BY <1>4, <2>2
    <3>2. PICK m \in 1..d : i = k + m /\ he[m] = y
      BY <1>4, <2>2
    <3>3. j = m
      BY <3>1, <3>2
    <3> QED BY <3>1, <3>2, <3>3
  <2> QED BY <2>1, <2>2
<1> HIDE DEF At_
<1>5. \A x \in S : f[x] \in T /\ At_(f[x], x)
  BY <1>3
<1>6. f \in [S -> T]
  BY <1>5
<1>7. /\ IsFiniteSet(S) /\ IsFiniteSet(T) /\ Cardinality(S) = n + 1 /\ Cardinality(T) = n
  <2>1. 1 \in Int /\ n + 1 \in Int /\ n \in Int
    BY <1>2
  <2> HIDE DEF n
  <2>2. /\ IsFiniteSet(S) /\ Cardinality(S) = IF 1 > n + 1 THEN 0 ELSE n + 1 - 1 + 1
        /\ IsFiniteSet(T) /\ Cardinality(T) = IF 1 > n THEN 0 ELSE n - 1 + 1
    BY <2>1, FS_Interval
  <2> QED BY <1>2, <2>2 DEF n
<1> HIDE DEF f, n, S, T
<1>8. PICK x, y \in S : x # y /\ f[x] = f[y]
  <2>1. Cardinality(T) < Cardinality(S)
    BY <1>2, <1>7
  <2> QED BY <1>6, <1>7, <2>1, FS_PigeonHole
<1> QED BY <1>4, <1>5, <1>8

LEMMA NewBufferFresh ==
  ASSUME NEW b, NEW k \in Nat, NEW d \in Nat, BuffersAt(b, k, d)
  PROVE  Fresh(NewBuffer(b), b.spare, b.held)
<1> DEFINE sp == b.spare  he == b.held
           S == (1..(k + d + 1)) \ (Range(sp) \cup Range(he))
<1>1. Apart(sp, he, k, d)
  BY DEF BuffersAt
<1>2. /\ sp \in Seq(Nat) /\ Len(sp) = k /\ DOMAIN sp = 1..k
      /\ he \in Seq(Nat \ {0}) /\ Len(he) = d /\ DOMAIN he = 1..d
  BY <1>1 DEF Apart
<1>3. NewBuffer(b) = Min(S)
  BY <1>2 DEF NewBuffer
<1> HIDE DEF sp, he
<1>4. Range(sp) = {sp[i] : i \in 1..k} /\ Range(he) = {he[i] : i \in 1..d}
  BY <1>2 DEF Range
<1>5. \A x \in S : Fresh(x, sp, he)
  BY <1>2, <1>4 DEF Fresh
<1>6. PICK x \in 1..(k + d + 1) : Fresh(x, sp, he)
  BY <1>1, OneLeft
<1>7. x \in S
  BY <1>2, <1>4, <1>6 DEF Fresh
<1>8. S \subseteq Nat
  OBVIOUS
<1> HIDE DEF S
<1>9. \E m \in S : \A y \in S : m <= y
  BY <1>7, <1>8, LeastElement
<1>10. Min(S) \in S
  BY <1>9 DEF Min
<1> QED BY <1>3, <1>5, <1>10 DEF sp, he

LEMMA CreatedApart ==
  ASSUME NEW b, NEW k \in Nat, NEW d \in Nat, BuffersAt(b, k, d), NEW c \in 1..k
  PROVE  BuffersAt(Created(b, c), k, d + 1)
<1> DEFINE sp == b.spare  he == b.held  z == Created(b, c)
<1>1. b \in [spare : Seq(Nat), held : Seq(Nat \ {0})] /\ Apart(sp, he, k, d)
  BY DEF BuffersAt
<1>2. CASE sp[c] # 0
  <2> DEFINE s == [sp EXCEPT ![c] = 0]  r == <<sp[c]>> \o he
  <2>1. Apart(s, he, k, d)
    BY <1>1, ApartSpare
  <2>2. Fresh(sp[c], s, he)
    BY <1>1, <1>2, ApartTaken
  <2>3. Apart(s, r, k, d + 1)
    <3> DEFINE x == sp[c]
    <3>1. Fresh(x, s, he)
      BY <2>2
    <3> HIDE DEF s, x
    <3>2. Apart(s, <<x>> \o he, k, d + 1)
      BY <2>1, <3>1, ApartPush
    <3> QED BY <3>2 DEF x
  <2>4. z = [[b EXCEPT !.held = r] EXCEPT !.spare = s]
    <3>1. z = [b EXCEPT !.held = <<b.spare[c]>> \o @, !.spare[c] = NoBuffer]
      BY <1>2 DEF Created, NoBuffer
    <3> QED BY <1>1, <3>1 DEF NoBuffer
  <2> HIDE DEF s, r
  <2>5. z.spare = s /\ z.held = r
    BY <1>1, <2>4
  <2>6. s \in Seq(Nat) /\ r \in Seq(Nat \ {0})
    BY <2>3 DEF Apart
  <2>7. z \in [spare : Seq(Nat), held : Seq(Nat \ {0})]
    BY <1>1, <2>4, <2>6
  <2> QED BY <2>3, <2>5, <2>7 DEF BuffersAt
<1>3. CASE sp[c] = 0
  <2> DEFINE r == <<NewBuffer(b)>> \o he
  <2>1. Fresh(NewBuffer(b), sp, he)
    BY NewBufferFresh
  <2>2. Apart(sp, r, k, d + 1)
    <3> DEFINE x == NewBuffer(b)
    <3>1. Fresh(x, sp, he)
      BY <2>1
    <3> HIDE DEF x, sp, he
    <3>2. Apart(sp, <<x>> \o he, k, d + 1)
      BY <1>1, <3>1, ApartPush
    <3> QED BY <3>2 DEF x
  <2>3. z = [b EXCEPT !.held = r]
    BY <1>3 DEF Created, NoBuffer
  <2>4. r \in Seq(Nat \ {0})
    BY <2>2 DEF Apart
  <2> HIDE DEF r
  <2>5. z.spare = sp /\ z.held = r /\ z \in [spare : Seq(Nat), held : Seq(Nat \ {0})]
    BY <1>1, <2>3, <2>4
  <2> HIDE DEF sp, z
  <2> QED BY <2>2, <2>5 DEF BuffersAt, z
<1> QED BY <1>2, <1>3

LEMMA DestroyedApart ==
  ASSUME NEW b, NEW k \in Nat, NEW d \in Nat, BuffersAt(b, k, d), NEW c \in 1..k, d > 0
  PROVE  BuffersAt(Destroyed(b, c), k, d - 1)
<1> DEFINE sp == b.spare  t == Tail(b.held)  x == IF sp[c] = 0 THEN Head(b.held) ELSE sp[c]
           s == [sp EXCEPT ![c] = x]  z == Destroyed(b, c)
<1>1. b \in [spare : Seq(Nat), held : Seq(Nat \ {0})] /\ Apart(sp, b.held, k, d)
  BY DEF BuffersAt
<1>2. Apart(sp, t, k, d - 1) /\ Fresh(Head(b.held), sp, t)
  BY <1>1, ApartTail
<1>3. Apart(s, t, k, d - 1)
  <2>1. CASE sp[c] = 0
    <3> DEFINE y == Head(b.held)  e == d - 1
    <3>1. x = y /\ e \in Nat
      BY <2>1
    <3>2. Fresh(y, sp, t) /\ Apart(sp, t, k, e)
      BY <1>2
    <3> HIDE DEF y, sp, t, e
    <3>3. Apart([sp EXCEPT ![c] = y], t, k, e)
      BY <3>1, <3>2, ApartSpare
    <3> QED BY <3>1, <3>3 DEF e
  <2>2. CASE sp[c] # 0
    <3>1. s = sp
      BY <1>1, <2>2 DEF Apart
    <3> QED BY <1>2, <3>1
  <2> QED BY <2>1, <2>2
<1>4. z = [[b EXCEPT !.held = t] EXCEPT !.spare = s]
  BY <1>1 DEF Destroyed, NoBuffer
<1> HIDE DEF s, t
<1>5. z.spare = s /\ z.held = t
  BY <1>1, <1>4
<1>6. s \in Seq(Nat) /\ t \in Seq(Nat \ {0})
  BY <1>3 DEF Apart
<1>7. z \in [spare : Seq(Nat), held : Seq(Nat \ {0})]
  BY <1>1, <1>4, <1>6
<1> HIDE DEF z
<1> QED BY <1>3, <1>5, <1>7 DEF BuffersAt, z

LEMMA RegisteredApart ==
  ASSUME NEW b, NEW k \in Nat, NEW d \in Nat, BuffersAt(b, k, d)
  PROVE  BuffersAt([b EXCEPT !.spare = Append(@, 0)], k + 1, d)
<1> DEFINE s == Append(b.spare, 0)  z == [b EXCEPT !.spare = s]
<1>1. b \in [spare : Seq(Nat), held : Seq(Nat \ {0})] /\ Apart(b.spare, b.held, k, d)
  BY DEF BuffersAt
<1>2. Apart(s, b.held, k + 1, d)
  BY <1>1, ApartClass
<1>3. s \in Seq(Nat)
  BY <1>1
<1> HIDE DEF s
<1>4. z.spare = s /\ z.held = b.held /\ z \in [spare : Seq(Nat), held : Seq(Nat \ {0})]
  BY <1>1, <1>3
<1> HIDE DEF z
<1>5. BuffersAt(z, k + 1, d)
  BY <1>2, <1>4 DEF BuffersAt
<1> QED BY <1>5 DEF z, s

-----------------------------------------------------------------------------
LEMMA BuffersPut ==
  ASSUME NEW g \in [Procs -> Places], Buffers(g), NEW p \in Procs, NEW h, NEW b, BuffersAt(b, h.classes, h.depth),
         DOMAIN buffers' = Procs, buffers'[p] = b, \A q \in Procs : q # p => buffers'[q] = buffers[q]
  PROVE  Buffers([g EXCEPT ![p] = h])'
<1> DEFINE f == [g EXCEPT ![p] = h]
<1>1. f[p] = h /\ \A q \in Procs : q # p => f[q] = g[q]
  OBVIOUS
<1>3. \A q \in Procs : BuffersAt(buffers[q], g[q].classes, g[q].depth)
  BY DEF Buffers
<1> HIDE DEF f
<1>4. \A q \in Procs : BuffersAt(buffers'[q], f[q].classes, f[q].depth)
  BY <1>1, <1>3
<1>5. Buffers(f)'
  BY <1>4 DEF Buffers
<1> QED BY <1>5 DEF f

LEMMA OwnBuffers ==
  ASSUME NEW g, Tracked(g), InLibrary(g), Buffers(g), NEW p \in Procs, NEW h, Own(g, p, h)
  PROVE  Buffers([g EXCEPT ![p] = h])'
<1> DEFINE x == Now(p)  k == g[p]  b == buffers[p]
<1>1. Goes(app, p, k, x, h) /\ g \in [Procs -> Places] /\ WellFormed(app) /\ k \in Places
  BY DEF Tracked, Own
<1>2. /\ h.classes = IF x.op = "class" THEN k.classes + 1 ELSE k.classes
      /\ h.depth = CASE x.op = "create" -> k.depth + 1 [] x.op = "destroy" -> k.depth - 1
                     [] OTHER -> k.depth
      /\ x.op = "destroy" => k.depth > 0
      /\ k.classes \in Nat /\ k.depth \in Nat
  <2> HIDE DEF x, k
  <2>1. /\ h.classes = IF x.op = "class" THEN k.classes + 1 ELSE k.classes
        /\ h.depth = CASE x.op = "create" -> k.depth + 1 [] x.op = "destroy" -> k.depth - 1
                       [] OTHER -> k.depth
        /\ Permits(app, p, k, x)
    BY <1>1, GoesFacts
  <2>2. x.op = "destroy" => k.depth > 0
    BY <2>1 DEF Permits
  <2> QED BY <1>1, <2>1, <2>2 DEF Places
<1>3. BuffersAt(b, k.classes, k.depth) /\ DOMAIN buffers = Procs
  BY DEF Buffers
<1>4. x.op \in {"create", "destroy"} => x.class \in 1..k.classes /\ ClassId(p, x.class) + 1 = x.class
  <2>1. x.op \in {"create", "destroy"} => x.class \in 1..k.classes /\ ClassId(p, x.class) = x.class - 1
    BY <1>1, ClassIds
  <2> QED BY <1>2, <2>1
<1>5. CASE TaskCreate(p)
  <2>1. x.op = "create" /\ buffers' = [buffers EXCEPT ![p] = Created(b, ClassId(p, x.class) + 1)]
    BY <1>3, <1>5 DEF TaskCreate, Does, Now
  <2> DEFINE c == x.class  n == k.classes  d == k.depth
  <2>2. c \in 1..n /\ ClassId(p, c) + 1 = c /\ h.classes = n /\ h.depth = d + 1 /\ n \in Nat /\ d \in Nat
    BY <1>2, <1>4, <2>1
  <2>3. DOMAIN buffers' = Procs /\ buffers'[p] = Created(b, c) /\ \A q \in Procs : q # p => buffers'[q] = buffers[q]
    BY <1>3, <2>1, <2>2
  <2>4. BuffersAt(b, n, d)
    BY <1>3
  <2> HIDE DEF c, n, d, b, k, x
  <2>5. BuffersAt(Created(b, c), n, d + 1)
    BY <2>2, <2>4, CreatedApart
  <2> QED BY <1>1, <2>2, <2>3, <2>5, BuffersPut
<1>6. CASE TaskDestroy(p)
  <2>1. x.op = "destroy" /\ buffers' = [buffers EXCEPT ![p] = Destroyed(b, ClassId(p, x.class) + 1)]
    BY <1>3, <1>6 DEF TaskDestroy, Does, Now
  <2> DEFINE c == x.class  n == k.classes  d == k.depth
  <2>2. c \in 1..n /\ ClassId(p, c) + 1 = c /\ h.classes = n /\ h.depth = d - 1 /\ n \in Nat /\ d \in Nat /\ d > 0
    BY <1>2, <1>4, <2>1
  <2>3. DOMAIN buffers' = Procs /\ buffers'[p] = Destroyed(b, c) /\ \A q \in Procs : q # p => buffers'[q] = buffers[q]
    BY <1>3, <2>1, <2>2
  <2>4. BuffersAt(b, n, d)
    BY <1>3
  <2> HIDE DEF c, n, d, b, k, x
  <2>5. BuffersAt(Destroyed(b, c), n, d - 1)
    BY <2>2, <2>4, DestroyedApart
  <2> QED BY <1>1, <2>2, <2>3, <2>5, BuffersPut
<1>7. CASE ClassRegister(p)
  <2> DEFINE n == k.classes  d == k.depth  z == [b EXCEPT !.spare = Append(@, 0)]
  <2>1. x.op = "class" /\ buffers' = [buffers EXCEPT ![p] = z]
    BY <1>3, <1>7 DEF ClassRegister, Does, Now, NoBuffer
  <2>2. h.classes = n + 1 /\ h.depth = d /\ n \in Nat /\ d \in Nat /\ BuffersAt(b, n, d)
    BY <1>2, <1>3, <2>1
  <2>3. BuffersAt(z, n + 1, d)
    <3> HIDE DEF b, n, d
    <3> QED BY <2>2, RegisteredApart
  <2> HIDE DEF z
  <2>4. DOMAIN buffers' = Procs /\ buffers'[p] = z /\ \A q \in Procs : q # p => buffers'[q] = buffers[q]
    BY <1>3, <2>1
  <2> HIDE DEF n, d, k, x, b
  <2> QED BY <1>1, <2>2, <2>3, <2>4, BuffersPut
<1>8. CASE ~(TaskCreate(p) \/ TaskDestroy(p) \/ ClassRegister(p))
  <2>1. buffers' = buffers /\ x.op \notin {"create", "destroy", "class"}
    <3>1. Registry(p) => buffers' = buffers /\ x.op \notin {"create", "destroy", "class"}
      BY <1>8 DEF Registry, GtcInitStep, ImplicitInit, Init_, HandleRegister, ClodChange, Configure, CloAssociate,
             HandleRelease, Does, Now
    <3>2. Program(p) => buffers' = buffers /\ x.op \notin {"create", "destroy", "class"}
      BY <1>8 DEF Program, TaskAdd, TaskFill, CallProgress, CountTask, PrintStats, Seed, RefineBox, ChangeTree, Does, Now
    <3>3. Turning(p) \/ PopHead(p) \/ Return(p) \/ Executed(p)
          => buffers' = buffers /\ x.op \notin {"create", "destroy", "class"}
      BY DEF Turning, Start, Get, PopHead, PopNothing, Land, Claim, Return, Executed, Does, Now
    <3> QED BY <3>1, <3>2, <3>3 DEF Own, Ordinary
  <2>2. h.classes = k.classes /\ h.depth = k.depth
    BY <1>2, <2>1
  <2>3. DOMAIN buffers' = Procs /\ buffers'[p] = b /\ \A q \in Procs : q # p => buffers'[q] = buffers[q]
    BY <1>3, <2>1
  <2>4. BuffersAt(b, h.classes, h.depth)
    BY <1>3, <2>2
  <2> HIDE DEF x, k, b
  <2> QED BY <1>1, <2>3, <2>4, BuffersPut
<1> QED BY <1>5, <1>6, <1>7, <1>8

LEMMA AllBuffers ==
  ASSUME NEW g, Tracked(g), Buffers(g), NEW o, NEW f, AllGo(g, o, f), UNCHANGED buffers
  PROVE  Buffers(f)'
<1>1. ASSUME NEW p \in Procs PROVE f[p].classes = g[p].classes /\ f[p].depth = g[p].depth
  <2> DEFINE x == Now(p)  k == g[p]  h == f[p]
  <2>1. Goes(app, p, k, x, h) /\ x.op = o /\ o \in CollectiveOps /\ WellFormed(app)
    BY DEF AllGo, Tracked
  <2> HIDE DEF x, k, h
  <2>2. /\ h.classes = IF x.op = "class" THEN k.classes + 1 ELSE k.classes
        /\ h.depth = CASE x.op = "create" -> k.depth + 1 [] x.op = "destroy" -> k.depth - 1
                       [] OTHER -> k.depth
    BY <2>1, GoesFacts
  <2>3. x.op \notin {"class", "create", "destroy"}
    BY <2>1 DEF CollectiveOps
  <2>4. h.classes = k.classes /\ h.depth = k.depth
    BY <2>2, <2>3
  <2> QED BY <2>4 DEF h, k
<1> QED BY <1>1 DEF Buffers

-----------------------------------------------------------------------------
(***************************************************************************)
(* The inductive invariant.                                                *)
(***************************************************************************)
InvAt(g) ==
  /\ Tracked(g) /\ InLibrary(g) /\ Queues(g)
  /\ Counted /\ Heaps(g) /\ Prints(g)
  /\ Stacks /\ Holders(g) /\ Buffers(g)

\* There are places of all processes that all of their state fits.
Inv == \E g : InvAt(g)

LEMMA BeginningInPlaces ==
  /\ Beginning \in Places /\ Beginning.ph = 0 /\ Beginning.classes = 0 /\ Beginning.objects = 0
  /\ Beginning.count = 0 /\ Beginning.blank = FALSE /\ Beginning.blocks = {} /\ Beginning.totals = FALSE
BY DEF Beginning, Places

LEMMA LibBeginning ==
  ASSUME NEW a
  PROVE  LibOf(a, Beginning, "down", {}, [gtc |-> GTC_MAX_TC, keys |-> <<>>, classes |-> <<>>], <<>>, <<>>, FALSE)
<1> DEFINE v == [gtc |-> GTC_MAX_TC, keys |-> <<>>, classes |-> <<>>]
<1>1. v \in [gtc : Nat, keys : Seq(Nat), classes : Seq(Nat)] /\ v.keys = <<>> /\ v.classes = <<>>
  BY DEF GTC_MAX_TC
<1>2. Numbers(0) = <<>>
  BY NumbersFacts
<1>3. Upto(ObjectNames(a), 0) = <<>> /\ Upto(ClassNames(a), 0) = <<>>
  BY UptoFacts
<1> HIDE DEF v
<1>4. LibOf(a, Beginning, "down", {}, v, <<>>, <<>>, FALSE)
  BY <1>1, <1>2, <1>3, BeginningInPlaces DEF LibOf, UpAt
<1> QED BY <1>4 DEF v

LEMMA InitTracked ==
  ASSUME Init
  PROVE  Tracked([p \in Procs |-> Beginning])
<1> DEFINE g == [p \in Procs |-> Beginning]
<1>1. WellFormed(app)
  <2>1. PICK a \in Apps : app \in Programs(a)
    BY DEF Init
  <2> QED BY <2>1, ProgramsWellFormed
<1>2. g \in [Procs -> Places]
  BY BeginningInPlaces
<1>3. DOMAIN script = Procs /\ \A p \in Procs : script[p] = Main(app, p)
  BY DEF Init
<1>4. \A p \in Procs : OnPath(app, p, Main(app, p), Beginning)
                       /\ Remaining(app, Main(app, p), Beginning) = Picked(Full(app, p), CollectiveOps)
  BY <1>1, OnPathMain
<1>5. PlaceOK(app, Beginning)
  <2> DEFINE lc == Len(ClassNames(app))  lo == Len(ObjectNames(app))  en == Entry(app)
  <2>1. lc \in Nat /\ lo \in Nat /\ en \in Nat
    BY <1>1, NamesFinite
  <2> HIDE DEF lc, lo, en
  <2>2. 0 <= lc /\ 0 <= lo /\ 0 <= en /\ ~(0 >= 5) /\ ~(0 >= 8) /\ 0 \notin {5, 6}
    BY <2>1
  <2> QED BY <2>2, BeginningInPlaces DEF PlaceOK, lc, lo, en
<1>6. \A p, q \in Procs : Picked(Full(app, p), CollectiveOps) = Picked(Full(app, q), CollectiveOps)
  BY <1>1, MainsSame DEF Same
<1>7. \A p \in Procs : g[p] = Beginning
  OBVIOUS
<1> HIDE DEF g
<1>8. Tracked(g)
  BY <1>1, <1>2, <1>3, <1>4, <1>5, <1>6, <1>7 DEF Tracked
<1> QED BY <1>8 DEF g

LEMMA InitStacks ==
  ASSUME Init
  PROVE  Stacks
<1>1. WellFormed(app) /\ \A p \in Procs : script[p] = Main(app, p) /\ claim[p].tasks = <<>>
  <2>1. PICK a \in Apps : app \in Programs(a)
    BY DEF Init
  <2>2. \A p \in Procs : script[p] = Main(app, p) /\ claim[p] = [from |-> p, tasks |-> <<>>]
    BY DEF Init, NoClaim
  <2>3. WellFormed(app)
    BY <2>1, ProgramsWellFormed
  <2>4. ASSUME NEW p \in Procs PROVE claim[p].tasks = <<>>
    <3>1. claim[p] = [from |-> p, tasks |-> <<>>]
      BY <2>2
    <3> QED BY <3>1
  <2> QED BY <2>2, <2>3, <2>4
<1>2. ASSUME NEW p \in Procs PROVE StackAt(script[p], queue[p], claim[p].tasks)
  <2>1. OnPath(app, p, Main(app, p), Beginning)
    BY <1>1, OnPathMain
  <2>2. Main(app, p) \in Seq(Steps(app)) /\ Quiet(Main(app, p))
    <3>1. Beginning.ph \notin {5, 6}
      BY BeginningInPlaces
    <3> QED BY <2>1, <3>1, QuietMain, OnPathWhole
  <2>3. StackAt(Main(app, p), queue[p], <<>>)
    BY <2>2, StackQuiet
  <2> QED BY <1>1, <2>3
<1> QED BY <1>2 DEF Stacks

LEMMA InitHolders ==
  ASSUME Init, NEW g
  PROVE  Holders(g)
<1>1. ASSUME NEW p \in Procs PROVE Makers(p) = {}
  <2>1. queue[p] = <<>> /\ claim[p] = [from |-> p, tasks |-> <<>>]
    BY DEF Init, All, NoClaim
  <2>2. claim[p].tasks = <<>>
    BY <2>1
  <2>3. MakersOf(<<>>) = {}
    BY DEF MakersOf
  <2> QED BY <2>1, <2>2, <2>3 DEF Makers
<1> QED BY <1>1 DEF Holders

LEMMA InitBuffers ==
  ASSUME Init, NEW g, \A p \in Procs : g[p] = Beginning
  PROVE  Buffers(g)
<1> DEFINE b == [spare |-> <<>>, held |-> <<>>]
<1>1. DOMAIN buffers = Procs /\ \A p \in Procs : buffers[p] = b
  BY DEF Init, All
<1>2. b \in [spare : Seq(Nat), held : Seq(Nat \ {0})] /\ b.spare = <<>> /\ b.held = <<>>
  OBVIOUS
<1>3. Apart(<<>>, <<>>, 0, 0)
  BY DEF Apart
<1> HIDE DEF b
<1>4. BuffersAt(b, 0, 0)
  BY <1>2, <1>3 DEF BuffersAt
<1>5. Beginning.classes = 0 /\ Beginning.depth = 0
  BY DEF Beginning
<1> QED BY <1>1, <1>4, <1>5 DEF Buffers

LEMMA InitInv ==
  ASSUME Init
  PROVE  Inv
<1> DEFINE g == [p \in Procs |-> Beginning]
<1>1. Tracked(g)
  BY InitTracked
<1>2. \A p \in Procs : g[p] = Beginning
  OBVIOUS
<1> HIDE DEF g
<1>3. InLibrary(g)
  <2>1. /\ up \in [Procs -> {"down", "up", "auto"}] /\ terminated \in [Procs -> BOOLEAN]
        /\ DOMAIN handles = Procs /\ DOMAIN prog = Procs /\ DOMAIN clod = Procs /\ DOMAIN classes = Procs
    BY DEF Init, All
  <2>2. ASSUME NEW p \in Procs
        PROVE  LibOf(app, g[p], up[p], handles[p], prog[p], clod[p], classes[p], terminated[p])
    <3>1. /\ up[p] = "down" /\ handles[p] = {} /\ clod[p] = <<>> /\ classes[p] = <<>> /\ terminated[p] = FALSE
          /\ prog[p] = [gtc |-> GTC_MAX_TC, keys |-> <<>>, classes |-> <<>>]
      BY DEF Init, All
    <3> QED BY <1>2, <3>1, LibBeginning
  <2> QED BY <2>1, <2>2 DEF InLibrary
<1>4. Queues(g)
  <2>1. DOMAIN queue = Procs /\ DOMAIN shared = Procs /\ DOMAIN claim = Procs
    BY DEF Init, All
  <2>2. ASSUME NEW p \in Procs
        PROVE  QueueAt(app, g[p].blank, queue[p], shared[p]) /\ ClaimAt(app, p, claim[p])
    <3>1. queue[p] = <<>> /\ shared[p] = 0 /\ claim[p] = [from |-> p, tasks |-> <<>>] /\ g[p].blank = FALSE
      BY <1>2, BeginningInPlaces DEF Init, All, NoClaim
    <3>2. <<>> \in Seq(TaskSet(app)) /\ Len(<<>>) = 0
      OBVIOUS
    <3>3. QueueAt(app, FALSE, <<>>, 0)
      BY <3>2 DEF QueueAt
    <3>4. claim[p].from = p /\ claim[p].tasks = <<>>
      BY <3>1
    <3>5. QueueAt(app, g[p].blank, queue[p], shared[p])
      BY <3>1, <3>3
    <3>6. claim[p].from \in Procs /\ claim[p].tasks \in Seq(TaskSet(app)) /\ Len(claim[p].tasks) = 0
      BY <3>2, <3>4
    <3>7. ClaimAt(app, p, claim[p])
      BY <3>4, <3>6 DEF ClaimAt
    <3> QED BY <3>5, <3>7
  <2> QED BY <2>1, <2>2 DEF Queues
<1>5. Counted
  BY DEF Init, All, Counted, Counting
<1>6. Heaps(g)
  <2>1. heap = [p \in Procs |-> {}]
    BY DEF Init, All
  <2>2. \A p \in Procs : g[p].blocks = {}
    BY <1>2 DEF Beginning
  <2>3. Memory({}) = {}
    BY DEF Memory
  <2> QED BY <2>1, <2>2, <2>3 DEF Heaps
<1>7. Prints(g)
  <2>1. printed = <<>> /\ <<>> \in Seq(0..N) /\ Len(<<>>) = 0
    BY DEF Init
  <2> QED BY <2>1 DEF Prints
<1>8. Stacks /\ Holders(g) /\ Buffers(g)
  BY <1>2, InitStacks, InitHolders, InitBuffers
<1> QED BY <1>1, <1>3, <1>4, <1>5, <1>6, <1>7, <1>8 DEF Inv, InvAt

-----------------------------------------------------------------------------
LEMMA CollectiveInv ==
  ASSUME Inv, Collective
  PROVE  Inv'
<1>1. PICK g : InvAt(g)
  BY DEF Inv
<1>2. PICK o \in CollectiveOps :
        /\ Together(o) /\ AllDone /\ app' = app
        /\ UNCHANGED <<handles, clod, classes, prog, buffers, terminated, queue, shared, claim, spawned, completed, tally, printed>>
        /\ up' = IF o = "finalize" THEN All("down") ELSE up
        /\ \/ o \notin {"alloc", "free"} /\ heap' = heap
           \/ o = "alloc" /\ heap' = [p \in Procs |-> heap[p] \cup ToSet(Now(p).blocks)]
           \/ o = "free"  /\ heap' = [p \in Procs |-> heap[p] \ ToSet(Now(p).blocks)]
  <2>1. CASE PassBarrier
    BY <2>1 DEF PassBarrier, library, pool, results, CollectiveOps
  <2>2. CASE ShmemMalloc
    BY <2>2 DEF ShmemMalloc, library, pool, results, CollectiveOps
  <2>3. CASE ShmemFree
    BY <2>3 DEF ShmemFree, library, pool, results, CollectiveOps
  <2>4. CASE ShmemReduce
    BY <2>4 DEF ShmemReduce, library, pool, CollectiveOps
  <2>5. CASE ShmemFinalize
    BY <2>5 DEF ShmemFinalize, pool, results, CollectiveOps
  <2> QED BY <2>1, <2>2, <2>3, <2>4, <2>5 DEF Collective
<1>3. /\ Tracked(g) /\ InLibrary(g) /\ Queues(g)
      /\ Counted /\ Heaps(g) /\ Prints(g)
      /\ Stacks /\ Holders(g) /\ Buffers(g)
  BY <1>1 DEF InvAt
<1>4. PICK f : /\ Tracked(f)'
               /\ \A p \in Procs : Goes(app, p, g[p], Now(p), f[p]) /\ Now(p).op = o
  BY <1>2, <1>3, TrackTogether
<1>5. AllGo(g, o, f)
  <2>1. f \in [Procs -> Places]
    BY <1>4 DEF Tracked
  <2>2. \A p, q \in Procs : Now(p) = Now(q)
    BY <1>2, <1>3, TrackTogether
  <2> QED BY <1>4, <2>1, <2>2 DEF AllGo
<1>6. InLibrary(f)'
  BY <1>2, <1>3, <1>5, AllLibrary
<1>7. Queues(f)'
  BY <1>2, <1>3, <1>5, AllQueues
<1>8. Counted'
  BY <1>2, <1>3 DEF Counted
<1>9. Heaps(f)'
  <2> DEFINE Changed == \/ o \notin {"alloc", "free"} /\ heap' = heap
                        \/ o = "alloc" /\ heap' = [p \in Procs |-> heap[p] \cup ToSet(Now(p).blocks)]
                        \/ o = "free"  /\ heap' = [p \in Procs |-> heap[p] \ ToSet(Now(p).blocks)]
  <2>1. Changed
    BY <1>2
  <2> QED BY <1>3, <1>5, <2>1, AllHeaps
<1>10. Prints(f)'
  BY <1>2, <1>3, <1>5, AllPrints
<1>11. Stacks' /\ Holders(f)' /\ Buffers(f)'
  <2>1. \A p \in Procs : script[p] # <<>>
    BY <1>2, <1>3, TrackTogether
  <2> QED BY <1>2, <1>3, <1>5, <2>1, AllStacks, AllHolders, AllBuffers
<1>12. InvAt(f)'
  BY <1>4, <1>6, <1>7, <1>8, <1>9, <1>10, <1>11 DEF InvAt
<1> QED BY <1>12 DEF Inv

LEMMA OwnInv ==
  ASSUME Inv, NEW p \in Procs, Registry(p) \/ Program(p) \/ Process(p)
  PROVE  Inv'
<1>1. PICK g : InvAt(g)
  BY DEF Inv
<1>2. /\ Tracked(g) /\ InLibrary(g) /\ Queues(g)
      /\ Counted /\ Heaps(g) /\ Prints(g)
      /\ Stacks /\ Holders(g) /\ Buffers(g)
  BY <1>1 DEF InvAt
<1>3. PICK h : Own(g, p, h)
  BY <1>2, OwnRegistry, OwnProgram, OwnProcess
<1> DEFINE f == [g EXCEPT ![p] = h]
<1>4. Tracked(f)' /\ InLibrary(f)' /\ Queues(f)'
  BY <1>2, <1>3, OwnLibrary, OwnQueues DEF Own
<1>5. Counted' /\ Heaps(f)' /\ Prints(f)'
  BY <1>2, <1>3, OwnCounted, OwnHeaps, OwnPrints
<1>6. Stacks' /\ Holders(f)' /\ Buffers(f)'
  BY <1>2, <1>3, OwnStacks, OwnHolders, OwnBuffers
<1> HIDE DEF f
<1>7. InvAt(f)'
  BY <1>4, <1>5, <1>6 DEF InvAt
<1> QED BY <1>7 DEF Inv

LEMMA StutterInv ==
  ASSUME Inv, UNCHANGED vars
  PROVE  Inv'
<1>1. PICK g : InvAt(g)
  BY DEF Inv
<1>2. UNCHANGED <<app, script, up, handles, clod, classes, buffers, prog, queue, shared, claim, terminated, spawned,
                  completed, heap, tally, printed>>
  BY DEF vars, library, pool, results
<1>3. Tracked(g)'
  BY <1>1, <1>2 DEF InvAt, Tracked
<1>4. InLibrary(g)' /\ Queues(g)' /\ Counted' /\ Heaps(g)'
  BY <1>1, <1>2 DEF InvAt, InLibrary, Queues, Counted, Heaps
<1>5. Prints(g)'
  BY <1>1, <1>2 DEF InvAt, Prints, HasPrinted
<1>6. Stacks' /\ Buffers(g)'
  BY <1>1, <1>2 DEF InvAt, Stacks, Buffers
<1>7. Holders(g)'
  BY <1>1, <1>2 DEF InvAt, Holders, Makers
<1> QED BY <1>3, <1>4, <1>5, <1>6, <1>7 DEF Inv, InvAt

\* The state of all processes fits their places at all times.
THEOREM Invariance == Spec => []Inv
<1>1. Init => Inv
  BY InitInv
<1>2. Inv /\ [Next]_vars => Inv'
  <2>1. Inv /\ Next => Inv'
    BY CollectiveInv, OwnInv DEF Next
  <2> QED BY <2>1, StutterInv
<1> QED BY <1>1, <1>2, PTL DEF Spec
-----------------------------------------------------------------------------
\* A process and one that has created a task for it have the same tables.
LEMMA SameTables ==
  ASSUME NEW g, InvAt(g), NEW p \in Procs, NEW q \in Makers(p)
  PROVE  /\ q \in Procs /\ classes[p] = Upto(ClassNames(app), Len(ClassNames(app))) /\ classes[q] = classes[p]
         /\ app.prog = "bpc" => clod[p] = Upto(ObjectNames(app), 3) /\ clod[q] = clod[p]
<1>1. /\ q \in Procs /\ g[p].ph \in 4..6 /\ Complete(app, g[p]) /\ Complete(app, g[q])
  BY DEF InvAt, Holders
<1>2. WellFormed(app) /\ PlaceOK(app, g[p]) /\ PlaceOK(app, g[q]) /\ g[p].count = g[q].count
      /\ g[p] \in Places /\ g[q] \in Places
  BY <1>1 DEF InvAt, Tracked
<1>3. /\ LibOf(app, g[p], up[p], handles[p], prog[p], clod[p], classes[p], terminated[p])
      /\ LibOf(app, g[q], up[q], handles[q], prog[q], clod[q], classes[q], terminated[q])
  BY <1>1 DEF InvAt, InLibrary
<1> DEFINE k == g[p]  l == g[q]  e == Entry(app)
<1>4. e \in Nat /\ k.ph \in {4, 5, 6} /\ k.count \in Nat /\ l.count = k.count /\ l.ph \in Nat
  <2>1. e \in Nat
    BY <1>2, NamesFinite
  <2>2. k \in Places /\ l \in Places /\ k.ph \in 4..6 /\ l.count = k.count
    BY <1>1, <1>2
  <2> HIDE DEF e, k, l
  <2>3. k.count \in Nat /\ l.ph \in Nat
    BY <2>2 DEF Places
  <2> QED BY <2>1, <2>2, <2>3
<1>5. (k.ph <= 4 => k.count <= e) /\ (k.ph \in {5, 6} => k.count = e) /\ (l.ph >= 8 => l.count > e)
  BY <1>2 DEF PlaceOK
<1> HIDE DEF e, k, l
<1>6. ~(l.ph >= 8) /\ ~(k.ph >= 8)
  BY <1>4, <1>5
<1> DEFINE lc == Len(ClassNames(app))
<1>7. classes[p] = Upto(ClassNames(app), lc) /\ classes[q] = Upto(ClassNames(app), lc)
  BY <1>1, <1>3 DEF LibOf, Complete
<1> HIDE DEF lc
<1>8. ASSUME app.prog = "bpc" PROVE clod[p] = Upto(ObjectNames(app), 3) /\ clod[q] = Upto(ObjectNames(app), 3)
  <2>1. Len(<<"ntasks", "nproducers", "nconsumers">>) = 3
    OBVIOUS
  <2>2. Len(ObjectNames(app)) = 3
    BY <1>8, <2>1 DEF ObjectNames
  <2>3. g[p].objects = 3 /\ g[q].objects = 3
    BY <1>1, <2>2 DEF Complete
  <2>4. /\ clod[p] = IF g[p].ph >= 8 THEN <<>> ELSE Upto(ObjectNames(app), g[p].objects)
        /\ clod[q] = IF g[q].ph >= 8 THEN <<>> ELSE Upto(ObjectNames(app), g[q].objects)
    BY <1>3 DEF LibOf
  <2> QED BY <1>6, <2>3, <2>4 DEF k, l
<1> QED BY <1>1, <1>7, <1>8 DEF lc

LEMMA InvKeysAgree ==
  ASSUME Inv
  PROVE  KeysAgree
<1>1. PICK g : InvAt(g)
  BY DEF Inv
<1>2. ASSUME NEW p \in Procs, NEW h \in DOMAIN Holds(p)
      PROVE  LET t == Holds(p)[h]  q == t.created_by
             IN  /\ Registered(classes[p], t.class)
                 /\ Lookup(classes[p], t.class) = Lookup(classes[q], t.class)
                 /\ app.prog = "bpc" => \A i \in DOMAIN t.body.keys :
                      /\ Registered(clod[p], t.body.keys[i])
                      /\ Lookup(clod[p], t.body.keys[i]) = Lookup(clod[q], t.body.keys[i])
  <2> DEFINE S == TaskSet(app)  r == queue[p]  c == claim[p].tasks  s == r \o c  t == s[h]  q == t.created_by
             lc == Len(ClassNames(app))
  <2>1. r \in Seq(S) /\ c \in Seq(S) /\ Makers(p) = MakersOf(r) \cup MakersOf(c) /\ Holds(p) = s
    BY <1>1 DEF InvAt, Queues, QueueAt, ClaimAt, Makers, Holds
  <2>2. h \in DOMAIN s
    BY <1>2, <2>1
  <2> HIDE DEF S, r, c
  <2>3. s \in Seq(S) /\ MakersOf(s) = MakersOf(r) \cup MakersOf(c)
    BY <2>1, MakersFacts
  <2> HIDE DEF s
  <2>4. t \in S /\ h \in 1..Len(s)
    BY <2>2, <2>3
  <2>5. q \in Makers(p)
    BY <2>1, <2>3, <2>4 DEF MakersOf
  <2> HIDE DEF q
  <2>6. /\ classes[p] = Upto(ClassNames(app), lc) /\ classes[q] = classes[p]
        /\ app.prog = "bpc" => clod[p] = Upto(ObjectNames(app), 3) /\ clod[q] = clod[p]
    BY <1>1, <2>5, SameTables
  <2>7. t.class \in 0..(lc - 1) /\ t.body \in Bodies(app)
    BY <2>4 DEF S, TaskSet
  <2> HIDE DEF t
  <2>8. lc \in Nat
    BY <1>1, NamesFinite DEF InvAt, Tracked
  <2>9. Registered(classes[p], t.class) /\ Lookup(classes[p], t.class) = Lookup(classes[q], t.class)
    <3>1. Len(Upto(ClassNames(app), lc)) = lc
      BY <2>8, UptoFacts
    <3> QED BY <2>6, <2>7, <3>1 DEF Registered, Lookup
  <2>10. ASSUME app.prog = "bpc", NEW i \in DOMAIN t.body.keys
         PROVE  /\ Registered(clod[p], t.body.keys[i])
                /\ Lookup(clod[p], t.body.keys[i]) = Lookup(clod[q], t.body.keys[i])
    <3>1. t.body.keys = <<0, 1, 2>>
      BY <2>7, <2>10 DEF Bodies, KeyList
    <3>2. t.body.keys[i] \in {0, 1, 2}
      BY <3>1, <2>10
    <3>3. Len(Upto(ObjectNames(app), 3)) = 3
      BY UptoFacts
    <3>4. Registered(clod[p], t.body.keys[i])
      <4> DEFINE m == t.body.keys[i]  n == Len(clod[p])
      <4>1. m \in {0, 1, 2} /\ n = 3
        BY <2>6, <2>10, <3>2, <3>3
      <4> HIDE DEF m, n
      <4>2. m \in 0..(n - 1)
        BY <4>1
      <4> QED BY <4>2 DEF Registered, m, n
    <3> QED BY <2>6, <2>10, <3>4 DEF Lookup
  <2>11. Holds(p)[h] = t
    BY <2>1 DEF t
  <2> QED BY <2>9, <2>10, <2>11 DEF q
<1> QED BY <1>2 DEF KeysAgree

-----------------------------------------------------------------------------
(***************************************************************************)
(* What the code asserts.                                                  *)
(***************************************************************************)
AllOps == CollectiveOps \cup LoopOps \cup SetupOps \cup SeedOps \cup EndOps \cup {"executed"}

LEMMA StepOps ==
  ASSUME NEW a, NEW x \in Steps(a)
  PROVE  x.op \in AllOps
<1>1. CASE x \in PlainSteps
  BY <1>1 DEF PlainSteps, AllOps, CollectiveOps, LoopOps, SetupOps, InitOps, SeedOps, WorkOps, EndOps
<1>2. CASE x \in WorkSteps(a)
  <2>1. x.op \in WorkOps
    BY <1>2 DEF WorkSteps, WorkOps
  <2> QED BY <2>1 DEF AllOps, SeedOps
<1>3. CASE x \in OtherSteps
  <2>1. x.op \in {"configure", "associate", "class", "alloc", "free", "reduce", "print"}
    BY <1>3 DEF OtherSteps
  <2> QED BY <2>1 DEF AllOps, SetupOps, CollectiveOps, EndOps
<1> QED BY <1>1, <1>2, <1>3 DEF Steps

\* Only the library's initialisation is called while it is down, and what needs the
\* collection is called while there is one.
LEMMA PermitsWhen ==
  ASSUME NEW a, NEW p, NEW g, NEW x, NEW h, Goes(a, p, g, x, h), WellFormed(a)
  PROVE  /\ x.op \in InitOps \/ g.ph \in 1..9
         /\ x.op \in {"add", "progress", "start", "get", "search", "associate", "bump"} => g.ph \in {4, 5, 6}
         /\ x.op = "register" => g.ph = 2
         /\ x.op \in {"add", "bump"} => g.ph \in {4, 5} /\ Complete(a, g)
<1>1. x \in Steps(a) /\ Permits(a, p, g, x) /\ g \in Places /\ PlaceOK(a, g)
  BY GoesFacts
<1>2. x.op \in AllOps
  BY <1>1, StepOps
<1>3. /\ x.op \in SeedOps => g.ph \in {4, 5, 7}
      /\ x.op \in {"associate", "configure", "start"} => g.ph = 4
      /\ x.op = "class" => g.ph \in {1, 2, 3, 4}
      /\ x.op = "register" => g.ph = 2
      /\ x.op = "clod_create" => g.ph = 3
      /\ x.op = "executed" => g.ph = 5
      /\ x.op \in LoopOps \ {"start"} => g.ph = 6
      /\ x.op \in {"evaluate", "print", "clod_destroy"} => g.ph = 7
      /\ x.op = "release" => g.ph = 8
      /\ x.op \in CollectiveOps => g.ph \in {1, 2, 3, 4, 7, 8, 9}
  BY <1>1 DEF Permits, CollectiveOps
<1>4. x.op \in SeedOps /\ x.op # "destroy" => g.ph \in {4, 5} /\ (g.ph = 4 => Complete(a, g))
  BY <1>1 DEF Permits
<1>5. g.ph \in {4, 5} /\ (g.ph = 4 => Complete(a, g)) => Complete(a, g)
  BY <1>1 DEF PlaceOK
<1>6. x.op \in InitOps \/ g.ph \in {1, 2, 3, 4, 5, 6, 7, 8, 9}
  BY <1>2, <1>3 DEF AllOps, SetupOps, EndOps, SeedOps, WorkOps
<1>7. x.op \in InitOps \/ g.ph \in 1..9
  <2>1. {1, 2, 3, 4, 5, 6, 7, 8, 9} \subseteq 1..9
    OBVIOUS
  <2> QED BY <1>6, <2>1
<1>8. x.op \in {"add", "progress", "start", "get", "search", "associate", "bump"} => g.ph \in {4, 5, 6}
  BY <1>3, <1>4 DEF LoopOps, SeedOps, WorkOps
<1>9. x.op \in {"add", "bump"} => g.ph \in {4, 5} /\ Complete(a, g)
  BY <1>4, <1>5 DEF SeedOps, WorkOps
<1> QED BY <1>3, <1>7, <1>8, <1>9

\* After project has been called for a node all its children have coefficients.
LEMMA ProjectedGathers ==
  ASSUME NEW a, a.dims \in Nat \ {0}, NEW t, NEW s \in Seq(Nat)
  PROVE  Gathers(a, Project(a, SetChildren(a, t, s), s), s)
<1> DEFINE n == SetChildren(a, t, s)  u == Project(a, n, s)
<1> SUFFICES ASSUME NEW i \in Indices(a) PROVE HasScaling(u[Append(s, i)])
  BY DEF Gathers
<1> DEFINE c == Append(s, i)  children == {Append(s, j) : j \in Indices(a)}  b == Projected(a, n[s].box, Last(c))
<1>1. i \in Nat /\ c \in children
  BY DEF Indices
<1>2. c \in DOMAIN n /\ n[c] = NodeAlloc(Part(a, t[s].box, Last(c)))
  <2>1. n = [d \in children \cup DOMAIN t |-> IF d \in children THEN NodeAlloc(Part(a, t[s].box, Last(d))) ELSE t[d]]
    BY DEF SetChildren
  <2> HIDE DEF children, n, c
  <2> QED BY <1>1, <2>1
<1>3. c # <<>> /\ Front(c) = s
  <2>1. c \in Seq(Nat) /\ Len(c) = Len(s) + 1 /\ Len(s) \in Nat /\ \A j \in 1..Len(s) : c[j] = s[j]
    BY <1>1
  <2>2. SubSeq(c, 1, Len(s)) = s
    BY <2>1
  <2>3. Front(c) = SubSeq(c, 1, Len(c) - 1) /\ Len(c) - 1 = Len(s)
    BY <2>1 DEF Front
  <2>4. c # <<>>
    OBVIOUS
  <2> HIDE DEF c
  <2> QED BY <2>2, <2>3, <2>4
<1>4. u[c] = [n[c] EXCEPT !.scaling = b]
  <2> HIDE DEF n, c
  <2>1. u[c] = IF c # <<>> /\ Front(c) = s THEN [n[c] EXCEPT !.scaling = Projected(a, n[s].box, Last(c))] ELSE n[c]
    BY <1>2 DEF Project
  <2> QED BY <1>3, <2>1
<1>5. u[c].scaling = b
  <2> DEFINE e == n[c]
  <2>1. "scaling" \in DOMAIN e
    BY <1>2 DEF NodeAlloc
  <2>2. u[c] = [e EXCEPT !.scaling = b]
    BY <1>4
  <2> HIDE DEF e, u, c, b
  <2> QED BY <2>1, <2>2
<1>6. b # NoBox
  <2> DEFINE l == n[s].box.level + 1
             at_ == [d \in 1..a.dims |-> 2 * n[s].box.at[d] + ((Last(c) \div Pow2[a.dims - d]) % 2)]
  <2>1. b = [level |-> l, at |-> at_]
    BY DEF Projected, Box
  <2>2. 1 \in DOMAIN at_
    OBVIOUS
  <2> HIDE DEF at_, l, b
  <2>3. b.at = at_
    BY <2>1
  <2>4. NoBox.at = <<>>
    BY DEF NoBox, Box
  <2>5. DOMAIN <<>> = {}
    OBVIOUS
  <2> QED BY <2>2, <2>3, <2>4, <2>5
<1> HIDE DEF u, c, b
<1> QED BY <1>5, <1>6 DEF HasScaling, c

-----------------------------------------------------------------------------
\* What process p does next, and where it is.
LEMMA NextStep ==
  ASSUME NEW g, InvAt(g), NEW p \in Procs, script[p] # <<>>
  PROVE  \E h : Permits(app, p, g[p], Now(p)) /\ Now(p) \in Steps(app) /\ WellFormed(app)
                /\ Goes(app, p, g[p], Now(p), h)
<1>1. OnPath(app, p, script[p], g[p]) /\ WellFormed(app) /\ PlaceOK(app, g[p]) /\ g[p] \in Places
  BY DEF InvAt, Tracked
<1>2. PICK k : k \in Places /\ Moves(app, p, g[p], Head(script[p]), k) /\ Head(script[p]) \in Steps(app)
  BY <1>1, OnPathStep
<1>3. PlaceOK(app, k)
  BY <1>1, <1>2, PlaceMove
<1>4. Goes(app, p, g[p], Now(p), k)
  BY <1>1, <1>2, <1>3 DEF Goes, Now
<1> QED BY <1>1, <1>2, <1>4 DEF Moves, Now

LEMMA TablesHaveRoom ==
  ASSUME NEW g, InvAt(g), NEW p \in Procs, script[p] # <<>>
  PROVE  /\ Now(p).op = "associate" => Len(clod[p]) < GTC_MAX_CLOD_CLOS
         /\ Now(p).op = "class"     => Len(classes[p]) < GTC_MAX_TASK_CLASSES
         /\ Now(p).op = "bump" => \A i \in DOMAIN Now(p).keys : Registered(clod[p], Now(p).keys[i])
<1> DEFINE k == g[p]  x == Now(p)
<1>1. PICK h : Permits(app, p, k, x) /\ x \in Steps(app) /\ WellFormed(app) /\ Goes(app, p, k, x, h)
  BY NextStep
<1>2. LibOf(app, k, up[p], handles[p], prog[p], clod[p], classes[p], terminated[p])
  BY DEF InvAt, InLibrary
<1>3. k \in Places
  BY DEF InvAt, Tracked
<1> HIDE DEF k, x
<1> DEFINE lc == Len(ClassNames(app))  lo == Len(ObjectNames(app))
<1>4. lc \in Nat /\ lo \in Nat /\ lc <= 2 /\ lo <= 3
  BY <1>1, NamesFinite
<1>5. k.classes \in Nat /\ k.objects \in Nat /\ k.ph \in Nat
  BY <1>3 DEF Places
<1>6. classes[p] = Upto(ClassNames(app), k.classes) /\ Len(classes[p]) = k.classes
  <2>1. classes[p] = Upto(ClassNames(app), k.classes)
    BY <1>2 DEF LibOf
  <2> QED BY <1>5, <2>1, UptoFacts
<1>7. k.ph < 8 => Len(clod[p]) = k.objects
  <2>1. clod[p] = IF k.ph >= 8 THEN <<>> ELSE Upto(ObjectNames(app), k.objects)
    BY <1>2 DEF LibOf
  <2>2. k.ph < 8 => clod[p] = Upto(ObjectNames(app), k.objects)
    BY <1>5, <2>1
  <2> QED BY <1>5, <2>2, UptoFacts
<1>8. ASSUME x.op = "associate" PROVE Len(clod[p]) < GTC_MAX_CLOD_CLOS
  <2>1. k.ph = 4 /\ k.objects < lo
    BY <1>1, <1>8 DEF Permits
  <2> HIDE DEF lo
  <2> QED BY <1>4, <1>5, <1>7, <2>1 DEF GTC_MAX_CLOD_CLOS
<1>9. ASSUME x.op = "class" PROVE Len(classes[p]) < GTC_MAX_TASK_CLASSES
  <2>1. k.classes < lc
    BY <1>1, <1>9 DEF Permits
  <2> HIDE DEF lc
  <2> QED BY <1>4, <1>5, <1>6, <2>1 DEF GTC_MAX_TASK_CLASSES
<1>10. ASSUME x.op = "bump", NEW i \in DOMAIN x.keys PROVE Registered(clod[p], x.keys[i])
  <2>1. app.prog = "bpc" /\ x.keys \in {<<0, 1>>, <<0, 2>>}
    BY <1>1, <1>10, StepFacts
  <2>2. k.ph \in {4, 5} /\ Complete(app, k)
    BY <1>1, <1>10, PermitsWhen
  <2>3. k.objects = 3
    <3>1. Len(<<"ntasks", "nproducers", "nconsumers">>) = 3
      OBVIOUS
    <3> QED BY <2>1, <2>2, <3>1 DEF Complete, ObjectNames
  <2>4. x.keys[i] \in {0, 1, 2}
    <3>1. CASE x.keys = <<0, 1>>
      BY <3>1, <1>10
    <3>2. CASE x.keys = <<0, 2>>
      BY <3>2, <1>10
    <3> QED BY <2>1, <3>1, <3>2
  <2> DEFINE m == x.keys[i]  n == Len(clod[p])
  <2>5. n = 3 /\ m \in {0, 1, 2}
    BY <1>7, <2>2, <2>3, <2>4
  <2> HIDE DEF m, n
  <2>6. m \in 0..(n - 1)
    BY <2>5
  <2> QED BY <2>6 DEF Registered, m, n
<1> QED BY <1>8, <1>9, <1>10 DEF x

\* The library is up and the collection there.
LEMMA LibraryThere ==
  ASSUME NEW g, InvAt(g), NEW p \in Procs, script[p] # <<>>
  PROVE  /\ Now(p).op \in {"init", "implicit_init"} \/ up[p] # "down"
         /\ Now(p).op \in {"add", "progress", "start", "get", "search", "associate", "bump"} =>
              prog[p].gtc \in handles[p]
         /\ Now(p).op = "register" => FirstFree(handles[p]) # GTC_MAX_TC
         /\ Now(p).op = "configure" => CfgValid(Now(p).cfg)
         /\ Now(p).op = "add" => ~terminated[p]
<1> DEFINE k == g[p]  x == Now(p)
<1>1. PICK h : Permits(app, p, k, x) /\ x \in Steps(app) /\ WellFormed(app) /\ Goes(app, p, k, x, h)
  BY NextStep
<1>2. LibOf(app, k, up[p], handles[p], prog[p], clod[p], classes[p], terminated[p])
  BY DEF InvAt, InLibrary
<1> HIDE DEF k, x
<1>3. /\ x.op \in InitOps \/ k.ph \in 1..9
      /\ x.op \in {"add", "progress", "start", "get", "search", "associate", "bump"} => k.ph \in {4, 5, 6}
      /\ x.op = "register" => k.ph = 2
      /\ x.op \in {"add", "bump"} => k.ph \in {4, 5}
  BY <1>1, PermitsWhen
<1>4. x.op \in {"init", "implicit_init"} \/ up[p] # "down"
  <2>1. k.ph \in 1..9 => k.ph \notin {0, 10}
    OBVIOUS
  <2>2. k.ph \notin {0, 10} => up[p] # "down"
    BY <1>2 DEF LibOf, UpAt
  <2> QED BY <1>3, <2>1, <2>2 DEF InitOps
<1>5. k.ph \in {4, 5, 6} => prog[p].gtc \in handles[p]
  <2>1. k.ph \in {4, 5, 6} => k.ph \in 3..8
    OBVIOUS
  <2>2. k.ph \in 3..8 => handles[p] = {0} /\ prog[p].gtc = 0
    BY <1>2 DEF LibOf
  <2> QED BY <2>1, <2>2
<1>6. k.ph = 2 => FirstFree(handles[p]) # GTC_MAX_TC
  <2>1. ASSUME k.ph = 2 PROVE handles[p] = {}
    <3>1. k.ph \notin 3..8
      BY <2>1
    <3> QED BY <1>2, <3>1 DEF LibOf
  <2>2. ASSUME k.ph = 2 PROVE FirstFree(handles[p]) = 0
    <3>1. FirstFree(handles[p]) = FirstFree({})
      BY <2>1, <2>2
    <3> QED BY <3>1, LeastFree
  <2> QED BY <2>2 DEF GTC_MAX_TC
<1>7. x.op = "configure" => CfgValid(x.cfg)
  <2>1. x.op = "configure" => x.cfg = CfgInit
    BY <1>1, StepFacts
  <2>2. CfgValid(CfgInit)
    BY DEF CfgValid, CfgInit
  <2> QED BY <2>1, <2>2
<1>8. k.ph \in {4, 5} => ~terminated[p]
  <2>1. terminated[p] <=> k.ph >= 7
    BY <1>2 DEF LibOf
  <2> QED BY <2>1
<1> QED BY <1>3, <1>4, <1>5, <1>6, <1>7, <1>8 DEF x

\* What refine gathers is there.
LEMMA RefineGathers ==
  ASSUME NEW g, InvAt(g), NEW p \in Procs, script[p] # <<>>, Now(p).op = "refine",
         Now(p).box.level \in app.initial_level..app.max_level
  PROVE  Gathers(app, SplitTree(p), IF Now(p).kept THEN Now(p).node ELSE <<>>)
<1> DEFINE x == Now(p)  s == IF x.kept THEN x.node ELSE <<>>  t == Tree(p)  b == x.box
<1>1. x \in Steps(app) /\ WellFormed(app)
  BY NextStep
<1>2. x.node \in Seq(Nat) /\ b \in BoxSet(app)
  BY <1>1, StepFacts
<1>3. app.prog = "mad3d"
  BY <1>2 DEF BoxSet
<1>4. app.dims \in Nat \ {0} /\ app.initial_level \in Nat /\ app.max_level \in Nat
  BY <1>1, <1>3 DEF WellFormed
<1>5. s \in Seq(Nat)
  BY <1>2
<1>6. SplitTree(p) = Project(app, SetChildren(app, t, s), s)
  <2>1. b.level \in app.initial_level..app.max_level
    OBVIOUS
  <2>2. SplitTree(p) = Split(app, t, s, b)
    BY DEF SplitTree
  <2> HIDE DEF t, s, b
  <2>3. ~(b.level > app.max_level) /\ ~(b.level < app.initial_level)
    BY <1>4, <2>1
  <2> QED BY <2>2, <2>3 DEF Split, Coarse
<1> HIDE DEF s, t
<1>7. Gathers(app, SplitTree(p), s)
  BY <1>4, <1>5, <1>6, ProjectedGathers
<1> QED BY <1>7 DEF s

LEMMA DescriptorsApart ==
  ASSUME NEW g, InvAt(g), NEW p \in Procs
  PROVE  DescriptorsExclusive(buffers[p])
<1> DEFINE b == buffers[p]  k == g[p].classes  d == g[p].depth
<1>1. BuffersAt(b, k, d)
  BY DEF InvAt, Buffers
<1> HIDE DEF b, k, d
<1>2. /\ b.spare \in Seq(Nat) /\ Len(b.spare) = k /\ b.held \in Seq(Nat \ {0}) /\ Len(b.held) = d
      /\ \A i, j \in 1..d : b.held[i] = b.held[j] => i = j
      /\ \A i \in 1..k : \A j \in 1..d : b.spare[i] # b.held[j]
  BY <1>1 DEF BuffersAt, Apart
<1>3. DOMAIN b.spare = 1..k /\ DOMAIN b.held = 1..d
  BY <1>2
<1>4. Range(b.held) \cap Range(b.spare) = {}
  BY <1>2, <1>3 DEF Range
<1> QED BY <1>2, <1>3, <1>4 DEF DescriptorsExclusive, b

LEMMA TerminatedEmpty ==
  ASSUME NEW g, InvAt(g), NEW p \in Procs, terminated[p]
  PROVE  queue[p] = <<>>
<1>1. LibOf(app, g[p], up[p], handles[p], prog[p], clod[p], classes[p], terminated[p])
  BY DEF InvAt, InLibrary
<1>2. g[p].ph >= 7
  BY <1>1 DEF LibOf
<1>3. g[p].ph \notin 4..6
  BY <1>2
<1>4. Makers(p) = {}
  BY <1>3 DEF InvAt, Holders
<1>5. queue[p] \in Seq(TaskSet(app))
  BY DEF InvAt, Queues, QueueAt
<1> QED BY <1>4, <1>5, MakersFacts DEF Makers

LEMMA InvNothingAborts ==
  ASSUME Inv
  PROVE  NothingAborts
<1>1. PICK g : InvAt(g)
  BY DEF Inv
<1>2. ASSUME NEW p \in Procs, script[p] # <<>> PROVE Asserts(p)
  <2>1. /\ Now(p).op = "associate" => Len(clod[p]) < GTC_MAX_CLOD_CLOS
        /\ Now(p).op = "class"     => Len(classes[p]) < GTC_MAX_TASK_CLASSES
        /\ Now(p).op = "bump" => \A i \in DOMAIN Now(p).keys : Registered(clod[p], Now(p).keys[i])
    BY <1>1, <1>2, TablesHaveRoom
  <2>2. /\ Now(p).op \in {"init", "implicit_init"} \/ up[p] # "down"
        /\ Now(p).op \in {"add", "progress", "start", "get", "search", "associate", "bump"} =>
             prog[p].gtc \in handles[p]
        /\ Now(p).op = "register" => FirstFree(handles[p]) # GTC_MAX_TC
        /\ Now(p).op = "configure" => CfgValid(Now(p).cfg)
        /\ Now(p).op = "add" => ~terminated[p]
    BY <1>1, <1>2, LibraryThere
  <2>3. (Now(p).op = "refine" /\ Now(p).box.level \in app.initial_level..app.max_level) =>
          Gathers(app, SplitTree(p), IF Now(p).kept THEN Now(p).node ELSE <<>>)
    BY <1>1, <1>2, RefineGathers
  <2>4. DescriptorsExclusive(buffers[p])
    BY <1>1, DescriptorsApart
  <2>5. terminated[p] => queue[p] = <<>>
    BY <1>1, TerminatedEmpty
  <2> QED BY <2>1, <2>2, <2>3, <2>4, <2>5 DEF Asserts
<1> QED BY <1>2 DEF NothingAborts

-----------------------------------------------------------------------------
(***************************************************************************)
(* A strict depth-first search of UTS.  Tasks, and the steps that will add *)
(* some, are on one path of the tree.                                      *)
(***************************************************************************)
PushOps == {"add", "inplace", "fill"}

\* The steps of s by which tasks get into the queue.
Pushes(s) == Picked(s, PushOps)

\* Is task (or step) t for a descendant of u's node?
Deeper(t, u) == IsPrefix(u.body.node, t.body.node) /\ u.body.node # t.body.node

\* The tasks of q are on one path, the deepest at the head.
Line(q) == \A i, j \in 1..Len(q) : i < j => Deeper(q[i], q[j])

\* The steps of a add tasks each of which is deeper than those in q and those added before.
Coming(a, q) ==
  /\ \A i \in 1..Len(a) : a[i].op = "add" /\ \A j \in 1..Len(q) : Deeper(a[i], q[j])
  /\ \A i, j \in 1..Len(a) : i < j => Deeper(a[j], a[i])

\* A process with queue q, claimed tasks c and pushes a before it.
NestedAt(q, c, a) == Line(q) /\ Line(c) /\ (c # <<>> => q = <<>>) /\ Coming(a, q)

Strict == app.prog = "uts" /\ app.strict

Nested == Strict => \A p \in Procs : NestedAt(queue[p], claim[p].tasks, Pushes(script[p]))

\* The members of a part of a sequence.
LEMMA PartMembers ==
  ASSUME NEW S, NEW q \in Seq(S), NEW m \in Int, NEW n \in Int, 1 <= m, n <= Len(q)
  PROVE  /\ Len(SubSeq(q, m, n)) \in Nat
         /\ \A i \in 1..Len(SubSeq(q, m, n)) : m + i - 1 \in 1..Len(q) /\ SubSeq(q, m, n)[i] = q[m + i - 1]
<1> DEFINE t == SubSeq(q, m, n)  k == Len(q)
<1>1. k \in Nat
  BY LenProperties
<1>2. CASE m <= n
  <2>1. Len(t) = n - m + 1 /\ \A i \in 1..(n - m + 1) : t[i] = q[m + i - 1]
    BY <1>2, <1>1
  <2>2. \A i \in 1..(n - m + 1) : m + i - 1 \in 1..k
    BY <1>1
  <2>3. n - m + 1 \in Nat
    BY <1>2
  <2> HIDE DEF t, k
  <2>4. Len(t) \in Nat /\ \A i \in 1..Len(t) : m + i - 1 \in 1..k /\ t[i] = q[m + i - 1]
    BY <2>1, <2>2, <2>3
  <2> QED BY <2>4 DEF t, k
<1>3. CASE m > n
  <2>1. Len(t) = 0
    BY <1>3
  <2> HIDE DEF t, k
  <2>2. Len(t) \in Nat /\ \A i \in 1..Len(t) : m + i - 1 \in 1..k /\ t[i] = q[m + i - 1]
    BY <2>1
  <2> QED BY <2>2 DEF t, k
<1> QED BY <1>2, <1>3

\* Nodes.
LEMMA PrefixMeans ==
  ASSUME NEW s \in Seq(Nat), NEW t \in Seq(Nat)
  PROVE  IsPrefix(s, t) <=> Len(s) <= Len(t) /\ \A i \in 1..Len(s) : s[i] = t[i]
<1> DEFINE m == Len(s)  n == Len(t)
<1>1. m \in Nat /\ n \in Nat /\ DOMAIN s = 1..m /\ s = [i \in 1..m |-> s[i]]
  BY LenProperties
<1>2. ASSUME NEW u \in Seq(Nat), m <= Len(u)
      PROVE  SubSeq(u, 1, m) = [i \in 1..m |-> u[i]]
  BY <1>1, <1>2
<1>3. SubSeq(s, 1, m) = s
  <2>1. SubSeq(s, 1, m) = [i \in 1..m |-> s[i]]
    BY <1>1, <1>2
  <2> HIDE DEF m
  <2> QED BY <1>1, <2>1
<1>4. ASSUME m <= n
      PROVE  IsPrefix(s, t) <=> \A i \in 1..m : s[i] = t[i]
  <2>1. SubSeq(t, 1, m) = [i \in 1..m |-> t[i]]
    BY <1>2, <1>4
  <2>2. IsPrefix(s, t) <=> s = [i \in 1..m |-> t[i]]
    BY <1>3, <1>4, <2>1 DEF IsPrefix
  <2> HIDE DEF m
  <2>3. s = [i \in 1..m |-> t[i]] <=> \A i \in 1..m : s[i] = t[i]
    BY <1>1
  <2> QED BY <2>2, <2>3
<1>5. IsPrefix(s, t) => m <= n
  BY DEF IsPrefix
<1> QED BY <1>4, <1>5

LEMMA PrefixFacts ==
  ASSUME NEW s \in Seq(Nat), NEW t \in Seq(Nat), NEW u \in Seq(Nat), NEW c \in Nat
  PROVE  /\ IsPrefix(s, t) /\ s # t /\ IsPrefix(t, u) /\ t # u => IsPrefix(s, u) /\ s # u
         /\ s \o <<c>> \in Seq(Nat) /\ IsPrefix(s, s \o <<c>>) /\ s # s \o <<c>>
<1> DEFINE k == Len(s)  m == Len(t)  n == Len(u)
<1>1. k \in Nat /\ m \in Nat /\ n \in Nat
  BY LenProperties
<1>2. ASSUME IsPrefix(s, t), s # t, IsPrefix(t, u), t # u
      PROVE  IsPrefix(s, u) /\ s # u
  <2>1. k <= m /\ m <= n /\ (\A i \in 1..k : s[i] = t[i]) /\ (\A i \in 1..m : t[i] = u[i])
    BY <1>2, PrefixMeans
  <2>2. \A i \in 1..k : s[i] = u[i]
    BY <1>1, <2>1
  <2>3. IsPrefix(s, u)
    BY <1>1, <2>1, <2>2, PrefixMeans
  <2>4. ASSUME s = u PROVE FALSE
    <3>1. m = n
      BY <1>1, <2>1, <2>4
    <3>2. t = [i \in 1..m |-> t[i]] /\ u = [i \in 1..n |-> u[i]]
      BY LenProperties
    <3>3. t = u
      <4> HIDE DEF m, n
      <4>1. [i \in 1..m |-> t[i]] = [i \in 1..m |-> u[i]]
        BY <2>1
      <4> QED BY <3>1, <3>2, <4>1
    <3> QED BY <1>2, <3>3
  <2> QED BY <2>3, <2>4
<1>3. s \o <<c>> \in Seq(Nat) /\ Len(s \o <<c>>) = k + 1 /\ \A i \in 1..k : (s \o <<c>>)[i] = s[i]
  OBVIOUS
<1> DEFINE d == s \o <<c>>
<1>4. d \in Seq(Nat) /\ Len(d) = k + 1 /\ \A i \in 1..k : d[i] = s[i]
  BY <1>3
<1> HIDE DEF d
<1>5. IsPrefix(s, d) /\ s # d
  <2>1. k <= k + 1 /\ k # k + 1
    BY <1>1
  <2>2. IsPrefix(s, d)
    BY <1>4, <2>1, PrefixMeans
  <2> QED BY <1>4, <2>1, <2>2
<1> QED BY <1>2, <1>4, <1>5 DEF d

\* Lines.
LEMMA LineFacts ==
  ASSUME NEW S, NEW q \in Seq(S), Line(q)
  PROVE  /\ q # <<>> => Line(Tail(q)) /\ \A j \in 1..Len(Tail(q)) : Deeper(Head(q), Tail(q)[j])
         /\ \A m, n \in Int : 1 <= m /\ n <= Len(q) => Line(SubSeq(q, m, n))
<1>1. ASSUME q # <<>> PROVE Line(Tail(q)) /\ \A j \in 1..Len(Tail(q)) : Deeper(Head(q), Tail(q)[j])
  <2> DEFINE t == Tail(q)  n == Len(q)
  <2>1. n \in Nat \ {0} /\ Len(t) = n - 1 /\ Head(q) = q[1] /\ \A i \in 1..(n - 1) : t[i] = q[i+1]
    BY <1>1, TailMembers
  <2>2. \A i, j \in 1..n : i < j => Deeper(q[i], q[j])
    BY DEF Line
  <2> HIDE DEF t, n
  <2>3. ASSUME NEW i \in 1..(n - 1), NEW j \in 1..(n - 1), i < j PROVE Deeper(t[i], t[j])
    <3>1. i + 1 \in 1..n /\ j + 1 \in 1..n /\ i + 1 < j + 1
      BY <2>1, <2>3
    <3>2. Deeper(q[i+1], q[j+1])
      BY <3>1, <2>2
    <3> QED BY <2>1, <3>2
  <2>4. ASSUME NEW j \in 1..(n - 1) PROVE Deeper(q[1], t[j])
    <3>1. 1 \in 1..n /\ j + 1 \in 1..n /\ 1 < j + 1
      BY <2>1
    <3>2. Deeper(q[1], q[j+1])
      BY <3>1, <2>2
    <3> QED BY <2>1, <3>2
  <2>5. Line(t) /\ \A j \in 1..Len(t) : Deeper(Head(q), t[j])
    BY <2>1, <2>3, <2>4 DEF Line
  <2> QED BY <2>5 DEF t
<1>2. ASSUME NEW m \in Int, NEW n \in Int, 1 <= m, n <= Len(q)
      PROVE  Line(SubSeq(q, m, n))
  <2> DEFINE t == SubSeq(q, m, n)  k == Len(q)  l == Len(t)
  <2>1. l \in Nat /\ \A i \in 1..l : m + i - 1 \in 1..k /\ t[i] = q[m + i - 1]
    BY <1>2, PartMembers
  <2>2. \A i, j \in 1..k : i < j => Deeper(q[i], q[j])
    BY DEF Line
  <2> HIDE DEF t, k, l
  <2>3. ASSUME NEW i \in 1..l, NEW j \in 1..l, i < j PROVE Deeper(t[i], t[j])
    <3>0. m + i - 1 < m + j - 1
      <4>1. l \in Nat
        BY <2>1
      <4> QED BY <2>3, <4>1
    <3>1. m + i - 1 \in 1..k /\ m + j - 1 \in 1..k /\ m + i - 1 < m + j - 1
      BY <2>1, <3>0
    <3>2. Deeper(q[m + i - 1], q[m + j - 1])
      BY <3>1, <2>2
    <3> QED BY <2>1, <3>2
  <2>4. Line(t)
    BY <2>3 DEF Line, l
  <2> QED BY <2>4 DEF t
<1> QED BY <1>1, <1>2
-----------------------------------------------------------------------------
\* A push of the next of the tasks that come.
LEMMA NestedPush ==
  ASSUME NEW S, NEW q \in Seq(S), NEW t \in S, NEW T, NEW a \in Seq(T), a # <<>>,
         NestedAt(q, <<>>, a), t.body = Head(a).body
  PROVE  Head(a).op = "add" /\ NestedAt(<<t>> \o q, <<>>, Tail(a))
<1> DEFINE b == Tail(a)  m == Len(a)  k == Len(q)  w == <<t>> \o q
<1>1. /\ m \in Nat \ {0} /\ Len(b) = m - 1 /\ Head(a) = a[1] /\ \A i \in 1..(m - 1) : b[i] = a[i+1]
  BY TailMembers
<1>2. k \in Nat /\ Len(w) = k + 1 /\ w[1] = t /\ \A i \in 2..(k + 1) : w[i] = q[i-1]
  OBVIOUS
<1>3. /\ \A i, j \in 1..k : i < j => Deeper(q[i], q[j])
      /\ \A i \in 1..m : a[i].op = "add" /\ \A j \in 1..k : Deeper(a[i], q[j])
      /\ \A i, j \in 1..m : i < j => Deeper(a[j], a[i])
  BY DEF NestedAt, Line, Coming
<1>4. t.body = a[1].body
  BY <1>1
<1> HIDE DEF b, m, k, w
<1>5. a[1].op = "add" /\ \A j \in 1..k : Deeper(t, q[j])
  <2>1. 1 \in 1..m
    BY <1>1
  <2> QED BY <2>1, <1>3, <1>4 DEF Deeper
<1>6. \A i \in 1..(m - 1) : i + 1 \in 1..m /\ 1 \in 1..m /\ 1 < i + 1
  BY <1>1
<1>7. ASSUME NEW i \in 1..(m - 1) PROVE b[i].op = "add" /\ Deeper(b[i], t) /\ \A j \in 1..k : Deeper(b[i], q[j])
  <2>1. b[i] = a[i+1] /\ i + 1 \in 1..m /\ 1 \in 1..m /\ 1 < i + 1
    BY <1>1, <1>6
  <2>2. Deeper(a[i+1], a[1])
    BY <2>1, <1>3
  <2>3. Deeper(a[i+1], t)
    BY <2>2, <1>4 DEF Deeper
  <2>4. a[i+1].op = "add" /\ \A j \in 1..k : Deeper(a[i+1], q[j])
    BY <2>1, <1>3
  <2> QED BY <2>1, <2>3, <2>4
<1>8. \A j \in 1..(k + 1) : j = 1 \/ (j \in 2..(k + 1) /\ j - 1 \in 1..k)
  BY <1>2
<1>9. ASSUME NEW i \in 1..(k + 1), NEW j \in 1..(k + 1), i < j PROVE Deeper(w[i], w[j])
  <2>1. j \in 2..(k + 1) /\ j - 1 \in 1..k /\ w[j] = q[j-1]
    BY <1>2, <1>8, <1>9
  <2>2. CASE i = 1
    BY <2>1, <2>2, <1>2, <1>5
  <2>3. CASE i # 1
    <3>1. i - 1 \in 1..k /\ i - 1 < j - 1 /\ w[i] = q[i-1]
      BY <2>3, <1>2, <1>8, <1>9
    <3> QED BY <3>1, <2>1, <1>3
  <2> QED BY <2>2, <2>3
<1>10. ASSUME NEW i \in 1..(m - 1), NEW j \in 1..(k + 1) PROVE Deeper(b[i], w[j])
  <2>1. CASE j = 1
    BY <2>1, <1>2, <1>7
  <2>2. CASE j # 1
    <3>1. j - 1 \in 1..k /\ w[j] = q[j-1]
      BY <2>2, <1>2, <1>8
    <3> QED BY <3>1, <1>7
  <2> QED BY <2>1, <2>2
<1>11. ASSUME NEW i \in 1..(m - 1), NEW j \in 1..(m - 1), i < j PROVE Deeper(b[j], b[i])
  <2>1. i + 1 \in 1..m /\ j + 1 \in 1..m /\ i + 1 < j + 1
    BY <1>6, <1>11, <1>1
  <2>2. Deeper(a[j+1], a[i+1])
    BY <2>1, <1>3
  <2> QED BY <2>2, <1>1
<1>12. Line(w)
  BY <1>2, <1>9 DEF Line
<1>13. Coming(b, w)
  BY <1>1, <1>2, <1>7, <1>10, <1>11 DEF Coming
<1>14. Line(<<>>)
  BY DEF Line
<1>15. NestedAt(w, <<>>, b)
  BY <1>12, <1>13, <1>14 DEF NestedAt
<1> QED BY <1>1, <1>5, <1>15 DEF w, b

\* Tasks are taken from the tail.
LEMMA NestedPart ==
  ASSUME NEW S, NEW q \in Seq(S), q # <<>>, NEW c, NEW a, NestedAt(q, c, a), NEW m \in Int, NEW n \in Int,
         1 <= m, n <= Len(q)
  PROVE  NestedAt(SubSeq(q, m, n), c, a)
<1> DEFINE t == SubSeq(q, m, n)  k == Len(q)  l == Len(t)
<1>1. l \in Nat /\ \A i \in 1..l : m + i - 1 \in 1..k /\ t[i] = q[m + i - 1]
  BY PartMembers
<1>2. c = <<>> /\ Line(c) /\ Line(q) /\ Coming(a, q)
  BY DEF NestedAt
<1>3. Line(t)
  BY <1>2, LineFacts
<1>4. Coming(a, t)
  <2>1. /\ \A i \in 1..Len(a) : a[i].op = "add" /\ \A j \in 1..k : Deeper(a[i], q[j])
        /\ \A i, j \in 1..Len(a) : i < j => Deeper(a[j], a[i])
    BY <1>2 DEF Coming
  <2> HIDE DEF t, k, l
  <2>2. ASSUME NEW i \in 1..Len(a), NEW j \in 1..l PROVE Deeper(a[i], t[j])
    <3>1. m + j - 1 \in 1..k /\ t[j] = q[m + j - 1]
      BY <1>1
    <3> QED BY <3>1, <2>1
  <2> QED BY <2>1, <2>2 DEF Coming, l
<1> QED BY <1>2, <1>3, <1>4 DEF NestedAt

LEMMA NestedNothing ==
  ASSUME NEW q
  PROVE  Coming(<<>>, q) /\ Line(<<>>)
BY DEF Coming, Line

\* What the task at the head adds is deeper than the others.
LEMMA NestedPop ==
  ASSUME NEW a, a.prog = "uts", WellFormed(a), NEW q \in Seq(TaskSet(a)), q # <<>>, Line(q),
         NEW v, LET it == Head(q).body
                IN  \/ v = <<>>
                    \/ HasNext(a, it) /\ v = <<Add(1, Child(it))>>
                    \/ HasNext(a, it) /\ v = <<Add(1, Advanced(it)), Add(1, Child(it))>>
  PROVE  NestedAt(Tail(q), <<>>, v)
<1> DEFINE t == Head(q)  it == t.body  r == Tail(q)  s == it.node  c == Child(it)  d == Advanced(it)
<1>0. v \in {<<>>, <<Add(1, c)>>, <<Add(1, d), Add(1, c)>>}
  OBVIOUS
<1>s. t.body.node = s
  OBVIOUS
<1>1. t \in TaskSet(a) /\ r \in Seq(TaskSet(a)) /\ Line(r) /\ \A j \in 1..Len(r) : Deeper(t, r[j])
  BY LineFacts
<1>2. \A u \in TaskSet(a) : u.body \in Bodies(a)
  BY DEF TaskSet
<1>3. \A b \in Bodies(a) : b.node \in Seq(Nat) /\ b.current_child \in Nat /\ b = [node |-> b.node, current_child |-> b.current_child]
  BY DEF Bodies, NodeSet, WellFormed
<1>4. it \in Bodies(a) /\ s \in Seq(Nat) /\ it.current_child \in Nat
  BY <1>1, <1>2, <1>3
<1>5. c.node = s \o <<it.current_child>>
  BY DEF Child, Iterator
<1>6. d.node = s
  <2>1. it = [node |-> s, current_child |-> it.current_child]
    BY <1>3, <1>4
  <2>2. [it EXCEPT !.current_child = @ + 1].node = s
    BY <2>1
  <2> QED BY <2>2 DEF Advanced
<1>7. \A j \in 1..Len(r) : r[j].body.node \in Seq(Nat)
  BY <1>1, <1>2, <1>3
<1> DEFINE kid == Add(1, c)  more == Add(1, d)
<1>8. kid.op = "add" /\ kid.body = c /\ more.op = "add" /\ more.body = d
  BY DEF Add
<1> HIDE DEF kid, more, c, d, r, t, it
<1>9. /\ IsPrefix(s, c.node) /\ s # c.node /\ c.node \in Seq(Nat)
  BY <1>4, <1>5, PrefixFacts
<1>10. \A j \in 1..Len(r) : Deeper(more, r[j])
  BY <1>1, <1>6, <1>8, <1>s DEF Deeper
<1>11. ASSUME NEW j \in 1..Len(r) PROVE Deeper(kid, r[j])
  <2> DEFINE z == r[j].body.node
  <2>1. z \in Seq(Nat) /\ IsPrefix(z, s) /\ z # s
    BY <1>1, <1>7, <1>s DEF Deeper
  <2> HIDE DEF z
  <2>2. IsPrefix(z, c.node) /\ z # c.node
    BY <2>1, <1>4, <1>9, PrefixFacts
  <2> QED BY <2>2, <1>8 DEF Deeper, z
<1>12. Deeper(kid, more)
  BY <1>6, <1>8, <1>9 DEF Deeper
<1>13. Coming(<<kid>>, r)
  <2> DEFINE w == <<kid>>
  <2>1. Len(w) = 1 /\ w[1] = kid
    OBVIOUS
  <2> HIDE DEF w
  <2>2. \A i \in 1..Len(w) : w[i] = kid /\ i = 1
    BY <2>1
  <2>3. Coming(w, r)
    BY <2>2, <1>8, <1>11 DEF Coming
  <2> QED BY <2>3 DEF w
<1>14. Coming(<<more, kid>>, r)
  <2> DEFINE w == <<more, kid>>
  <2>1. Len(w) = 2 /\ w[1] = more /\ w[2] = kid
    OBVIOUS
  <2> HIDE DEF w
  <2>2. \A i \in 1..Len(w) : (i = 1 /\ w[i] = more) \/ (i = 2 /\ w[i] = kid)
    BY <2>1
  <2>3. \A i, j \in 1..Len(w) : i < j => w[i] = more /\ w[j] = kid
    BY <2>2
  <2>4. \A i \in 1..Len(w) : w[i].op = "add" /\ \A j \in 1..Len(r) : Deeper(w[i], r[j])
    BY <2>2, <1>8, <1>10, <1>11
  <2>5. Coming(w, r)
    BY <2>3, <2>4, <1>12 DEF Coming
  <2> QED BY <2>5 DEF w
<1>15. Coming(v, r) /\ Line(<<>>)
  BY <1>0, <1>13, <1>14, NestedNothing DEF kid, more
<1> QED BY <1>1, <1>15 DEF NestedAt, r

LEMMA CatOfOnes ==
  ASSUME NEW S, NEW x \in S, NEW y \in S
  PROVE  <<x>> \o <<y>> = <<x, y>> /\ <<>> \o <<y>> = <<y>>
<1>1. <<x>> \in Seq(S) /\ <<y>> \in Seq(S) /\ <<x, y>> \in Seq(S)
  OBVIOUS
<1>2. <<x>> \o <<y>> = <<x, y>>
  BY CatTwo, Zenon DEF Cat
<1>3. <<>> \o <<y>> = <<y>>
  BY <1>1, ConcatEmptySeq
<1> QED BY <1>2, <1>3

\* What is pushed by a task.
LEMMA StrictPushes ==
  ASSUME NEW a, a.prog = "uts", WellFormed(a), NEW it \in Bodies(a)
  PROVE  \/ Pushes(StrictDfsTask(a, it)) = <<>>
         \/ HasNext(a, it) /\ Pushes(StrictDfsTask(a, it)) = <<Add(1, Child(it))>>
         \/ HasNext(a, it) /\ Pushes(StrictDfsTask(a, it)) = <<Add(1, Advanced(it)), Add(1, Child(it))>>
<1> DEFINE rest == Advanced(it)  S == Steps(a)
           later == IF HasNext(a, rest) THEN <<Add(1, rest)>> ELSE ProcessNode(it)
           some  == IF HasNext(a, it) THEN later \o <<Add(1, Child(it))>> ELSE ProcessNode(it)
           cr == Create(1)  de == Destroy(1)  ad == Add(1, rest)  ch == Add(1, Child(it))  vi == ProcessNode(it)
<1>1. /\ cr \in S /\ de \in S /\ cr.op \notin PushOps /\ de.op \notin PushOps
  BY DEF Create, Destroy, Steps, WorkSteps, Classes, PushOps
<1>2. ad \in S /\ ad.op \in PushOps /\ (HasNext(a, it) => ch \in S) /\ ch.op \in PushOps
  <2>1. rest \in Bodies(a) /\ (HasNext(a, it) => Child(it) \in Bodies(a))
    BY UtsChild
  <2> HIDE DEF rest
  <2> QED BY <2>1 DEF Add, Steps, WorkSteps, Classes, PushOps
<1>3. vi \in Seq(S) /\ Pushes(vi) = <<>>
  <2> DEFINE x == [op |-> "visit", node |-> it.node]
  <2>1. x \in S /\ x.op \notin PushOps
    BY DEF Bodies, NodeSet, Steps, WorkSteps, PushOps
  <2> HIDE DEF x
  <2>2. <<x>> \in Seq(S) /\ Pushes(<<x>>) = <<>>
    BY <2>1, SingleSeq, PickedBasic DEF Pushes
  <2> QED BY <2>2 DEF ProcessNode, x
<1>4. StrictDfsTask(a, it) = (<<cr>> \o some) \o <<de>>
  BY Zenon DEF StrictDfsTask, ChildOnTop
<1> HIDE DEF S, cr, de, ad, ch, vi, rest
<1>5. /\ <<cr>> \in Seq(S) /\ <<de>> \in Seq(S) /\ Pushes(<<cr>>) = <<>> /\ Pushes(<<de>>) = <<>>
      /\ <<ad>> \in Seq(S) /\ Pushes(<<ad>>) = <<ad>>
      /\ HasNext(a, it) => <<ch>> \in Seq(S) /\ Pushes(<<ch>>) = <<ch>>
  BY <1>1, <1>2, PickedBasic, SingleSeq DEF Pushes
<1>6. \A u, w \in Seq(S) : u \o w \in Seq(S) /\ Pushes(u \o w) = Pushes(u) \o Pushes(w) /\ Pushes(u) \in Seq(S)
  <2> SUFFICES ASSUME NEW u \in Seq(S), NEW w \in Seq(S)
               PROVE  u \o w \in Seq(S) /\ Pushes(u \o w) = Pushes(u) \o Pushes(w) /\ Pushes(u) \in Seq(S)
    OBVIOUS
  <2>1. u \o w \in Seq(S)
    BY CatType, Zenon DEF Cat
  <2>2. Picked(u \o w, PushOps) = Picked(u, PushOps) \o Picked(w, PushOps)
    BY PickedConcat
  <2>3. Picked(u, PushOps) \in Seq(S)
    BY <1>1, PickedBasic
  <2> QED BY <2>1, <2>2, <2>3 DEF Pushes
<1>7. later \in Seq(S) /\ Pushes(later) \in {<<>>, <<ad>>}
  BY <1>3, <1>5 DEF ad, vi
<1> HIDE DEF later
<1>8. /\ some \in Seq(S)
      /\ ~HasNext(a, it) => Pushes(some) = <<>>
      /\ HasNext(a, it) => Pushes(some) \in {<<ch>>, <<ad, ch>>}
  <2>1. CASE ~HasNext(a, it)
    BY <2>1, <1>3 DEF vi
  <2>2. CASE HasNext(a, it)
    <3>1. some = later \o <<ch>>
      BY <2>2 DEF ch
    <3> HIDE DEF some
    <3>2. some \in Seq(S) /\ Pushes(some) = Pushes(later) \o <<ch>>
      <4> DEFINE z == <<ch>>
      <4>1. z \in Seq(S) /\ Pushes(z) = z /\ some = later \o z
        BY <2>2, <3>1, <1>5
      <4> HIDE DEF z
      <4>2. later \o z \in Seq(S) /\ Pushes(later \o z) = Pushes(later) \o Pushes(z)
        BY <4>1, <1>6, <1>7
      <4>3. some \in Seq(S) /\ Pushes(some) = Pushes(later) \o z
        BY <4>1, <4>2
      <4> QED BY <4>3 DEF z
    <3>3. Pushes(some) \in {<<ch>>, <<ad, ch>>}
      <4>1. <<>> \o <<ch>> = <<ch>> /\ <<ad>> \o <<ch>> = <<ad, ch>>
        BY <1>2, <2>2, CatOfOnes
      <4> QED BY <3>2, <1>7, <4>1
    <3> QED BY <2>2, <3>2, <3>3
  <2> QED BY <2>1, <2>2
<1> HIDE DEF some
<1>9. Pushes(StrictDfsTask(a, it)) = Pushes(some)
  <2>1. <<cr>> \o some \in Seq(S) /\ Pushes(<<cr>> \o some) = <<>> \o Pushes(some) /\ Pushes(some) \in Seq(S)
    BY <1>5, <1>6, <1>8
  <2>2. Pushes((<<cr>> \o some) \o <<de>>) = (<<>> \o Pushes(some)) \o <<>>
    BY <2>1, <1>5, <1>6
  <2>3. (<<>> \o Pushes(some)) \o <<>> = Pushes(some)
    BY <2>1, ConcatEmptySeq
  <2> QED BY <2>2, <2>3, <1>4
<1>10. CASE ~HasNext(a, it)
  BY <1>8, <1>9, <1>10
<1>11. CASE HasNext(a, it)
  BY <1>8, <1>9, <1>11 DEF ad, ch, rest
<1> QED BY <1>10, <1>11
-----------------------------------------------------------------------------
\* After the loop of gtc_process no tasks are added any more.
LEMMA PushesBeforeEnd ==
  ASSUME NEW a, NEW p, NEW g, NEW x, NEW h, <<g, x, h>> \in Protocol(a, p), g.ph \in {7, 8, 9, 10}
  PROVE  x.op \notin PushOps /\ h.ph \in {7, 8, 9, 10}
<1>1. g \in Places /\ h \in Places /\ Moves(a, p, g, x, h)
  BY DEF Protocol
<1>2. Permits(a, p, g, x) /\ h.ph = PhaseAfter(g.ph, x.op)
  BY <1>1 DEF Moves
<1>3. x.op \notin PushOps
  BY <1>2 DEF Permits, SeedOps, WorkOps, PushOps
<1>4. x.op \notin {"init", "implicit_init", "register", "clod_create", "executed"}
  BY <1>2 DEF Permits
<1>5. h.ph \in {7, 8, 9, 10}
  BY <1>2, <1>4 DEF PhaseAfter
<1> QED BY <1>3, <1>5

LEMMA NeverPushes ==
  ASSUME NEW a, NEW p, NEW s \in Seq(Steps(a)), NEW g, NEW h, Path(Protocol(a, p), s, g, h),
         g.ph \in {7, 8, 9, 10}
  PROVE  Pushes(s) = <<>>
<1>1. PICK f : f[0] = g /\ f[Len(s)] = h /\ Runs(Protocol(a, p), s, f)
  BY DEF Path
<1> DEFINE m == Len(s)
<1>2. m \in Nat /\ DOMAIN s = 1..m
  BY LenProperties
<1>3. \A i \in 1..m : <<f[i-1], s[i], f[i]>> \in Protocol(a, p)
  BY <1>1 DEF Runs
<1> HIDE DEF m
<1> DEFINE A == {j \in Nat : j <= m => f[j].ph \in {7, 8, 9, 10}}
<1>4. 0 \in A
  BY <1>1
<1>5. ASSUME NEW j \in Nat, j \in A PROVE j + 1 \in A
  <2> SUFFICES ASSUME j + 1 <= m PROVE f[j+1].ph \in {7, 8, 9, 10}
    OBVIOUS
  <2> DEFINE k == j + 1
  <2>1. k \in 1..m /\ k - 1 = j /\ j <= m
    BY <1>2
  <2>2. f[j].ph \in {7, 8, 9, 10}
    BY <1>5, <2>1
  <2> HIDE DEF A, k
  <2>3. <<f[k-1], s[k], f[k]>> \in Protocol(a, p)
    BY <2>1, <1>3
  <2>4. f[k].ph \in {7, 8, 9, 10}
    BY <2>1, <2>2, <2>3, PushesBeforeEnd
  <2> QED BY <2>4 DEF k
<1> HIDE DEF A
<1>6. Nat \subseteq A
  BY <1>4, <1>5, SetInduction
<1>7. ASSUME NEW i \in 1..m PROVE s[i].op \notin PushOps
  <2>1. i - 1 \in Nat /\ i - 1 <= m
    BY <1>2
  <2>2. f[i-1].ph \in {7, 8, 9, 10}
    BY <1>6, <2>1 DEF A
  <2>3. <<f[i-1], s[i], f[i]>> \in Protocol(a, p)
    BY <1>3
  <2> QED BY <2>2, <2>3, PushesBeforeEnd
<1>8. \A i \in DOMAIN s : s[i].op \notin PushOps
  BY <1>2, <1>7
<1> QED BY <1>8, PickedNone DEF Pushes

LEMMA LoopPushes ==
  ASSUME NEW a, a.prog = "uts", NEW p \in Procs, NEW s, NEW h, OnPath(a, p, s, h), s # <<>>,
         Head(s).op \in LoopOps
  PROVE  Pushes(Tail(s)) = <<>>
<1> DEFINE x == Head(s)  t == Tail(s)
<1>1. PICK k : k \in Places /\ Moves(a, p, h, x, k) /\ OnPath(a, p, After(a, x, t), k)
  BY OnPathStep
<1>2. k.ph = 7
  BY <1>1 DEF Moves, PhaseAfter, LoopOps
<1>3. After(a, x, t) = t /\ Whole(a, t, k) = t
  BY Zenon DEF After, Whole
<1>4. t \in Seq(Steps(a))
  BY OnPathWhole
<1>5. PICK e : Path(Protocol(a, p), t, k, e)
  BY <1>1, <1>3 DEF OnPath
<1> HIDE DEF x, t
<1>6. Pushes(t) = <<>>
  BY <1>2, <1>4, <1>5, NeverPushes
<1> QED BY <1>6 DEF t

\* What is pushed by a call's steps and those after it, and by a step and those after it.
LEMMA PushesCat ==
  ASSUME NEW S, NEW u \in Seq(S), NEW t \in Seq(S)
  PROVE  /\ Pushes(u) \in Seq(S) /\ Pushes(<<>>) = <<>> /\ u \o t \in Seq(S)
         /\ Pushes(u) = <<>> => Pushes(u \o t) = Pushes(t)
         /\ Pushes(t) = <<>> => Pushes(u \o t) = Pushes(u)
<1>1. Pushes(u) \in Seq(S) /\ Pushes(t) \in Seq(S) /\ Pushes(<<>>) = <<>>
  <2>1. ASSUME NEW w \in Seq(S) PROVE Picked(w, PushOps) \in Seq(S)
    <3>1. CASE S = {}
      <4>1. w = <<>>
        BY <3>1
      <4> QED BY <4>1, PickedEmpty
    <3>2. CASE S # {}
      BY <3>2, PickedBasic
    <3> QED BY <3>1, <3>2
  <2> QED BY <2>1, PickedEmpty DEF Pushes
<1>2. Pushes(u \o t) = Pushes(u) \o Pushes(t)
  BY PickedConcat DEF Pushes
<1>3. u \o t \in Seq(S)
  BY CatType DEF Cat
<1>4. Pushes(u) \o <<>> = Pushes(u) /\ <<>> \o Pushes(t) = Pushes(t)
  BY <1>1, ConcatEmptySeq
<1> QED BY <1>1, <1>2, <1>3, <1>4

LEMMA PushesNow ==
  ASSUME NEW S, NEW s \in Seq(S), s # <<>>
  PROVE  /\ Head(s).op \notin PushOps => Pushes(Tail(s)) = Pushes(s)
         /\ Head(s).op \in PushOps => /\ Pushes(s) \in Seq(S) /\ Pushes(s) # <<>> /\ Head(Pushes(s)) = Head(s)
                                      /\ Tail(Pushes(s)) = Pushes(Tail(s))
<1>1. Head(s) \in S /\ Tail(s) \in Seq(S)
  BY HeadAndTail
<1> DEFINE x == Head(s)  r == Picked(Tail(s), PushOps)
<1>2. /\ x.op \in PushOps => Picked(s, PushOps) = <<x>> \o r
      /\ x.op \notin PushOps => Picked(s, PushOps) = r
  BY PickedTail
<1>3. x \in S /\ r \in Seq(S) /\ Picked(s, PushOps) \in Seq(S)
  BY <1>1, PickedBasic
<1> HIDE DEF x, r
<1>4. <<x>> \o r # <<>> /\ Head(<<x>> \o r) = x /\ Tail(<<x>> \o r) = r
  <2>1. <<x>> \in Seq(S) /\ <<x>> # <<>> /\ Head(<<x>>) = x /\ Tail(<<x>>) = <<>>
    BY <1>3, SingleSeq
  <2>2. <<x>> \o r # <<>> /\ Head(<<x>> \o r) = Head(<<x>>) /\ Tail(<<x>> \o r) = Tail(<<x>>) \o r
    BY <1>3, <2>1, HeadOfConcat
  <2>3. <<>> \o r = r
    BY <1>3, ConcatEmptySeq
  <2> QED BY <2>1, <2>2, <2>3
<1> QED BY <1>2, <1>3, <1>4 DEF Pushes, x, r

\* The main program adds the root, or nothing.
LEMMA MainPushes ==
  ASSUME NEW a, a.prog = "uts", WellFormed(a), NEW p \in Procs
  PROVE  Pushes(Main(a, p)) \in {<<>>, <<Add(1, Iterator(<<>>))>>}
<1> DEFINE f == IF a.strict THEN "strict_dfs_task_fcn" ELSE "task_fcn"  S == Steps(a)
           K == <<Class(f)>>  C == <<Create(1)>>  D == <<Destroy(1)>>  B == <<Barrier>>
           R == <<Reduce("sum", <<"nNodes", "nLeaves">>), Reduce("max", <<"maxDepth">>)>>
           s1 == IF p = 0 THEN UtsSeed ELSE <<>>
           I == GtcInit  J == GtcCreate(CfgInit)  L == GtcProcess  P == GtcPrintStats(N, p, FALSE)
           E == GtcDestroy  F == GtcFini
<1>1. K \in Seq(S) /\ C \in Seq(S) /\ D \in Seq(S) /\ R \in Seq(S) /\ B \in Seq(S)
      /\ I \in Seq(S) /\ J \in Seq(S) /\ L \in Seq(S) /\ E \in Seq(S) /\ F \in Seq(S)
  <2>1. f \in FcnNames
    BY DEF FcnNames
  <2>3. <<"nNodes", "nLeaves">> \in ReduceVars /\ <<"maxDepth">> \in ReduceVars
    BY DEF ReduceVars
  <2> HIDE DEF f
  <2> QED BY <2>1, <2>3, PiecesMade, CallsMade
<1>2. s1 \in Seq(S) /\ Pushes(s1) \in {<<>>, <<Add(1, Iterator(<<>>))>>}
  <2> DEFINE x == Add(1, Iterator(<<>>))
  <2>1. x \in S
    <3>1. Iterator(<<>>) \in Bodies(a)
      BY DEF Iterator, Bodies, NodeSet, WellFormed
    <3> QED BY <3>1 DEF Add, Steps, WorkSteps, Classes
  <2>2. x.op \in PushOps
    BY DEF Add, PushOps
  <2> HIDE DEF x, S
  <2>3. <<x>> \in Seq(S) /\ <<>> \in Seq(S)
    BY <2>1, SingleSeq
  <2>4. Pushes(<<x>>) = <<x>> /\ Pushes(<<>>) = <<>>
    BY <2>1, <2>2, <2>3, PickedBasic DEF Pushes
  <2> QED BY <2>3, <2>4 DEF UtsSeed, x
<1>3. Pushes(K) = <<>> /\ Pushes(C) = <<>> /\ Pushes(D) = <<>> /\ Pushes(R) = <<>> /\ Pushes(B) = <<>>
      /\ Pushes(I) = <<>> /\ Pushes(L) = <<>> /\ Pushes(F) = <<>>
  <2>1. /\ Ops(K) \cap PushOps = {} /\ Ops(C) \cap PushOps = {} /\ Ops(D) \cap PushOps = {}
        /\ Ops(R) \cap PushOps = {} /\ Ops(B) \cap PushOps = {}
    BY DEF Ops, PushOps, Class, Create, Destroy, Reduce, Barrier, Step
  <2>2. Ops(I) \cap PushOps = {} /\ Ops(L) \cap PushOps = {} /\ Ops(F) \cap PushOps = {}
    BY DEF Ops, PushOps, GtcInit, GtcProcess, GtcFini, Barrier, Step
  <2> HIDE DEF K, C, D, R, B, I, L, F, S
  <2> QED BY <1>1, <2>1, <2>2, PickedOthers DEF Pushes
<1>4. Pushes(J) = <<>>
  <2> DEFINE A1 == <<Step("implicit_init"), Alloc(TcBlock), Step("register"), Step("clod_create")>>
             A2 == TdCreate  A3 == <<[op |-> "configure", cfg |-> CfgInit]>>  A4 == QueueCreate
  <2>1. J = ((A1 \o A2) \o A3) \o A4
    BY Zenon DEF GtcCreate
  <2>2. Ops(A1) \cap PushOps = {} /\ Ops(A2) \cap PushOps = {} /\ Ops(A3) \cap PushOps = {} /\ Ops(A4) \cap PushOps = {}
    BY DEF Ops, PushOps, Step, Alloc, TdCreate, QueueCreate, Barrier
  <2>3. A1 \in Seq(S) /\ A2 \in Seq(S) /\ A3 \in Seq(S) /\ A4 \in Seq(S)
    <3>1. \A o \in {"implicit_init", "register", "clod_create"} : Step(o) \in S
      BY DEF Step, Steps, PlainSteps, InitOps
    <3>2. Alloc(TcBlock) \in S /\ Alloc(TdBlock) \in S /\ Alloc(RingBlock) \in S /\ Alloc(LockBlock) \in S
      BY DEF Alloc, Steps, OtherSteps, Blocks
    <3>3. [op |-> "configure", cfg |-> CfgInit] \in S /\ Barrier \in S
      BY StepNames DEF Steps, OtherSteps
    <3> HIDE DEF S
    <3> QED BY <3>1, <3>2, <3>3 DEF TdCreate, QueueCreate
  <2> HIDE DEF A1, A2, A3, A4, S, J
  <2>4. Pushes(A1) = <<>> /\ Pushes(A2) = <<>> /\ Pushes(A3) = <<>> /\ Pushes(A4) = <<>>
    BY <2>2, <2>3, PickedOthers DEF Pushes
  <2> DEFINE w1 == A1 \o A2
  <2>5. w1 \in Seq(S) /\ Pushes(w1) = <<>>
    BY <2>3, <2>4, PushesCat
  <2> HIDE DEF w1
  <2> DEFINE w2 == w1 \o A3
  <2>6. w2 \in Seq(S) /\ Pushes(w2) = <<>>
    BY <2>3, <2>4, <2>5, PushesCat
  <2> HIDE DEF w2
  <2>7. Pushes(w2 \o A4) = <<>>
    BY <2>3, <2>4, <2>6, PushesCat
  <2>8. J = w2 \o A4
    BY <2>1, Zenon DEF w1, w2
  <2> QED BY <2>7, <2>8
<1>5. P \in Seq(S) /\ Pushes(P) = <<>>
  <2> DEFINE g == At(7, 0, 0, 0, 0, {}, {})
  <2>1. /\ FALSE \in BOOLEAN /\ (FALSE <=> a.prog = "tasks") /\ Telling(7, 0, 0, 0, 0, {}, {}) /\ {} \subseteq OwnBlocks
        /\ "totals" \notin {}
    <3>1. {} \in SUBSET Blocks
      OBVIOUS
    <3> QED BY <3>1 DEF Telling
  <2>2. \E n \in Nat : \E done : Way(a, p, P, g, At(7, 0, 0, 0, n, {}, done))
    BY <2>1, WayPrintStats
  <2>3. PICK h : Way(a, p, P, g, h)
    BY <2>2
  <2>4. g.ph = 7
    BY DEF At
  <2> HIDE DEF P, g
  <2> QED BY <2>3, <2>4, NeverPushes DEF Way, S
<1>6. Pushes(E) = <<>>
  <2>1. Ops(E) \cap PushOps = {}
    <3> DEFINE A1 == <<Free(RingBlock)>>  A2 == TdDestroy  A3 == <<Step("clod_destroy"), Free(TcBlock), Step("release")>>
    <3>1. E = (A1 \o A2) \o A3
      BY Zenon DEF GtcDestroy
    <3>2. Ops(A1) = {"free"} /\ Ops(A2) = {"free"} /\ Ops(A3) = {"clod_destroy", "free", "release"}
      BY DEF Ops, Step, Free, TdDestroy
    <3>3. A1 \in Seq(S) /\ A2 \in Seq(S) /\ A3 \in Seq(S)
      <4>1. Step("clod_destroy") \in S /\ Step("release") \in S
        BY StepNames
      <4>2. Free(TcBlock) \in S /\ Free(TdBlock) \in S /\ Free(RingBlock) \in S
        BY DEF Free, Steps, OtherSteps, Blocks
      <4> HIDE DEF S
      <4> QED BY <4>1, <4>2 DEF TdDestroy
    <3> HIDE DEF A1, A2, A3, S, E
    <3>4. Cat(A1, A2) \in Seq(S)
      BY <3>3, CatType
    <3>6. Ops(Cat(A1, A2)) = Ops(A1) \cup Ops(A2)
      BY <3>3, OpsCat
    <3>7. Ops(Cat(Cat(A1, A2), A3)) = Ops(Cat(A1, A2)) \cup Ops(A3)
      BY <3>3, <3>4, OpsCat
    <3>5. Ops(Cat(Cat(A1, A2), A3)) = {"clod_destroy", "free", "release"}
      BY <3>2, <3>6, <3>7
    <3> QED BY <3>1, <3>5, Zenon DEF Cat, PushOps
  <2> HIDE DEF E, S
  <2> QED BY <1>1, <2>1, PickedOthers DEF Pushes
<1>7. Main(a, p) = (((I \o B) \o ((((((((K \o J) \o C) \o s1) \o B) \o L) \o P) \o D) \o E)) \o R) \o F
  <2>1. UtsMain(a, N, p) = (((I \o B) \o ((((((((K \o J) \o C) \o s1) \o B) \o L) \o P) \o D) \o E)) \o R) \o F
    BY Zenon DEF UtsMain, LdbalScioto
  <2> HIDE DEF I, B, K, J, C, s1, L, P, D, E, R, F
  <2> QED BY <2>1 DEF Main
<1> HIDE DEF I, B, K, J, C, s1, L, P, D, E, R, F, S
<1> DEFINE u0 == I \o B  v0 == K \o J
<1>8. u0 \in Seq(S) /\ Pushes(u0) = <<>>
  BY <1>1, <1>3, PushesCat
<1>9. v0 \in Seq(S) /\ Pushes(v0) = <<>>
  BY <1>1, <1>3, <1>4, PushesCat
<1> HIDE DEF u0, v0
<1> DEFINE v1 == v0 \o C
<1>10. v1 \in Seq(S) /\ Pushes(v1) = <<>>
  BY <1>1, <1>3, <1>9, PushesCat
<1> HIDE DEF v1
<1> DEFINE v2 == v1 \o s1
<1>11. v2 \in Seq(S) /\ Pushes(v2) = Pushes(s1)
  BY <1>2, <1>10, PushesCat
<1> HIDE DEF v2
<1> DEFINE v3 == v2 \o B
<1>12. v3 \in Seq(S) /\ Pushes(v3) = Pushes(s1)
  BY <1>1, <1>3, <1>11, PushesCat
<1> HIDE DEF v3
<1> DEFINE v4 == v3 \o L
<1>13. v4 \in Seq(S) /\ Pushes(v4) = Pushes(s1)
  BY <1>1, <1>3, <1>12, PushesCat
<1> HIDE DEF v4
<1> DEFINE v5 == v4 \o P
<1>14. v5 \in Seq(S) /\ Pushes(v5) = Pushes(s1)
  BY <1>5, <1>13, PushesCat
<1> HIDE DEF v5
<1> DEFINE v6 == v5 \o D
<1>15. v6 \in Seq(S) /\ Pushes(v6) = Pushes(s1)
  BY <1>1, <1>3, <1>14, PushesCat
<1> HIDE DEF v6
<1> DEFINE v7 == v6 \o E
<1>16. v7 \in Seq(S) /\ Pushes(v7) = Pushes(s1)
  BY <1>1, <1>6, <1>15, PushesCat
<1> HIDE DEF v7
<1> DEFINE v8 == u0 \o v7
<1>17. v8 \in Seq(S) /\ Pushes(v8) = Pushes(s1)
  BY <1>8, <1>16, PushesCat
<1> HIDE DEF v8
<1> DEFINE v9 == v8 \o R
<1>18. v9 \in Seq(S) /\ Pushes(v9) = Pushes(s1)
  BY <1>1, <1>3, <1>17, PushesCat
<1> HIDE DEF v9
<1>19. Pushes(v9 \o F) = Pushes(s1)
  BY <1>1, <1>3, <1>18, PushesCat
<1>20. Main(a, p) = v9 \o F
  BY <1>7, Zenon DEF u0, v0, v1, v2, v3, v4, v5, v6, v7, v8, v9
<1> QED BY <1>2, <1>19, <1>20
-----------------------------------------------------------------------------
LEMMA InitNested ==
  ASSUME Init
  PROVE  Nested
<1> SUFFICES ASSUME Strict, NEW p \in Procs PROVE NestedAt(queue[p], claim[p].tasks, Pushes(script[p]))
  BY DEF Nested
<1>1. WellFormed(app) /\ app.prog = "uts" /\ script[p] = Main(app, p) /\ queue[p] = <<>>
  <2>1. PICK a \in Apps : app \in Programs(a)
    BY DEF Init
  <2>2. WellFormed(app)
    BY <2>1, ProgramsWellFormed
  <2> QED BY <2>2 DEF Init, Strict, All
<1>2. claim[p].tasks = <<>>
  <2>1. claim[p] = [from |-> p, tasks |-> <<>>]
    BY DEF Init, NoClaim
  <2> QED BY <2>1
<1> DEFINE x == Add(1, Iterator(<<>>))
<1>3. Pushes(script[p]) \in {<<>>, <<x>>}
  BY <1>1, MainPushes
<1>4. x.op = "add"
  BY DEF Add
<1> HIDE DEF x
<1>5. Coming(<<x>>, <<>>)
  <2> DEFINE w == <<x>>
  <2>1. Len(w) = 1 /\ w[1] = x
    OBVIOUS
  <2> HIDE DEF w
  <2>2. (\A i \in 1..Len(w) : w[i].op = "add") /\ (\A i, j \in 1..Len(w) : ~(i < j))
    BY <2>1, <1>4
  <2>3. \A j \in 1..Len(<<>>) : FALSE
    OBVIOUS
  <2> QED BY <2>2, <2>3 DEF Coming, w
<1> QED BY <1>1, <1>2, <1>3, <1>5, NestedNothing DEF NestedAt

\* Process p's steps, queue and claim are nested again, and so are the others'.
LEMMA NestedPut ==
  ASSUME Nested, Strict, app' = app, DOMAIN script = Procs, NEW p \in Procs, NEW s, script' = [script EXCEPT ![p] = s],
         NestedAt(queue'[p], claim'[p].tasks, Pushes(s)),
         \A q \in Procs : q # p =>
           /\ claim'[q] = claim[q]
           /\ queue'[q] = queue[q] \/ NestedAt(queue'[q], claim[q].tasks, Pushes(script[q]))
  PROVE  Nested'
<1>1. ASSUME NEW q \in Procs, q # p PROVE NestedAt(queue'[q], claim'[q].tasks, Pushes(script'[q]))
  <2>1. script'[q] = script[q] /\ claim'[q] = claim[q]
    BY <1>1
  <2>2. NestedAt(queue[q], claim[q].tasks, Pushes(script[q]))
    BY DEF Nested
  <2>3. CASE queue'[q] = queue[q]
    BY <2>1, <2>2, <2>3
  <2>4. CASE NestedAt(queue'[q], claim[q].tasks, Pushes(script[q]))
    BY <2>1, <2>4
  <2> QED BY <1>1, <2>3, <2>4
<1>2. script'[p] = s
  OBVIOUS
<1> QED BY <1>1, <1>2 DEF Nested

\* No tasks, and none to come.
LEMMA NestedStill ==
  ASSUME NEW q, NEW c, NEW a, NestedAt(q, c, a)
  PROVE  NestedAt(q, c, <<>>)
BY NestedNothing DEF NestedAt

\* What a step of the program or of the library other than adding a task is replaced by.
LEMMA OrdinaryPushes ==
  ASSUME NEW g, Tracked(g), Strict, NEW p \in Procs, Ordinary(p), ~TaskAdd(p), ~TaskFill(p), script[p] # <<>>
  PROVE  /\ Now(p).op \notin PushOps /\ queue' = queue /\ claim' = claim
         /\ \E u \in Seq(Steps(app)) : Then(p, u) /\ Pushes(u) = <<>>
<1>0. app.prog = "uts" /\ <<>> \in Seq(Steps(app)) /\ Pushes(<<>>) = <<>>
  BY PickedEmpty DEF Strict, Pushes
<1>1. ~Seed(p) /\ ~RefineBox(p)
  <2> SUFFICES ASSUME Seed(p) \/ RefineBox(p) PROVE FALSE
    OBVIOUS
  <2>0. Now(p).op \in {"seed", "refine"}
    BY DEF Seed, RefineBox, Does, Now
  <2>1. PICK k : Now(p) \in Steps(app) /\ g[p] \in Places /\ Moves(app, p, g[p], Now(p), k)
    BY <2>0, TrackOwn DEF CollectiveOps
  <2>2. Now(p).op # "seed"
    BY <1>0, <2>1 DEF Moves, Permits
  <2>3. Now(p).op # "refine"
    BY <1>0, <2>1, StepFacts DEF BoxSet
  <2> QED BY <2>0, <2>2, <2>3
<1>2. Now(p).op \notin PushOps /\ queue' = queue /\ claim' = claim
  BY <1>1 DEF Ordinary, Registry, Program, GtcInitStep, ImplicitInit, Init_, HandleRegister, ClodChange, Configure,
         CloAssociate, ClassRegister, HandleRelease, TaskCreate, TaskDestroy, CallProgress, CountTask,
         PrintStats, ChangeTree, Executed, pool, Does, Now, PushOps
<1>3. CASE Done(p)
  BY <1>0, <1>2, <1>3 DEF Done
<1>4. CASE HandleRelease(p)
  <2>1. Then(p, GtcFini) \/ Then(p, <<>>)
    BY <1>4 DEF HandleRelease
  <2>2. GtcFini \in Seq(Steps(app))
    BY CallsMade
  <2>3. Ops(GtcFini) \cap PushOps = {}
    BY DEF Ops, PushOps, GtcFini, Barrier, Step
  <2>4. Pushes(GtcFini) = <<>>
    BY <2>2, <2>3, PickedOthers DEF Pushes
  <2> QED BY <1>0, <1>2, <2>1, <2>2, <2>4
<1>5. Done(p) \/ HandleRelease(p)
  BY <1>1 DEF Ordinary, Registry, Program, GtcInitStep, ImplicitInit, Init_, HandleRegister, ClodChange, Configure,
         CloAssociate, ClassRegister, TaskCreate, TaskDestroy, CallProgress, CountTask, PrintStats, ChangeTree, Executed
<1> QED BY <1>2, <1>3, <1>4, <1>5

\* The body of a task in a strict depth-first search.
LEMMA StrictBody ==
  ASSUME NEW g, InvAt(g), Strict, NEW p \in Procs, queue[p] # <<>>
  PROVE  /\ Head(queue[p]) \in TaskSet(app) /\ Head(queue[p]).body \in Bodies(app)
         /\ Body(app, Lookup(classes[p], Head(queue[p]).class), Head(queue[p]).body) = StrictDfsTask(app, Head(queue[p]).body)
<1> DEFINE t == Head(queue[p])
<1>1. /\ queue[p] \in Seq(TaskSet(app)) /\ claim[p].tasks \in Seq(TaskSet(app))
      /\ Makers(p) = MakersOf(queue[p]) \cup MakersOf(claim[p].tasks)
  BY DEF InvAt, Queues, QueueAt, ClaimAt, Makers
<1>2. t \in TaskSet(app) /\ t = queue[p][1] /\ 1 \in 1..Len(queue[p])
  BY <1>1
<1>3. t.created_by \in Makers(p)
  BY <1>1, <1>2 DEF MakersOf
<1>4. classes[p] = Upto(ClassNames(app), Len(ClassNames(app)))
  BY <1>3, SameTables
<1>5. ClassNames(app) = <<"strict_dfs_task_fcn">>
  BY DEF Strict, ClassNames
<1>6. t.class \in 0..(Len(ClassNames(app)) - 1) /\ t.body \in Bodies(app)
  BY <1>2 DEF TaskSet
<1> HIDE DEF t
<1>7. t.class = 0
  <2>1. Len(<<"strict_dfs_task_fcn">>) = 1
    OBVIOUS
  <2> QED BY <1>5, <1>6, <2>1
<1>8. Lookup(classes[p], t.class) = "strict_dfs_task_fcn"
  <2> DEFINE n == <<"strict_dfs_task_fcn">>
  <2>1. Len(n) = 1 /\ n[1] = "strict_dfs_task_fcn" /\ classes[p] = Upto(n, 1)
    BY <1>4, <1>5
  <2> HIDE DEF n
  <2>2. classes[p][1] = "strict_dfs_task_fcn"
    BY <2>1 DEF Upto
  <2> QED BY <1>7, <2>2 DEF Lookup
<1>9. Body(app, "strict_dfs_task_fcn", t.body) = StrictDfsTask(app, t.body)
  BY Zenon DEF Body, UtsBody, Strict
<1> QED BY <1>2, <1>6, <1>8, <1>9 DEF t
-----------------------------------------------------------------------------
LEMMA OwnNested ==
  ASSUME NEW g, InvAt(g), Nested, NEW p \in Procs, NEW h, Own(g, p, h)
  PROVE  Nested'
<1> DEFINE S == Steps(app)  T == TaskSet(app)  s == script[p]  t == Tail(s)  x == Now(p)  q == queue[p]  c == claim[p].tasks
<1>1. /\ Tracked(g) /\ Queues(g) /\ s # <<>> /\ DOMAIN script = Procs /\ WellFormed(app)
      /\ DOMAIN queue = Procs /\ DOMAIN claim = Procs /\ OnPath(app, p, s, g[p]) /\ x = Head(s)
  BY DEF InvAt, Own, Tracked, Queues, Now
<1>2. s \in Seq(S) /\ t \in Seq(S) /\ <<>> \in Seq(S) /\ q \in Seq(T) /\ c \in Seq(T)
  BY <1>1, OnPathWhole DEF Queues, QueueAt, ClaimAt
<1>3. /\ x.op = "search" => q = <<>>
      /\ c # <<>> => x.op = "copy"
  BY <1>1 DEF InvAt, Stacks, StackAt
<1>4. app' = app
  BY DEF Own, Tracked, Ordinary, Turning, Registry, Program, GtcInitStep, ImplicitInit, Init_, HandleRegister, ClodChange,
         Configure, CloAssociate, ClassRegister, HandleRelease, TaskCreate, TaskDestroy, TaskAdd, TaskFill,
         CallProgress, CountTask, PrintStats, Seed, RefineBox, ChangeTree, Executed, Start, Get, PopNothing, Land, Claim,
         PopHead, Return
<1> SUFFICES ASSUME Strict PROVE Nested'
  BY <1>4 DEF Nested, Strict
<1>5. app.prog = "uts" /\ NestedAt(q, c, Pushes(s))
  BY DEF Nested, Strict
<1>6. ASSUME NEW u, Then(p, u) PROVE script' = [script EXCEPT ![p] = u \o t]
  BY <1>6 DEF Then
<1>7. /\ x.op \notin PushOps => Pushes(t) = Pushes(s)
      /\ x.op \in PushOps => /\ Pushes(s) \in Seq(S) /\ Pushes(s) # <<>> /\ Head(Pushes(s)) = x
                             /\ Tail(Pushes(s)) = Pushes(t)
  BY <1>1, <1>2, PushesNow
<1>8. x.op \in LoopOps => Pushes(t) = <<>> /\ Pushes(s) = <<>>
  BY <1>1, <1>5, <1>7, LoopPushes DEF LoopOps, PushOps
<1>o. Now(p).op = x.op
  OBVIOUS
<1> HIDE DEF S, T, s, t, x, q, c
\* A step after which there is nothing more to come than before.
<1>9. ASSUME NEW u \in Seq(S), Then(p, u), Pushes(u) = <<>>, x.op \notin PushOps,
             NestedAt(queue'[p], claim'[p].tasks, Pushes(s)),
             \A r \in Procs : r # p =>
               /\ claim'[r] = claim[r]
               /\ queue'[r] = queue[r] \/ NestedAt(queue'[r], claim[r].tasks, Pushes(script[r]))
      PROVE  Nested'
  <2> DEFINE w == u \o t
  <2>1. Pushes(w) = Pushes(s)
    BY <1>2, <1>7, <1>9, PushesCat
  <2>2. script' = [script EXCEPT ![p] = w]
    BY <1>6, <1>9
  <2> HIDE DEF w
  <2>3. NestedAt(queue'[p], claim'[p].tasks, Pushes(w))
    BY <2>1, <1>9
  <2> QED BY <1>1, <1>4, <1>9, <2>2, <2>3, NestedPut
<1>10. CASE TaskAdd(p)
  <2>1. x.op \in PushOps /\ x.op \notin LoopOps /\ x.op # "copy" /\ Then(p, <<>>) /\ claim' = claim
    BY <1>10, <1>o DEF TaskAdd, Does, Done, PushOps, LoopOps, Now
  <2>2. c = <<>> /\ Pushes(s) \in Seq(S) /\ Pushes(s) # <<>> /\ Head(Pushes(s)) = x /\ Tail(Pushes(s)) = Pushes(t)
    BY <2>1, <1>3, <1>7
  <2>3. x.op = "add"
    <3> DEFINE b == Pushes(s)
    <3>1. 1 \in 1..Len(b) /\ Head(b) = b[1]
      BY <2>2
    <3>2. Coming(b, q)
      BY <1>5 DEF NestedAt
    <3> HIDE DEF b
    <3>3. b[1].op = "add"
      BY <3>1, <3>2 DEF Coming
    <3> QED BY <2>2, <3>1, <3>3 DEF b
  <2>4. queue' = [queue EXCEPT ![p] = Pushed(p, Now(p).body, TRUE)]
    BY <1>10, <2>3, <1>o DEF TaskAdd, Does, Now
  <2> DEFINE e == [class |-> ClassId(p, Now(p).class), body |-> Now(p).body, filled |-> TRUE, created_by |-> p]
             M == T \cup {e}  w == <<e>> \o q
  <2>5. queue'[p] = w /\ \A r \in Procs : r # p => queue'[r] = queue[r]
    BY <1>1, <2>4 DEF Pushed, q
  <2>6. e.body = x.body
    BY DEF x
  <2>7. q \in Seq(M) /\ e \in M
    BY <1>2, SeqOfMore
  <2> HIDE DEF e, M
  <2>8. NestedAt(w, <<>>, Pushes(t))
    <3> DEFINE b == Pushes(s)
    <3>1. b \in Seq(S) /\ b # <<>> /\ NestedAt(q, <<>>, b) /\ e.body = Head(b).body /\ Tail(b) = Pushes(t)
      BY <1>5, <2>2, <2>6
    <3> HIDE DEF b
    <3>2. NestedAt(<<e>> \o q, <<>>, Tail(b))
      BY <3>1, <2>7, NestedPush
    <3> QED BY <3>1, <3>2
  <2>9. script' = [script EXCEPT ![p] = t]
    <3>1. script' = [script EXCEPT ![p] = <<>> \o t]
      BY <2>1, <1>6
    <3>2. <<>> \o t = t
      BY <1>2, ConcatEmptySeq
    <3> QED BY <3>1, <3>2
  <2> HIDE DEF w
  <2>10. NestedAt(queue'[p], claim'[p].tasks, Pushes(t)) /\ \A r \in Procs : r # p => claim'[r] = claim[r] /\ queue'[r] = queue[r]
    BY <2>1, <2>2, <2>5, <2>8 DEF c
  <2> QED BY <1>1, <1>4, <2>9, <2>10, NestedPut
<1>11. CASE TaskFill(p)
  <2>1. x.op = "fill" /\ x.op \in PushOps
    BY <1>11, <1>o DEF TaskFill, Does, PushOps, Now
  <2> DEFINE b == Pushes(s)
  <2>2. b \in Seq(S) /\ b # <<>> /\ Head(b) = x /\ Coming(b, q)
    BY <2>1, <1>5, <1>7 DEF NestedAt
  <2> HIDE DEF b
  <2>3. 1 \in 1..Len(b) /\ Head(b) = b[1]
    BY <2>2
  <2>4. b[1].op = "add"
    BY <2>2, <2>3 DEF Coming
  <2> QED BY <2>1, <2>2, <2>3, <2>4
<1>12. CASE Ordinary(p) /\ ~TaskAdd(p) /\ ~TaskFill(p)
  <2>1. x.op \notin PushOps /\ queue' = queue /\ claim' = claim
    BY <1>1, <1>12, OrdinaryPushes DEF s, x
  <2>2. PICK u \in Seq(S) : Then(p, u) /\ Pushes(u) = <<>>
    BY <1>1, <1>12, OrdinaryPushes DEF s, S
  <2>3. NestedAt(queue'[p], claim'[p].tasks, Pushes(s))
    BY <1>5, <2>1 DEF q, c
  <2> QED BY <1>9, <2>1, <2>2, <2>3
\* A step of the loop is not replaced by one that adds tasks.
<1>13. ASSUME NEW o \in {"get", "pop", "search", "copy"}, Then(p, <<Step(o)>>), x.op \notin PushOps,
              NestedAt(queue'[p], claim'[p].tasks, Pushes(s)),
              \A r \in Procs : r # p =>
                /\ claim'[r] = claim[r]
                /\ queue'[r] = queue[r] \/ NestedAt(queue'[r], claim[r].tasks, Pushes(script[r]))
       PROVE  Nested'
  <2> DEFINE u == Step(o)
  <2>1. u \in S
    BY DEF Step, Steps, PlainSteps, LoopOps, S
  <2>2. u.op \notin PushOps
    BY DEF Step, PushOps
  <2> HIDE DEF u
  <2>3. <<u>> \in Seq(S) /\ Pushes(<<u>>) = <<>>
    BY <2>1, <2>2, SingleSeq, PickedBasic DEF Pushes
  <2>4. Then(p, <<u>>)
    BY <1>13 DEF u
  <2> QED BY <1>9, <1>13, <2>3, <2>4
<1>14. CASE Start(p) \/ Get(p) \/ PopNothing(p)
  <2>1. PICK o \in {"get", "pop", "search"} : Then(p, <<Step(o)>>) /\ queue' = queue /\ claim' = claim
    BY <1>14 DEF Start, Get, PopNothing, pool
  <2>2. x.op \notin PushOps
    BY <1>14, <1>o DEF Start, Get, PopNothing, Does, PushOps, Now
  <2>3. NestedAt(queue'[p], claim'[p].tasks, Pushes(s))
    BY <1>5, <2>1 DEF q, c
  <2> QED BY <1>13, <2>1, <2>2, <2>3
<1>15. CASE Return(p)
  <2>1. Then(p, <<>>) /\ queue' = queue /\ claim' = claim /\ x.op = "search"
    BY <1>15, <1>o DEF Return, Done, Does, Now
  <2>2. NestedAt(queue'[p], claim'[p].tasks, Pushes(s)) /\ x.op \notin PushOps
    BY <1>5, <2>1 DEF q, c, PushOps
  <2>3. Pushes(<<>>) = <<>>
    BY PickedEmpty DEF Pushes
  <2> QED BY <1>2, <1>9, <2>1, <2>2, <2>3
<1>16. CASE Land(p)
  <2>1. Then(p, <<Step("get")>>) /\ x.op = "copy" /\ x.op \notin PushOps /\ x.op \in LoopOps
    BY <1>16, <1>o DEF Land, Does, PushOps, LoopOps, Now
  <2>2. /\ queue'[p] = c \o q /\ claim'[p].tasks = <<>>
        /\ \A r \in Procs : r # p => claim'[r] = claim[r] /\ queue'[r] = queue[r]
    BY <1>1, <1>16 DEF Land, NoClaim, c, q
  <2>3. Pushes(s) = <<>> /\ Line(q) /\ Line(c) /\ (c # <<>> => q = <<>>)
    BY <2>1, <1>5, <1>8 DEF NestedAt
  <2>4. c \o q \in {c, q}
    BY <1>2, <2>3, ConcatEmptySeq
  <2>5. NestedAt(queue'[p], claim'[p].tasks, Pushes(s))
    BY <2>2, <2>3, <2>4, NestedNothing DEF NestedAt
  <2> QED BY <1>13, <2>1, <2>2, <2>5
<1>17. ASSUME NEW v \in Procs, NEW n \in 1..shared[v], Claim(p, v, n) PROVE Nested'
  <2> DEFINE k == queue[v]  l == Len(k)  keeps == l - n
  <2>1. Then(p, <<Step("copy")>>) /\ x.op = "search" /\ x.op \notin PushOps /\ x.op \in LoopOps /\ p # v
    BY <1>17, <1>o DEF Claim, Does, PushOps, LoopOps, Now
  <2>2. /\ queue' = [queue EXCEPT ![v] = SubSeq(@, 1, keeps)]
        /\ claim' = [claim EXCEPT ![p] = [from |-> v, tasks |-> SubSeq(k, keeps + 1, keeps + n)]]
    BY <1>17 DEF Claim
  <2>3. k \in Seq(T) /\ shared[v] \in 0..l
    BY <1>1 DEF Queues, QueueAt, T
  <2>4. l \in Nat /\ n \in 1..l
    BY <2>3
  <2>5. keeps \in Int /\ keeps + n = l /\ keeps <= l /\ 1 <= keeps + 1 /\ keeps + 1 \in Int /\ l \in Int /\ l > 0
    BY <2>4
  <2>6. k # <<>> /\ NestedAt(k, claim[v].tasks, Pushes(script[v]))
    <3>1. NestedAt(k, claim[v].tasks, Pushes(script[v]))
      BY DEF Nested
    <3> QED BY <2>5, <3>1
  <2>7. queue'[v] = SubSeq(k, 1, keeps) /\ claim'[p].tasks = SubSeq(k, keeps + 1, l)
        /\ \A r \in Procs : (r # v => queue'[r] = queue[r]) /\ (r # p => claim'[r] = claim[r])
    BY <1>1, <2>2, <2>5
  <2> HIDE DEF k, l, keeps
  <2>8. NestedAt(SubSeq(k, 1, keeps), claim[v].tasks, Pushes(script[v]))
    <3>1. 1 \in Int /\ 1 <= 1 /\ keeps <= Len(k)
      BY <2>5 DEF l
    <3> QED BY <2>3, <2>5, <2>6, <3>1, NestedPart
  <2>9. Line(SubSeq(k, keeps + 1, l))
    <3>1. Line(k) /\ l <= Len(k)
      BY <2>4, <2>6 DEF NestedAt, l
    <3> QED BY <2>3, <2>5, <3>1, LineFacts
  <2>10. q = <<>> /\ Pushes(s) = <<>>
    BY <2>1, <1>3, <1>8
  <2>11. NestedAt(queue'[p], claim'[p].tasks, Pushes(s))
    BY <2>1, <2>7, <2>9, <2>10, NestedNothing DEF NestedAt, q
  <2>12. \A r \in Procs : r # p =>
                /\ claim'[r] = claim[r]
                /\ queue'[r] = queue[r] \/ NestedAt(queue'[r], claim[r].tasks, Pushes(script[r]))
    BY <2>7, <2>8
  <2> QED BY <1>13, <2>1, <2>11, <2>12
<1>18. CASE PopHead(p)
  <2> DEFINE it == Head(q).body  b == StrictDfsTask(app, it)  m == <<Step("executed"), Step("get")>>  w == b \o m
  <2>1. q # <<>> /\ x.op = "pop" /\ x.op \in LoopOps /\ claim' = claim
        /\ Then(p, Body(app, Lookup(classes[p], Head(q).class), Head(q).body) \o m)
    BY <1>18, <1>o DEF PopHead, Execute, Does, LoopOps, Now, q
  <2>2. it \in Bodies(app) /\ Body(app, Lookup(classes[p], Head(q).class), Head(q).body) = b
    BY <2>1, StrictBody DEF q
  <2>3. queue'[p] = Tail(q) /\ \A r \in Procs : r # p => queue'[r] = queue[r]
    BY <1>1, <1>18 DEF PopHead, q
  <2>4. Then(p, w)
    BY <2>1, <2>2
  <2>5. b \in Seq(S)
    <3>1. Body(app, Lookup(classes[p], Head(q).class), it) \in WorkCalls(app, p, FALSE)
      BY <1>1, <2>2, BodyCalls
    <3> QED BY <2>2, <3>1 DEF WorkCalls, S
  <2>6. m \in Seq(S) /\ Pushes(m) = <<>>
    <3>1. Step("executed") \in S /\ Step("get") \in S
      BY DEF Step, Steps, PlainSteps, LoopOps, S
    <3>2. Ops(m) \cap PushOps = {}
      BY DEF Ops, Step, PushOps
    <3>3. m \in Seq(S)
      BY <3>1
    <3> HIDE DEF m
    <3> QED BY <3>2, <3>3, PickedOthers DEF Pushes
  <2>7. c = <<>> /\ Line(q)
    BY <1>3, <1>5, <2>1 DEF NestedAt
  <2>8. NestedAt(Tail(q), <<>>, Pushes(b))
    <3> DEFINE v == Pushes(b)
    <3>1. \/ v = <<>>
          \/ HasNext(app, it) /\ v = <<Add(1, Child(it))>>
          \/ HasNext(app, it) /\ v = <<Add(1, Advanced(it)), Add(1, Child(it))>>
      BY <1>1, <1>5, <2>2, StrictPushes
    <3> HIDE DEF v, b
    <3>2. NestedAt(Tail(q), <<>>, v)
      BY <1>1, <1>2, <1>5, <2>1, <2>7, <3>1, NestedPop DEF T
    <3> QED BY <3>2 DEF v
  <2> HIDE DEF b, m
  <2>9. w \in Seq(S) /\ Pushes(w) = Pushes(b)
    BY <2>5, <2>6, PushesCat
  <2> HIDE DEF w
  <2>10. Pushes(w \o t) = Pushes(b)
    BY <1>2, <1>8, <2>1, <2>9, PushesCat
  <2>11. script' = [script EXCEPT ![p] = w \o t]
    BY <1>6, <2>4
  <2>12. /\ NestedAt(queue'[p], claim'[p].tasks, Pushes(w \o t))
         /\ \A r \in Procs : r # p => claim'[r] = claim[r] /\ queue'[r] = queue[r]
    BY <2>1, <2>3, <2>7, <2>8, <2>10 DEF c
  <2> DEFINE z == w \o t
  <2>13. script' = [script EXCEPT ![p] = z] /\ NestedAt(queue'[p], claim'[p].tasks, Pushes(z))
    BY <2>11, <2>12
  <2> HIDE DEF z
  <2> QED BY <1>1, <1>4, <2>12, <2>13, NestedPut
<1>19. \/ Ordinary(p) \/ Turning(p) \/ PopHead(p) \/ Return(p)
  BY DEF Own
<1> QED BY <1>10, <1>11, <1>12, <1>14, <1>15, <1>16, <1>17, <1>18, <1>19 DEF Turning

LEMMA AllNested ==
  ASSUME NEW g, Tracked(g), Nested, NEW o \in CollectiveOps, Together(o), AllDone, app' = app, UNCHANGED <<queue, claim>>
  PROVE  Nested'
<1> SUFFICES ASSUME Strict, NEW p \in Procs PROVE NestedAt(queue[p], claim[p].tasks, Pushes(script'[p]))
  BY DEF Nested, Strict
<1> DEFINE s == script[p]
<1>1. s # <<>> /\ Head(s).op = o /\ script'[p] = Tail(s) /\ OnPath(app, p, s, g[p])
  BY DEF Together, Does, AllDone, Tracked
<1>2. s \in Seq(Steps(app))
  BY <1>1, OnPathWhole
<1>3. Head(s).op \notin PushOps
  BY <1>1 DEF CollectiveOps, PushOps
<1>4. NestedAt(queue[p], claim[p].tasks, Pushes(s))
  BY DEF Nested
<1> HIDE DEF s
<1>5. Pushes(Tail(s)) = Pushes(s)
  BY <1>1, <1>2, <1>3, PushesNow
<1> QED BY <1>1, <1>4, <1>5

LEMMA NestedStep ==
  ASSUME Inv, Nested, [Next]_vars
  PROVE  Nested'
<1>1. PICK g : InvAt(g)
  BY DEF Inv
<1>2. Tracked(g) /\ InLibrary(g) /\ Queues(g)
  BY <1>1 DEF InvAt
<1>3. ASSUME NEW p \in Procs, Registry(p) \/ Program(p) \/ Process(p)
      PROVE  Nested'
  <2>1. PICK h : Own(g, p, h)
    BY <1>2, <1>3, OwnRegistry, OwnProgram, OwnProcess
  <2> QED BY <1>1, <2>1, OwnNested
<1>4. CASE Collective
  <2>1. PICK o \in CollectiveOps : Together(o) /\ AllDone /\ app' = app /\ UNCHANGED <<queue, claim>>
    BY <1>4 DEF Collective, PassBarrier, ShmemMalloc, ShmemFree, ShmemReduce, ShmemFinalize, pool, CollectiveOps
  <2> QED BY <1>2, <2>1, AllNested
<1>5. CASE UNCHANGED vars
  BY <1>5 DEF vars, pool, Nested, Strict
<1> QED BY <1>3, <1>4, <1>5 DEF Next

LEMMA InvDeepestOnTop ==
  ASSUME Inv, Nested
  PROVE  DeepestOnTop
<1>1. PICK g : InvAt(g)
  BY DEF Inv
<1> SUFFICES ASSUME Strict, NEW p \in Procs, NEW i \in DOMAIN queue[p], NEW j \in DOMAIN queue[p], i < j
             PROVE  Deeper(queue[p][i], queue[p][j])
  BY DEF DeepestOnTop, Strict, Deeper
<1>2. queue[p] \in Seq(TaskSet(app))
  BY <1>1 DEF InvAt, Queues, QueueAt
<1>3. DOMAIN queue[p] = 1..Len(queue[p])
  BY <1>2
<1>4. Line(queue[p])
  BY DEF Nested, NestedAt
<1> QED BY <1>3, <1>4 DEF Line
-----------------------------------------------------------------------------
(***************************************************************************)
(* The theorems.                                                           *)
(***************************************************************************)
LEMMA InvTypeOK ==
  ASSUME Inv
  PROVE  TypeOK
<1>1. PICK g : InvAt(g)
  BY DEF Inv
<1>2. up \in [Procs -> {"down", "up", "auto"}] /\ terminated \in [Procs -> BOOLEAN]
  BY <1>1 DEF InvAt, InLibrary
<1>3. ASSUME NEW p \in Procs
      PROVE  /\ handles[p] \subseteq 0..(GTC_MAX_TC - 1) /\ shared[p] \in 0..Len(queue[p])
             /\ spawned[p] \in Nat /\ completed[p] \in Nat
             /\ claim[p].tasks # <<>> => claim[p].from \in Procs \ {p}
             /\ \A v \in DOMAIN tally[p] : tally[p][v] \in Nat
  <2>1. handles[p] = {0} \/ handles[p] = {}
    <3>1. LibOf(app, g[p], up[p], handles[p], prog[p], clod[p], classes[p], terminated[p])
      BY <1>1 DEF InvAt, InLibrary
    <3> QED BY <3>1 DEF LibOf
  <2>2. handles[p] \subseteq 0..(GTC_MAX_TC - 1)
    BY <2>1 DEF GTC_MAX_TC
  <2>3. shared[p] \in 0..Len(queue[p])
    BY <1>1 DEF InvAt, Queues, QueueAt
  <2>4. claim[p].tasks # <<>> => claim[p].from \in Procs \ {p}
    BY <1>1 DEF InvAt, Queues, ClaimAt
  <2>5. spawned[p] \in Nat /\ completed[p] \in Nat /\ \A v \in DOMAIN tally[p] : tally[p][v] \in Nat
    BY <1>1 DEF InvAt, Counted, Counting
  <2> QED BY <2>2, <2>3, <2>4, <2>5
<1> QED BY <1>2, <1>3 DEF TypeOK

LEMMA InvBlankNeverShared ==
  ASSUME Inv
  PROVE  BlankNeverShared
<1>1. PICK g : InvAt(g)
  BY DEF Inv
<1>2. ASSUME NEW p \in Procs
      PROVE  /\ \A i \in DOMAIN queue[p] : queue[p][i].filled \/ i <= Len(queue[p]) - shared[p]
             /\ \A i \in DOMAIN claim[p].tasks : claim[p].tasks[i].filled
  <2> DEFINE q == queue[p]  s == shared[p]  c == claim[p].tasks  b == g[p].blank
  <2>1. /\ q \in Seq(TaskSet(app)) /\ s \in 0..Len(q) /\ (b => s < Len(q))
        /\ \A i \in 1..Len(q) : q[i].filled \/ (b /\ i = 1)
        /\ c \in Seq(TaskSet(app)) /\ \A i \in 1..Len(c) : c[i].filled
    BY <1>1 DEF InvAt, Queues, QueueAt, ClaimAt
  <2> HIDE DEF q, s, c, b
  <2>2. DOMAIN q = 1..Len(q) /\ DOMAIN c = 1..Len(c) /\ Len(q) \in Nat
    BY <2>1
  <2>3. ASSUME NEW i \in DOMAIN q
        PROVE  q[i].filled \/ i <= Len(q) - s
    <3> DEFINE l == Len(q)
    <3>1. i \in 1..l /\ (q[i].filled \/ (b /\ i = 1))
      BY <2>1, <2>2
    <3>2. s \in 0..l /\ l \in Nat /\ (b => s < l)
      BY <2>1, <2>2
    <3> HIDE DEF l
    <3>3. CASE b /\ i = 1
      <4>1. i <= l - s
        BY <3>2, <3>3
      <4> QED BY <4>1 DEF l
    <3> QED BY <3>1, <3>3
  <2>4. \A i \in DOMAIN c : c[i].filled
    BY <2>1, <2>2
  <2> QED BY <2>3, <2>4 DEF q, s, c
<1> QED BY <1>2 DEF BlankNeverShared

LEMMA InvStatsInRankOrder ==
  ASSUME Inv
  PROVE  StatsInRankOrder
BY DEF Inv, InvAt, Prints, StatsInRankOrder

LEMMA InvSymmetricHeap ==
  ASSUME Inv
  PROVE  SymmetricHeap
<1>1. PICK g : InvAt(g)
  BY DEF Inv
<1>2. \A p, q \in Procs : heap[p] = heap[q]
  BY <1>1 DEF InvAt, Heaps
<1>3. ASSUME Finished
      PROVE  heap = All(ToSet(LockBlock))
  <2>1. ASSUME NEW p \in Procs
        PROVE  heap[p] = ToSet(LockBlock)
    <3>1. OnPath(app, p, <<>>, g[p])
      BY <1>1, <1>3 DEF InvAt, Tracked, Finished
    <3>2. g[p].blocks = {LockBlock}
      BY <3>1, OnPathEnd
    <3>3. Memory({LockBlock}) = ToSet(LockBlock)
      BY DEF Memory
    <3>4. heap[p] = Memory(g[p].blocks)
      BY <1>1 DEF InvAt, Heaps
    <3> QED BY <3>2, <3>3, <3>4
  <2>2. heap = [p \in Procs |-> heap[p]]
    BY <1>1 DEF InvAt, Heaps
  <2>3. [p \in Procs |-> heap[p]] = [p \in Procs |-> ToSet(LockBlock)]
    BY <2>1
  <2> QED BY <2>2, <2>3 DEF All
<1> QED BY <1>2, <1>3 DEF SymmetricHeap

\* The state has the types it should have; no process shares more tasks than it has, or
\* claims tasks from itself.
THEOREM TypeCorrect == Spec => []TypeOK
<1>1. Inv => TypeOK
  BY InvTypeOK
<1> QED BY <1>1, Invariance, PTL

\* A task that was added in place is neither shared nor stolen before its body is there.
THEOREM BlankKept == Spec => []BlankNeverShared
<1>1. Inv => BlankNeverShared
  BY InvBlankNeverShared
<1> QED BY <1>1, Invariance, PTL

\* Statistics are printed by the processes in turn, and the totals after all of them.
THEOREM PrintedInTurn == Spec => []StatsInRankOrder
<1>1. Inv => StatsInRankOrder
  BY InvStatsInRankOrder
<1> QED BY <1>1, Invariance, PTL

\* All processes have the same symmetric memory at all times, and have given back at the end
\* what they allocated, but for the array of the ring's lock, which the code keeps.
THEOREM HeapSymmetric == Spec => []SymmetricHeap
<1>1. Inv => SymmetricHeap
  BY InvSymmetricHeap
<1> QED BY <1>1, Invariance, PTL

\* The positions by which a task names its class and its common local objects mean the same
\* to the process that has the task as to the one that created it.
THEOREM TasksUnderstood == Spec => []KeysAgree
<1>1. Inv => KeysAgree
  BY InvKeysAgree
<1> QED BY <1>1, Invariance, PTL

\* No assertion outside the queues fails in a step that a process takes next: the library is up, handles and
\* registries have room, what is gathered has been projected, descriptors are not shared.
THEOREM NobodyAborts == Spec => []NothingAborts
<1>1. Inv => NothingAborts
  BY InvNothingAborts
<1> QED BY <1>1, Invariance, PTL

\* In a strict depth-first search of UTS the tasks of a queue are on one path of the tree,
\* the deepest first, and so are those that have been claimed from it.
THEOREM DeepestFirst == Spec => []DeepestOnTop
<1>1. Init => Nested
  BY InitNested
<1>2. Inv /\ Nested /\ [Next]_vars => Nested'
  BY NestedStep
<1>3. Inv /\ Nested => DeepestOnTop
  BY InvDeepestOnTop
<1> QED BY <1>1, <1>2, <1>3, Invariance, PTL DEF Spec
=============================================================================
