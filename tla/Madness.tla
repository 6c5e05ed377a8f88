------------------------------ MODULE Madness ------------------------------
(***************************************************************************)
(* examples/madness: refining a tree of boxes until the function is known  *)
(* well enough in each.  A box is split into 2^dims boxes (the code has    *)
(* three dimensions); the numerics are one choice: in which boxes the      *)
(* difference norm exceeds the threshold (a.fine).  Coefficients are       *)
(* reduced to the box they were projected for.                             *)
(***************************************************************************)
EXTENDS Library, Powers, TLC

\* A box: its level and its position, in boxes of that level.
Box(level, at) == [level |-> level, at |-> at]
RootBox(a) == Box(0, [d \in 1..a.dims |-> 0])
NoBox      == Box(-1, <<>>)

Indices(a) == 0..(Pow2[a.dims] - 1)

\* Where in dimension d the i-th part of a box is (i*4+j*2+k with three).
Digit(a, i, d) == (i \div Pow2[a.dims - d]) % 2

Part(a, b, i) == Box(b.level + 1, [d \in 1..a.dims |-> 2 * b.at[d] + Digit(a, i, d)])

\* The position of a part counted by the loops over x, y and z of project().
Projected(a, b, i) ==
  Box(b.level + 1, [d \in 1..a.dims |-> 2 * b.at[d] + ((i \div Pow2[a.dims - d]) % 2)])

-----------------------------------------------------------------------------
(***************************************************************************)
(* The tree in one process's memory: nodes by the child indices on the way *)
(* from the root.                                                          *)
(***************************************************************************)
NodeAlloc(box) == [box |-> box, scaling |-> NoBox]

CreateTree(a) == <<>> :> NodeAlloc(RootBox(a))

HasScaling(node) == node.scaling # NoBox

\* set_children, set_child: the children come without coefficients or children.
SetChildren(a, t, s) ==
  LET children == {Append(s, i) : i \in Indices(a)}
  IN  [c \in children \cup DOMAIN t |->
         IF c \in children THEN NodeAlloc(Part(a, t[s].box, Last(c))) ELSE t[c]]

\* Mutated form: the innermost loop ends one early.
ProjectHalf(a, t, s) ==
  [c \in DOMAIN t |->
     IF c # <<>> /\ Front(c) = s /\ Last(c) % 2 = 0
     THEN [t[c] EXCEPT !.scaling = Projected(a, t[s].box, Last(c))]
     ELSE t[c]]

\* project: coefficients for every child, by its index.
Project(a, t, s) ==
  [c \in DOMAIN t |->
     IF c # <<>> /\ Front(c) = s THEN [t[c] EXCEPT !.scaling = Projected(a, t[s].box, Last(c))]
     ELSE t[c]]

\* gather_scaling_coeffs asserts that every child has some.
Gathers(a, t, s) == \A i \in Indices(a) : HasScaling(t[Append(s, i)])

\* set_scaling(..., NULL)
Wipe(t, s) == [t EXCEPT ![s].scaling = NoBox]

-----------------------------------------------------------------------------
\* A call of refine, on the process's tree or (not kept) on a task's own node.
Refine(kept, s, box) == [op |-> "refine", kept |-> kept, node |-> s, box |-> box]

\* create_refine_task, built with NO_INPLACE, or with TEST_EVAL.
CreateRefineTask(a, kept, s, box) ==
  IF a.test_eval THEN <<Refine(kept, s, box)>>
  ELSE <<Create(1), Add(1, box), Destroy(1), Progress>>

\* The tree after refine has split its node, and what refine does then.
Coarse(a, box) == box.level < a.initial_level

Split(a, t, s, box) ==
  IF box.level > a.max_level THEN t
  ELSE IF Coarse(a, box) THEN SetChildren(a, t, s)
  ELSE Project(a, SetChildren(a, t, s), s)

\* Mutated form: a box that was split keeps its own coefficients.
Unwiped(a, kept, s, box) == <<>>

Wiped(a, kept, s, box) == IF kept THEN <<[op |-> "wipe", node |-> s]>> ELSE <<>>

Further(a, kept, s, box) ==
  LET Task(i) == CreateRefineTask(a, kept, Append(s, i), Part(a, box, i))
      Child(i) == IF box.level < a.initial_level - 1
                  THEN <<Refine(kept, Append(s, i), Part(a, box, i))>> ELSE Task(i)
      Each(F(_)) == FlattenSeq([i \in 1..Pow2[a.dims] |-> F(i - 1)])
  IN  IF box.level > a.max_level THEN <<>>
      ELSE IF Coarse(a, box) THEN Each(Child)
      ELSE IF box \in a.fine THEN Each(Task) \o Wiped(a, kept, s, box)
      ELSE <<>>

\* refine_task_wrapper: the node and its children are freed at the end.
MadBody(box) == <<Refine(FALSE, <<>>, box)>>

-----------------------------------------------------------------------------
\* Points are given in units of which 2^(max_level + 2) make the whole cube.
Unit(a)      == Pow2[a.max_level + 2]
Points(a)    == [1..a.dims -> 0..(Unit(a) - 1)]
HoldsPoint(a, b, pt) ==
  \A d \in 1..a.dims : /\ b.at[d] * Unit(a) <= pt[d] * Pow2[b.level]
                       /\ pt[d] * Pow2[b.level] <= (b.at[d] + 1) * Unit(a)

\* Does the point lie in the upper half of the box in dimension d?
Turn(a, b, pt, d) == pt[d] * Pow2[b.level + 1] > (2 * b.at[d] + 1) * Unit(a)

Index(a, b, pt) ==
  MapThenSumSet(LAMBDA d : IF Turn(a, b, pt, d) THEN Pow2[a.dims - d] ELSE 0, 1..a.dims)

\* eval: the box whose coefficients the value at a point is computed from.
Eval(a, t, pt) ==
  LET e[s \in DOMAIN t] ==
        LET c == Append(s, Index(a, t[s].box, pt))
        IN  IF HasScaling(t[s]) THEN t[s].scaling
            ELSE IF t[s].box.level > a.max_level \/ c \notin DOMAIN t THEN NoBox
            ELSE e[c]
  IN  e[<<>>]

-----------------------------------------------------------------------------
\* Boxes that could be refined, and those that are: all of whose ancestors were split.
Boxes(a) == UNION {{Box(l, at) : at \in [1..a.dims -> 0..(Pow2[l] - 1)]} : l \in 0..(a.max_level + 1)}

Ancestor(b, l) == Box(l, [d \in DOMAIN b.at |-> b.at[d] \div Pow2[b.level - l]])

Reached(a, b) ==
  \A l \in 0..(b.level - 1) : Coarse(a, Ancestor(b, l)) \/ Ancestor(b, l) \in a.fine

\* The choices of fine boxes that make a difference.
FineSets(a) ==
  {f \in SUBSET {b \in Boxes(a) : b.level \in a.initial_level..a.max_level} :
     \A b \in f : Reached([a EXCEPT !.fine = f], b)}

MadExpected(a) == [b \in Boxes(a) |-> IF Reached(a, b) THEN 1 ELSE 0]

\* init_function
InitFunction(a, p) ==
  <<Step("create_tree"), Barrier>>
  \o (IF p = 0 THEN <<Refine(TRUE, <<>>, RootBox(a))>> ELSE <<>>) \o <<Barrier>>
  \o GtcProcess

MadMain(a, n, p) ==
  GtcInit \o GtcCreate(CfgInit) \o <<Class("refine_task_wrapper")>>
  \o InitFunction(a, p)
  \o (IF p = 0 /\ a.test_eval THEN <<Step("evaluate")>> ELSE <<>>)
  \o GtcPrintStats(n, p, FALSE) \o <<Barrier>> \o GtcDestroy \o GtcFini
=============================================================================
