-------------------------------- MODULE Uts --------------------------------
(***************************************************************************)
(* examples/uts with the Scioto load balancer: counting the nodes of a     *)
(* tree that is unfolded as it is searched.  A task's body is an iterator  *)
(* over the children of a node.  The random numbers that make the tree are *)
(* a choice, made for each node once.  A node is its path from the root.   *)
(***************************************************************************)
EXTENDS Library

\* uts_numChildren_bin: none, or nonLeafBF.
Binomial(a) == {0, a.nonLeafBF}

\* uts_numChildren_geo with a shape of which gen_mx is the depth (LINEAR, FIXED).
Geometric(a, height) == IF height = 0 \/ height < a.gen_mx THEN 0..a.maxChildren ELSE {0}

\* How many children a node of this height may have: uts_numChildren, which cuts off
\* all but a binomial root at MAXNUMCHILDREN (here maxChildren).
NumChildren(a, height) ==
  LET drawn == CASE a.type = "BIN" /\ height = 0 -> {a.b_0}
                 [] a.type = "BIN" -> Binomial(a)
                 [] a.type = "GEO" -> Geometric(a, height)
                 [] a.type = "HYBRID" -> IF height < a.shift THEN Geometric(a, height)
                                         ELSE Binomial(a)
                 [] a.type = "BALANCED" -> IF height < a.gen_mx THEN {a.b_0} ELSE {0}
  IN  IF a.type = "BIN" /\ height = 0 THEN drawn
      ELSE {Min({k, a.maxChildren}) : k \in drawn}

\* The trees these parameters can make, up to a bound on the height.  A tree maps its
\* nodes to their numbers of children.
Trees(a, maxHeight) ==
  LET Most  == IF a.b_0 > a.maxChildren THEN a.b_0 ELSE a.maxChildren
      Paths == UNION {[1..h -> 0..(Most - 1)] : h \in 0..maxHeight}
      In(g) == {s \in Paths : \A h \in 1..Len(s) : s[h] < g[SubSeq(s, 1, h - 1)]}
  IN  {[s \in In(g) |-> g[s]] :
         g \in {f \in [Paths -> 0..Most] :
                  \A s \in Paths : /\ f[s] \in NumChildren(a, Len(s))
                                   /\ Len(s) = maxHeight => f[s] = 0}}

-----------------------------------------------------------------------------
\* UTSIterator: a node and which of its children comes next.  (Only the iterator that
\* has no node at all is born processed.)
Iterator(node) == [node |-> node, current_child |-> 0]

HasNext(a, it) == it.current_child < a.tree[it.node]

\* The child next() returns, and the iterator it leaves.
Child(it)    == Iterator(it.node \o <<it.current_child>>)
Advanced(it) == [it EXCEPT !.current_child = @ + 1]

\* process(): the node is counted.
ProcessNode(it) == <<[op |-> "visit", node |-> it.node]>>

\* Mutated form: the child goes in before its parent.
ParentOnTop(parent, child) == child \o parent

ChildOnTop(parent, child) == parent \o child

StrictDfsTask(a, it) ==
  LET rest  == Advanced(it)
      later == IF HasNext(a, rest) THEN <<Add(1, rest)>> ELSE ProcessNode(it)
  IN  <<Create(1)>>
      \o (IF HasNext(a, it) THEN ChildOnTop(later, <<Add(1, Child(it))>>)
          ELSE ProcessNode(it))
      \o <<Destroy(1)>>

\* Mutated form: the queue's progress engine runs before the slot is filled.
AddChildProgressing(a, it) ==
  IF a.inplace THEN <<Inplace(1), Progress, Fill(it)>> ELSE <<Add(1, it)>>

AddChild(a, it) == IF a.inplace THEN <<Inplace(1), Fill(it)>> ELSE <<Add(1, it)>>

TaskFcn(a, it) ==
  LET adds == FlattenSeq([i \in 1..a.tree[it.node] |->
                AddChild(a, Child([it EXCEPT !.current_child = i - 1]))])
  IN  IF a.inplace THEN ProcessNode(it) \o adds
      ELSE <<Create(1)>> \o ProcessNode(it) \o adds \o <<Destroy(1)>>

UtsBody(a, fcn, it) ==
  IF fcn = "strict_dfs_task_fcn" THEN StrictDfsTask(a, it) ELSE TaskFcn(a, it)

\* The root, added by process 0 in a buffer it keeps until the end.
UtsSeed == <<Add(1, Iterator(<<>>))>>

UtsExpected(a) ==
  [nNodes   |-> Cardinality(DOMAIN a.tree),
   nLeaves  |-> Cardinality({s \in DOMAIN a.tree : a.tree[s] = 0}),
   maxDepth |-> Max({Len(s) : s \in DOMAIN a.tree})]

\* ldbal_scioto
LdbalScioto(a, n, p) ==
  <<Class(IF a.strict THEN "strict_dfs_task_fcn" ELSE "task_fcn")>>
  \o GtcCreate(CfgInit) \o <<Create(1)>>
  \o (IF p = 0 THEN UtsSeed ELSE <<>>) \o <<Barrier>>
  \o GtcProcess \o GtcPrintStats(n, p, FALSE) \o <<Destroy(1)>> \o GtcDestroy

UtsMain(a, n, p) ==
  GtcInit \o <<Barrier>> \o LdbalScioto(a, n, p)
  \o <<Reduce("sum", <<"nNodes", "nLeaves">>), Reduce("max", <<"maxDepth">>)>> \o GtcFini
=============================================================================
