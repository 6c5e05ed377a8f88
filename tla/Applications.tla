---------------------------- MODULE Applications ----------------------------
(***************************************************************************)
(* The example programs on the library: N processes that run the same main *)
(* program, from gtc_init to gtc_fini.                                     *)
(*                                                                         *)
(* `script` is a process's stack: the steps it has still to take, with the *)
(* steps of the call it is in first.  A process that searches for work     *)
(* runs the body of the task it found and goes on searching.               *)
(*                                                                         *)
(* A queue is a sequence, its head first, of which the last `shared` tasks *)
(* may be stolen (SawsQueue and SdcQueue have the rings), and global       *)
(* termination is known when it holds (Termination has the tokens).        *)
(***************************************************************************)
EXTENDS Bpc, Uts, Madness, Tasks, StealHalf

CONSTANTS
  N,       \* _c->size
  Apps,    \* the programs, each with its arguments, to look at
  TreeHeight  \* bound: the height of the trees UTS counts

ASSUME NAssumption == N \in Nat \ {0}
ASSUME TreeHeightAssumption == TreeHeight \in Nat

\* The programs with their arguments: what the command line may give them.
Kinds         == {"SAWS", "SDC"}
BpcPrograms   == [prog : {"bpc"}, kind : Kinds, initial : Nat, nchildren : Nat,
                  maxdepth : Nat, bouncing : BOOLEAN]
UtsPrograms   == [prog : {"uts"}, kind : Kinds, strict : BOOLEAN, inplace : BOOLEAN,
                  type : {"BIN", "GEO", "HYBRID", "BALANCED"}, b_0 : Nat, nonLeafBF : Nat,
                  gen_mx : Nat, maxChildren : Nat, shift : Nat, tree : {<<>>}]
MadPrograms   == [prog : {"mad3d"}, kind : Kinds, dims : Nat \ {0}, initial_level : Nat,
                  max_level : Nat, test_eval : BOOLEAN, fine : {{}}]
TasksPrograms == [prog : {"tasks"}, kind : Kinds, tasks : Nat]

ASSUME AppsAssumption ==
  Apps \subseteq (BpcPrograms \cup UtsPrograms \cup MadPrograms \cup TasksPrograms)

VARIABLES
  app,        \* the program that all processes run
  script,     \* what each process has to do
  up,         \* gtc_is_initialized, with auto_teardown: "down", "up" or "auto"
  handles,    \* slots in use of _c->tcs
  clod,       \* objects in the collection's tc->clod
  classes,    \* task_class_reg: the functions
  buffers,    \* task descriptors: the spare one of each class, and those in use
  prog,       \* the program's variables: its collection, its keys, its classes
  queue, shared,       \* tc->shared_rb
  claim,      \* tasks a thief has claimed and not copied yet, and from whom
  unreclaimed,  \* slots that tasks were claimed from and the owner has not reclaimed, at
              \* most (of the SAWS queue; the SDC queue waits when it needs them: 0)
  terminated, \* is tc->terminated STATE_TERMINATED?
  spawned, completed,  \* tc->ct
  heap,       \* blocks of symmetric memory in use
  tally,      \* the program's counters
  total,      \* results of reductions
  printed,    \* who has printed statistics, in order; N for the totals
  ftree       \* Madness: func_t's tree

library == <<up, handles, clod, classes, prog>>
pool    == <<queue, shared, claim, unreclaimed, terminated, spawned, completed>>
results == <<tally, total, printed, ftree>>
vars    == <<app, script, library, buffers, pool, heap, results>>

Procs == 0..(N - 1)

NoClaim(p) == [from |-> p, tasks |-> <<>>]

All(v)   == [p \in Procs |-> v]
Total(f) == MapThenSumSet(LAMBDA p : f[p], Procs)

\* What process p does next, and what it does then.
Does(p, name)  == script[p] # <<>> /\ Head(script[p]).op = name
Now(p)         == Head(script[p])
Then(p, steps) == script' = [script EXCEPT ![p] = steps \o Tail(@)]
Done(p)        == Then(p, <<>>)

Main(a, p) == CASE a.prog = "bpc"   -> BpcMain(a, N, p)
                [] a.prog = "uts"   -> UtsMain(a, N, p)
                [] a.prog = "mad3d" -> MadMain(a, N, p)
                [] a.prog = "tasks" -> TasksMain(a, N, p)

Body(a, fcn, b) == CASE a.prog = "bpc"   -> BpcBody(a, fcn, b)
                     [] a.prog = "uts"   -> UtsBody(a, fcn, b)
                     [] a.prog = "mad3d" -> MadBody(b)
                     [] a.prog = "tasks" -> TasksBody

\* What the program's counters must come to, all processes taken together.
Expected(a) == CASE a.prog = "bpc"   -> BpcExpected(a)
                 [] a.prog = "uts"   -> UtsExpected(a)
                 [] a.prog = "mad3d" -> MadExpected(a)
                 [] a.prog = "tasks" -> TasksExpected(a)

-----------------------------------------------------------------------------
(***************************************************************************)
(* Steps all processes take together.                                      *)
(***************************************************************************)
Together(name) == \A p \in Procs : Does(p, name)
AllDone == script' = [p \in Procs |-> Tail(script[p])]

PassBarrier ==
  /\ Together("barrier") /\ AllDone
  /\ UNCHANGED <<app, library, buffers, pool, heap, results>>

ShmemMalloc ==
  /\ Together("alloc") /\ AllDone
  /\ heap' = [p \in Procs |-> heap[p] \cup ToSet(Now(p).blocks)]
  /\ UNCHANGED <<app, library, buffers, pool, results>>

ShmemFree ==
  /\ Together("free") /\ AllDone
  /\ heap' = [p \in Procs |-> heap[p] \ ToSet(Now(p).blocks)]
  /\ UNCHANGED <<app, library, buffers, pool, results>>

\* What process p contributes to a reduction, and what the reduction makes of it.
Value(p, v) == IF v = "tasks_completed" THEN completed[p] ELSE tally[p][v]

Reduced(fn, v) == IF fn = "max" THEN Max({Value(p, v) : p \in Procs})
                  ELSE MapThenSumSet(LAMBDA p : Value(p, v), Procs)

ShmemReduce ==
  /\ Together("reduce") /\ AllDone
  /\ total' = [p \in Procs |->
                 [v \in ToSet(Now(p).vars) |-> Reduced(Now(p).fn, v)] @@ total[p]]
  /\ UNCHANGED <<app, library, buffers, pool, heap, tally, printed, ftree>>

ShmemFinalize ==
  /\ Together("finalize") /\ AllDone /\ up' = All("down")
  /\ UNCHANGED <<app, handles, clod, classes, prog, buffers, pool, heap, results>>

-----------------------------------------------------------------------------
(***************************************************************************)
(* Creation, registries and destruction.                                   *)
(***************************************************************************)
\* gtc_init, by the program or by gtc_create.
Init_(p, how) ==
  /\ up' = [up EXCEPT ![p] = how] /\ handles' = [handles EXCEPT ![p] = {}]
  /\ Done(p) /\ UNCHANGED <<app, clod, classes, prog, buffers, pool, heap, results>>

GtcInitStep(p) == Does(p, "init") /\ Init_(p, "up")

ImplicitInit(p) ==
  /\ Does(p, "implicit_init")
  /\ Init_(p, IF up[p] = "down" THEN "auto" ELSE up[p])

HandleRegister(p) ==
  /\ Does(p, "register") /\ Done(p)
  /\ handles' = [handles EXCEPT ![p] = @ \cup {FirstFree(@)}]
  /\ prog' = [prog EXCEPT ![p].gtc = FirstFree(handles[p])]
  /\ UNCHANGED <<app, up, clod, classes, buffers, pool, heap, results>>

\* clod_create and clod_destroy
ClodChange(p) ==
  /\ Does(p, "clod_create") \/ Does(p, "clod_destroy")
  /\ Done(p) /\ clod' = [clod EXCEPT ![p] = <<>>]
  /\ UNCHANGED <<app, up, handles, classes, prog, buffers, pool, heap, results>>

\* gtc_ldbal_cfg_set (what it may be set to is Scheduler's concern), and the end of
\* what Madness does with the tree.
Configure(p) ==
  /\ Does(p, "configure") \/ Does(p, "evaluate")
  /\ Done(p) /\ UNCHANGED <<app, library, buffers, pool, heap, results>>

\* gtc_clo_associate: clod_nextfree and clod_assign.
CloAssociate(p) ==
  LET key == Nextfree(clod[p]) IN
  /\ Does(p, "associate") /\ Done(p)
  /\ clod' = [clod EXCEPT ![p] = [i \in (1..Len(@)) \cup {key + 1} |->
                 IF i = key + 1 THEN Now(p).object ELSE @[i]]]
  /\ prog' = [prog EXCEPT ![p].keys = Append(@, key)]
  /\ UNCHANGED <<app, up, handles, classes, buffers, pool, heap, results>>

ClassRegister(p) ==
  /\ Does(p, "class") /\ Done(p)
  /\ classes' = [classes EXCEPT ![p] = Append(@, Now(p).fcn)]
  /\ buffers' = [buffers EXCEPT ![p].spare = Append(@, NoBuffer)]
  /\ prog' = [prog EXCEPT ![p].classes = Append(@, Len(classes[p]))]
  /\ UNCHANGED <<app, up, handles, clod, pool, heap, results>>

\* gtc_handle_release at the end of gtc_destroy, with the automatic gtc_fini.
HandleRelease(p) ==
  LET left == handles[p] \ {prog[p].gtc} IN
  /\ Does(p, "release")
  /\ handles' = [handles EXCEPT ![p] = left]
  /\ Then(p, IF left = {} /\ up[p] = "auto" THEN GtcFini ELSE <<>>)
  /\ UNCHANGED <<app, up, clod, classes, prog, buffers, pool, heap, results>>

-----------------------------------------------------------------------------
(***************************************************************************)
(* A process's own steps in the main program and in tasks.                 *)
(***************************************************************************)
\* The program's numbering of its classes is the library's from 1.
ClassId(p, c) == prog[p].classes[c]

TaskCreate(p) ==
  LET c == ClassId(p, Now(p).class) + 1 IN
  /\ Does(p, "create") /\ Done(p)
  /\ buffers' = [buffers EXCEPT ![p] = Created(@, c)]
  /\ UNCHANGED <<app, library, pool, heap, results>>

TaskDestroy(p) ==
  LET c == ClassId(p, Now(p).class) + 1 IN
  /\ Does(p, "destroy") /\ Done(p)
  /\ buffers' = [buffers EXCEPT ![p] = Destroyed(@, c)]
  /\ UNCHANGED <<app, library, pool, heap, results>>

\* gtc_add, and gtc_task_inplace_create_and_add, which returns before the body is there.
Pushed(p, body, filled) ==
  <<[class |-> ClassId(p, Now(p).class), body |-> body, filled |-> filled,
     created_by |-> p]>> \o queue[p]

\* What a slot that was allocated in place holds: of no meaning yet.
StaleBody == Iterator(<<>>)

TaskAdd(p) ==
  /\ \/ Does(p, "add") /\ queue' = [queue EXCEPT ![p] = Pushed(p, Now(p).body, TRUE)]
     \/ Does(p, "inplace") /\ queue' = [queue EXCEPT ![p] = Pushed(p, StaleBody, FALSE)]
  /\ Done(p)
  /\ spawned' = [spawned EXCEPT ![p] = @ + 1]
  /\ UNCHANGED <<app, library, buffers, shared, claim, unreclaimed, terminated, completed,
                 heap, results>>

TaskFill(p) ==
  /\ Does(p, "fill") /\ Done(p)
  /\ queue' = [queue EXCEPT ![p][1].body = Now(p).body, ![p][1].filled = TRUE]
  /\ UNCHANGED <<app, library, buffers, shared, claim, unreclaimed, terminated, spawned,
                 completed, heap, results>>

\* Thieves that are copying tasks out of p's queue.
CopiedFrom(p) == {q \in Procs : claim[q].from = p /\ claim[q].tasks # <<>>}

\* Mutated form: more is shared although something is.
ProgressedAlways(p) == {[shared EXCEPT ![p] = @ + Released(Len(queue[p]))]}

\* gtc_progress shares half of the tasks when none are shared.  The SAWS loop does so only
\* with more than one task, and when the slots of all claims are reclaimed: by an earlier
\* progress, of the search loop too, or by a push or a reacquire.
Progressed(p) ==
  LET free == shared[p] = 0 /\ (app.kind = "SAWS" => Len(queue[p]) > 1 /\ CopiedFrom(p) = {})
  IN  (IF free THEN {[shared EXCEPT ![p] = Released(Len(queue[p]))]} ELSE {})
      \cup (IF free /\ unreclaimed[p] = 0 THEN {} ELSE {shared})

\* It then reclaims what nobody copies any more.
Reclaimed(p) == [unreclaimed EXCEPT ![p] = IF CopiedFrom(p) = {} THEN 0 ELSE @]

CallProgress(p) ==
  /\ Does(p, "progress") /\ Done(p) /\ shared' \in Progressed(p) /\ unreclaimed' = Reclaimed(p)
  /\ UNCHANGED <<app, library, buffers, queue, claim, terminated, spawned, completed,
                 heap, results>>

\* What process p counts in a step of the program.
Visited(t, node) ==
  [t EXCEPT !.nNodes = @ + 1, !.nLeaves = IF app.tree[node] = 0 THEN @ + 1 ELSE @,
            !.maxDepth = Max({@, Len(node)})]

Bumped(p, keys) ==
  LET objects == {Lookup(clod[p], keys[i]) : i \in DOMAIN keys}
  IN  [v \in DOMAIN tally[p] |-> tally[p][v] + IF v \in objects THEN 1 ELSE 0]

CountTask(p) ==
  /\ \/ Does(p, "bump")  /\ tally' = [tally EXCEPT ![p] = Bumped(p, Now(p).keys)]
     \/ Does(p, "visit") /\ tally' = [tally EXCEPT ![p] = Visited(@, Now(p).node)]
     \/ Does(p, "sleep") /\ tally' = [tally EXCEPT ![p].sleep_time = @ + 1]
  /\ Done(p)
  /\ UNCHANGED <<app, library, buffers, pool, heap, total, printed, ftree>>

PrintStats(p) ==
  /\ Does(p, "print") /\ Done(p)
  /\ printed' = Append(printed, IF Now(p).what = "totals" THEN N ELSE p)
  /\ UNCHANGED <<app, library, buffers, pool, heap, tally, total, ftree>>

\* bpc's process 0 makes its tasks with the keys it was given.
Seed(p) ==
  /\ Does(p, "seed") /\ Then(p, BpcSeed(app, prog[p].keys))
  /\ UNCHANGED <<app, library, buffers, pool, heap, results>>

\* The tree refine works on: the process's, or the one node a task has made.
Tree(p) == IF Now(p).kept THEN ftree[p] ELSE <<>> :> NodeAlloc(Now(p).box)

SplitTree(p) ==
  Split(app, Tree(p), IF Now(p).kept THEN Now(p).node ELSE <<>>, Now(p).box)

RefineBox(p) ==
  /\ Does(p, "refine")
  /\ ftree' = IF Now(p).kept THEN [ftree EXCEPT ![p] = SplitTree(p)] ELSE ftree
  /\ tally' = [tally EXCEPT ![p][Now(p).box] = @ + 1]
  /\ Then(p, Further(app, Now(p).kept, Now(p).node, Now(p).box))
  /\ UNCHANGED <<app, library, buffers, pool, heap, total, printed>>

ChangeTree(p) ==
  /\ \/ Does(p, "create_tree") /\ ftree' = [ftree EXCEPT ![p] = CreateTree(app)]
     \/ Does(p, "wipe") /\ ftree' = [ftree EXCEPT ![p] = Wipe(@, Now(p).node)]
  /\ Done(p) /\ UNCHANGED <<app, library, buffers, pool, heap, tally, total, printed>>

-----------------------------------------------------------------------------
(***************************************************************************)
(* gtc_process.                                                            *)
(***************************************************************************)
Start(p) ==
  /\ Does(p, "start") /\ Then(p, <<Step("get")>>)
  /\ terminated' = [terminated EXCEPT ![p] = FALSE]
  /\ UNCHANGED <<app, library, buffers, queue, shared, claim, unreclaimed, spawned, completed,
                 heap, results>>

\* gtc_get_buf makes progress before it looks at its own queue.
Get(p) ==
  /\ Does(p, "get") /\ Then(p, <<Step("pop")>>)
  /\ shared' \in Progressed(p) /\ unreclaimed' = Reclaimed(p)
  /\ UNCHANGED <<app, library, buffers, queue, claim, terminated, spawned, completed,
                 heap, results>>

Execute(p, t) ==
  Then(p, Body(app, Lookup(classes[p], t.class), t.body)
          \o <<Step("executed"), Step("get")>>)

\* pop_head, after reacquiring half of the shared tasks when all are shared, and then
\* gtc_task_execute.
PopHead(p) ==
  /\ Does(p, "pop") /\ queue[p] # <<>> /\ Execute(p, Head(queue[p]))
  /\ shared' = [shared EXCEPT ![p] = IF @ = Len(queue[p]) THEN @ - Reacquired(@) ELSE @]
  /\ queue'  = [queue EXCEPT ![p] = Tail(@)]
  /\ UNCHANGED <<app, library, buffers, claim, unreclaimed, terminated, spawned, completed,
                 heap, results>>

PopNothing(p) ==
  /\ Does(p, "pop") /\ queue[p] = <<>> /\ Then(p, <<Step("search")>>)
  /\ UNCHANGED <<app, library, buffers, pool, heap, results>>

Executed(p) ==
  /\ Does(p, "executed") /\ Done(p)
  /\ completed' = [completed EXCEPT ![p] = @ + 1]
  /\ UNCHANGED <<app, library, buffers, queue, shared, claim, unreclaimed, terminated, spawned,
                 heap, results>>

\* A steal: the claim of tasks at the tail, and their copying to the head.
Claim(p, v, n) ==
  LET keeps == Len(queue[v]) - n IN
  /\ Does(p, "search") /\ p # v /\ n <= shared[v] /\ Then(p, <<Step("copy")>>)
  /\ queue'  = [queue EXCEPT ![v] = SubSeq(@, 1, keeps)]
  /\ shared' = [shared EXCEPT ![v] = @ - n]
  /\ claim'  = [claim EXCEPT ![p] = [from |-> v, tasks |-> SubSeq(queue[v], keeps + 1, keeps + n)]]
  /\ unreclaimed' = [unreclaimed EXCEPT ![v] = IF app.kind = "SAWS" THEN @ + n ELSE @]
  /\ UNCHANGED <<app, library, buffers, terminated, spawned, completed, heap, results>>

Land(p) ==
  /\ Does(p, "copy") /\ Then(p, <<Step("get")>>)
  /\ queue' = [queue EXCEPT ![p] = claim[p].tasks \o @]
  /\ claim' = [claim EXCEPT ![p] = NoClaim(p)]
  /\ UNCHANGED <<app, library, buffers, shared, unreclaimed, terminated, spawned, completed,
                 heap, results>>

\* gtc_process returns when all tasks of all processes are completed.
Return(p) ==
  /\ Does(p, "search") /\ Total(spawned) = Total(completed) /\ Done(p)
  /\ terminated' = [terminated EXCEPT ![p] = TRUE]
  /\ UNCHANGED <<app, library, buffers, queue, shared, claim, unreclaimed, spawned, completed,
                 heap, results>>

-----------------------------------------------------------------------------
\* The programs an entry of Apps stands for: its random tree, its analytic function.
Programs(a) == CASE a.prog = "uts"   -> {[a EXCEPT !.tree = t] : t \in Trees(a, TreeHeight)}
                 [] a.prog = "mad3d" -> {[a EXCEPT !.fine = f] : f \in FineSets(a)}
                 [] OTHER            -> {a}

Init ==
  /\ \E a \in Apps : app \in Programs(a)
  /\ script = [p \in Procs |-> Main(app, p)]
  /\ up = All("down") /\ handles = All({}) /\ clod = All(<<>>) /\ classes = All(<<>>)
  /\ buffers = All([spare |-> <<>>, held |-> <<>>])
  /\ prog = All([gtc |-> GTC_MAX_TC, keys |-> <<>>, classes |-> <<>>])
  /\ queue = All(<<>>) /\ shared = All(0) /\ claim = [p \in Procs |-> NoClaim(p)]
  /\ unreclaimed = All(0)
  /\ terminated = All(FALSE) /\ spawned = All(0) /\ completed = All(0)
  /\ heap = All({}) /\ tally = All([v \in DOMAIN Expected(app) |-> 0])
  /\ total = All(<<>>) /\ printed = <<>> /\ ftree = All(<<>>)

Collective == PassBarrier \/ ShmemMalloc \/ ShmemFree \/ ShmemReduce \/ ShmemFinalize

Registry(p) == \/ GtcInitStep(p) \/ ImplicitInit(p) \/ HandleRegister(p) \/ ClodChange(p)
               \/ Configure(p) \/ CloAssociate(p) \/ ClassRegister(p) \/ HandleRelease(p)

Program(p) == \/ TaskCreate(p) \/ TaskDestroy(p) \/ TaskAdd(p) \/ TaskFill(p)
              \/ CallProgress(p) \/ CountTask(p) \/ PrintStats(p) \/ Seed(p)
              \/ RefineBox(p) \/ ChangeTree(p)

Process(p) == \/ Start(p) \/ Get(p) \/ PopHead(p) \/ PopNothing(p) \/ Executed(p)
              \/ Land(p) \/ Return(p)
              \/ \E v \in Procs : \E n \in 1..shared[v] : Claim(p, v, n)

Next == Collective \/ \E p \in Procs : Registry(p) \/ Program(p) \/ Process(p)

Spec == Init /\ [][Next]_vars

\* Processes run, and collectives all have come to take place.
Fairness == /\ WF_vars(Collective)
            /\ \A p \in Procs : WF_vars(Registry(p) \/ Program(p) \/ Process(p))

LiveSpec == Spec /\ Fairness

-----------------------------------------------------------------------------
(***************************************************************************)
(* Properties.                                                             *)
(***************************************************************************)
Finished == \A p \in Procs : script[p] = <<>>

TypeOK ==
  /\ up \in [Procs -> {"down", "up", "auto"}]
  /\ \A p \in Procs :
       /\ handles[p] \subseteq 0..(GTC_MAX_TC - 1)
       /\ shared[p] \in 0..Len(queue[p])
       /\ spawned[p] \in Nat /\ completed[p] \in Nat
       /\ claim[p].tasks # <<>> => claim[p].from \in Procs \ {p}
       /\ \A v \in DOMAIN tally[p] : tally[p][v] \in Nat
  /\ terminated \in [Procs -> BOOLEAN]

\* The tasks process p holds.
Holds(p) == queue[p] \o claim[p].tasks

\* A task class and a common local object, which are positions in a process's own
\* tables, stand for the same function and the same object on the process that has the
\* task as on the one that created it (clod_nextfree, gtc_task_class_register).
KeysAgree ==
  \A p \in Procs : \A h \in DOMAIN Holds(p) :
    LET t == Holds(p)[h]
        q == t.created_by
    IN
    /\ Registered(classes[p], t.class)
    /\ Lookup(classes[p], t.class) = Lookup(classes[q], t.class)
    /\ app.prog = "bpc" => \A i \in DOMAIN t.body.keys :
         /\ Registered(clod[p], t.body.keys[i])
         /\ Lookup(clod[p], t.body.keys[i]) = Lookup(clod[q], t.body.keys[i])

\* A descriptor that is in use is neither in use twice nor the spare of a class.
DescriptorsExclusive(b) ==
  /\ \A i, j \in DOMAIN b.held : b.held[i] = b.held[j] => i = j
  /\ Range(b.held) \cap Range(b.spare) = {}

\* What the code asserts, or relies on, in the step process p takes next.
Asserts(p) ==
  LET s == Now(p)
      On(ops) == s.op \in ops
  IN  /\ On({"init", "implicit_init"}) \/ up[p] # "down"
      /\ On({"add", "progress", "start", "get", "search", "associate", "bump"}) =>
           prog[p].gtc \in handles[p]
      /\ On({"register"})  => FirstFree(handles[p]) # GTC_MAX_TC
      /\ On({"associate"}) => Len(clod[p]) < GTC_MAX_CLOD_CLOS
      /\ On({"class"})     => Len(classes[p]) < GTC_MAX_TASK_CLASSES
      /\ On({"configure"}) => CfgValid(s.cfg)
      /\ On({"add"})       => ~terminated[p]
      /\ On({"bump"}) => \A i \in DOMAIN s.keys : Registered(clod[p], s.keys[i])
      /\ On({"refine"}) /\ s.box.level \in app.initial_level..app.max_level =>
           Gathers(app, SplitTree(p), IF s.kept THEN s.node ELSE <<>>)
      /\ On({"add", "destroy"}) => DescriptorsExclusive(buffers[p])
      /\ terminated[p] => queue[p] = <<>>

\* No assertion of the library outside its queues (theirs are in the queue modules) or of
\* a program fails: the library is up, handles and registries have room, all that refine
\* gathers has been projected, and nobody else has the descriptor a task is added from.
NothingAborts == \A p \in Procs : script[p] # <<>> => Asserts(p)

\* What the processes have counted comes to what it should (bpc's final check, the
\* number of nodes of UTS, every box refined once), reductions give all of them the
\* result, and the report shows a task completed for every one spawned.
FinalCounts ==
  Finished =>
    /\ \A v \in DOMAIN Expected(app) :
         Expected(app)[v] =
           IF app.prog = "uts" /\ v = "maxDepth" THEN Max({tally[p][v] : p \in Procs})
           ELSE MapThenSumSet(LAMBDA p : tally[p][v], Procs)
    /\ \A p \in Procs : \A v \in DOMAIN total[p] :
         total[p][v] = IF v = "tasks_completed" THEN Total(spawned) ELSE Expected(app)[v]

\* Per-process statistics are printed by the processes in turn, and the totals last.
StatsInRankOrder == \A i \in 2..Len(printed) : printed[i - 1] < printed[i]

\* Symmetric memory is the same on all processes at all times, and at the end the ring's
\* lock array (synch_mutex_init), which nothing frees, is all that is left of it.
SymmetricHeap ==
  /\ \A p, q \in Procs : heap[p] = heap[q]
  /\ Finished => heap = All(ToSet(LockBlock))

\* In a strict depth-first search a queue's tasks lie on one path of the tree, deepest
\* at the head, wherever they were stolen from: no queue grows beyond the tree's height.
DeepestOnTop ==
  app.prog = "uts" /\ app.strict =>
    \A p \in Procs : \A i, j \in DOMAIN queue[p] :
      i < j => IsPrefix(queue[p][j].body.node, queue[p][i].body.node)
               /\ queue[p][j].body.node # queue[p][i].body.node

\* "Can't release until the inplace op completes": a slot that was allocated in place is
\* neither shared nor stolen before its body is filled in.
BlankNeverShared ==
  \A p \in Procs :
    /\ \A i \in DOMAIN queue[p] : queue[p][i].filled \/ i <= Len(queue[p]) - shared[p]
    /\ \A i \in DOMAIN claim[p].tasks : claim[p].tasks[i].filled

\* From the root, eval comes to coefficients for every point of the cube: those of a box
\* with the point in it that was not refined any further.
EvalFindsBox ==
  \A p \in Procs : Does(p, "evaluate") =>
    \A pt \in Points(app) :
      LET b == Eval(app, ftree[p], pt) IN
      /\ b # NoBox /\ HoldsPoint(app, b, pt)
      /\ b \notin app.fine /\ Reached(app, Ancestor(b, b.level - 1))

\* Tasks are stolen from a process that has just made progress, which shares them, and
\* comes to pop_head.
StolenBack ==
  \E p, v \in Procs : \E n \in 1..shared[v] : Claim(p, v, n) /\ Does(v, "pop")

\* All processes come to the end of the program; with the SDC queue, which shares a
\* single task too, unless tasks are stolen for ever from those about to run them.
EveryoneFinishes == (app.kind = "SDC" /\ []<><<StolenBack>>_vars) \/ <>Finished
=============================================================================
