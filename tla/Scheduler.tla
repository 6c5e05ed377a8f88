----------------------------- MODULE Scheduler -----------------------------
(***************************************************************************)
(* One task collection in use: gtc_add, gtc_process with the search loop   *)
(* of gtc_get_buf (both queue types), gtc_reset, and again.                *)
(*                                                                         *)
(* Queues are reduced to the number of tasks in each part (SawsQueue and   *)
(* SdcQueue show that each is a pool from which a task is taken once), and *)
(* termination detection to its waves: between two decisions of the root   *)
(* every process adds its counters to the sum once, the root last, and     *)
(* hears the verdict after it is given (Termination has the tokens).       *)
(*                                                                         *)
(* All processes use the same configuration.  Timers, and the counters     *)
(* that are only printed, are left out.                                    *)
(***************************************************************************)
EXTENDS Integers, Sums, StealHalf

CONSTANTS
  N,          \* _c->size
  Confs,      \* the configurations to look at
  TaskBound(_),  \* bound: tasks added between two resets, for each configuration
  Externals(_)   \* the processes that may announce external work

ASSUME NAssumption == N \in Nat \ {0}
ASSUME ConfAssumption ==
  Confs \subseteq [kind : {"SAWS", "SDC"}, stealing : BOOLEAN,
                  selection : {"RANDOM", "ROUND_ROBIN"}]
ASSUME BoundAssumption == \A c \in Confs : TaskBound(c) \in Nat

VARIABLES
  conf,       \* tc->qtype, ldbal_cfg.stealing_enabled, ldbal_cfg.target_selection
  pc,         \* where each process is
  local, shared,   \* tasks in the two parts of each process's queue
  unreclaimed,     \* is there space that thieves have copied and the owner not
                   \* reclaimed?  (The SDC queue's size does not count it: FALSE.)
  buf,        \* tasks in each process's steal_buf
  target,     \* vs_state.last_target: whom each process tried last
  lastTarget, \* tc->last_target (kept where it is read: in the SDC loop, round-robin)
  external,   \* tc->external_work_avail
  spawned, completed,  \* tc->ct
  terminated, \* tc->terminated
  wave,       \* who has voted in this wave, and the sums so far
  last,       \* the sums of the wave before
  over        \* has the root decided that all work is done?

queues  == <<local, shared, unreclaimed, buf>>
targets == <<target, lastTarget>>
td      == <<terminated, wave, last, over>>
counts  == <<spawned, completed>>
vars    == <<conf, pc, queues, targets, external, counts, td>>

MaxTasks == TaskBound(conf)

Procs == 0..(N - 1)
Root  == 0

All(v)   == [p \in Procs |-> v]
Total(f) == SumTo(N, f)
Goto(p, l) == pc' = [pc EXCEPT ![p] = l]

\* Thieves that are copying tasks out of v's queue.
Copying(v) == {p \in Procs : pc[p] = "copy" /\ target[p] = v}

\* The SAWS queue's size counts claimed tasks until their space is reclaimed.
ClaimsCount(p) == conf.kind = "SAWS" /\ (unreclaimed[p] \/ Copying(p) # {})

\* gtc_tasks_avail > 0
TasksAvail(p) == local[p] + shared[p] > 0 \/ ClaimsCount(p)

\* How many of n local tasks gtc_progress shares: half when nothing is shared.  The SAWS
\* loop does so only with more than one task, which stays with its owner, and when the
\* space of all claims is reclaimed; a push or a reacquire just before it may have done
\* that.
Shares(p, n) ==
  LET free == shared[p] = 0 /\ (conf.kind = "SAWS" => n > 1 /\ Copying(p) = {})
  IN  (IF free THEN {Released(n)} ELSE {}) \cup (IF free /\ ~unreclaimed[p] THEN {} ELSE {0})

\* gtc_progress: it shares, then reclaims all that is copied, if nothing older is being
\* copied.
Progress(p, n) ==
  \E r \in Shares(p, n) : /\ local'  = [local EXCEPT ![p] = n - r]
                          /\ shared' = [shared EXCEPT ![p] = @ + r]

Reclaims(p) == IF Copying(p) = {} THEN {FALSE} ELSE {FALSE, unreclaimed[p]}

Reclaim(p) == \E u \in Reclaims(p) : unreclaimed' = [unreclaimed EXCEPT ![p] = u]

-----------------------------------------------------------------------------
(***************************************************************************)
(* Outside gtc_process, and inside a task: the program's calls.            *)
(***************************************************************************)
\* Mutated form: an add meant for another process is counted and dropped, as the
\* code does when proc is not the caller.
DropAdded(p) == local

Added(p) == [local EXCEPT ![p] = @ + 1]

\* gtc_add to oneself, or gtc_task_inplace_create_and_add.
Add(p) ==
  /\ pc[p] \in {"idle", "run"} /\ Total(spawned) < MaxTasks
  /\ local' = Added(p)
  /\ spawned' = [spawned EXCEPT ![p] = @ + 1]
  /\ UNCHANGED <<conf, pc, shared, unreclaimed, buf, targets, external,
                 completed, td>>

\* gtc_set_external_work_avail: set before the phase, cleared once within it ("Once
\* it transition from true to false it should stay that way").
SetExternal(p) ==
  /\ p \in Externals(conf)
  /\ IF external[p] THEN pc[p] \notin {"idle", "process"} ELSE pc[p] = "idle"
  /\ external' = [external EXCEPT ![p] = ~@]
  /\ UNCHANGED <<conf, pc, queues, targets, counts, td>>

\* gtc_progress, or gtc_task_inplace_create_and_add_finish, which calls it.
CallProgress(p) ==
  /\ pc[p] \in {"idle", "run"} /\ Progress(p, local[p]) /\ Reclaim(p)
  /\ UNCHANGED <<conf, pc, buf, targets, external, counts, td>>

Enter(p) == /\ pc[p] = "idle" /\ Goto(p, "process")
            /\ UNCHANGED <<conf, queues, targets, external, counts, td>>

\* Where a process is after each barrier: gtc_process, and the two of td_reset.
After(b) == CASE b = "process" -> "get"
              [] b = "td_reset" -> "clear_td"
              [] b = "td_ready" -> "clear_queue"
Barriers == {"process", "td_reset", "td_ready"}

Barrier(b) == /\ pc = All(b) /\ pc' = All(After(b))
              /\ UNCHANGED <<conf, queues, targets, external, counts, td>>

-----------------------------------------------------------------------------
(***************************************************************************)
(* gtc_get_buf                                                             *)
(***************************************************************************)
\* Only round-robin selection reads whom a process tried last, and only the SDC loop
\* carries it over to the next call.
Tried(v) == IF conf.selection = "ROUND_ROBIN" THEN v ELSE 0
Kept(v)  == IF conf.kind = "SDC" THEN Tried(v) ELSE 0

FirstTarget(p) == IF conf.kind = "SDC" THEN lastTarget[p] ELSE 0

GetBuf(p) ==
  /\ pc[p] = "get" /\ Goto(p, "pop") /\ Progress(p, local[p]) /\ Reclaim(p)
  /\ target' = [target EXCEPT ![p] = FirstTarget(p)]
  /\ UNCHANGED <<conf, buf, lastTarget, external, counts, td>>

\* pop_head, with the reacquire it begins with when there is nothing local.  The
\* target selector's state is a local variable of the call that ends.
PopHead(p) ==
  /\ pc[p] = "pop" /\ local[p] + shared[p] > 0 /\ Goto(p, "run")
  /\ LET n == IF local[p] = 0 THEN Reacquired(shared[p]) ELSE 0
     IN  /\ local'  = [local EXCEPT ![p] = (@ + n) - 1]
         /\ shared' = [shared EXCEPT ![p] = @ - n]
  /\ target' = [target EXCEPT ![p] = 0]
  /\ UNCHANGED <<conf, unreclaimed, buf, lastTarget, external, counts, td>>

\* No work here: search, or leave if that is not allowed or of no use.
PopNothing(p) ==
  /\ pc[p] = "pop" /\ local[p] + shared[p] = 0
  /\ IF conf.stealing /\ ~terminated[p]
     THEN Goto(p, "search") /\ UNCHANGED target
     ELSE Goto(p, "left") /\ target' = [target EXCEPT ![p] = 0]
  /\ UNCHANGED <<conf, queues, lastTarget, external, counts, td>>

\* The task returns to gtc_task_execute.
Return(p) ==
  /\ pc[p] = "run" /\ Goto(p, "get")
  /\ completed' = [completed EXCEPT ![p] = @ + 1]
  /\ UNCHANGED <<conf, queues, targets, external, spawned, td>>

\* gtc_select_target.  Round-robin does not pass over the process itself.
Targets(p) ==
  CASE N = 1                        -> {0}
    [] conf.selection = "RANDOM"    -> Procs \ {p}
    [] OTHER                        -> {(target[p] + 1) % N}

\* Mutated form: the claimed tasks stay in the queue.
Unlowered(v, n) == shared

Lowered(v, n) == [shared EXCEPT ![v] = @ - n]

\* gtc_steal_tail: the claim.  How much depends on the queue and the steal method.
Claim(p, v, n) ==
  /\ pc[p] = "search" /\ v \in Targets(p) /\ n <= shared[v] /\ Goto(p, "copy")
  /\ target' = [target EXCEPT ![p] = v]
  /\ shared' = Lowered(v, n)
  /\ buf'    = [buf EXCEPT ![p] = n]
  /\ UNCHANGED <<conf, local, unreclaimed, lastTarget, external, counts, td>>

\* Nothing to steal, or (SDC) there was nothing when the target's metadata was copied
\* on the way, or (SAWS) the target is reacquiring or another thief was faster.
\* gtc_progress follows.
StealNothing(p, v) ==
  /\ pc[p] = "search" /\ v \in Targets(p) /\ Goto(p, "check")
  /\ target' = [target EXCEPT ![p] = Tried(v)]
  /\ Progress(p, local[p]) /\ Reclaim(p)
  /\ UNCHANGED <<conf, buf, lastTarget, external, counts, td>>

\* The copy is complete; push_n_head and gtc_progress follow.
Land(p) ==
  LET v == target[p] IN
  /\ pc[p] = "copy" /\ Goto(p, "check")
  /\ Progress(p, local[p] + buf[p])
  /\ buf' = [buf EXCEPT ![p] = 0]
  /\ \E u \in Reclaims(p) :
       unreclaimed' = [unreclaimed EXCEPT ![p] = u, ![v] = conf.kind = "SAWS"]
  /\ target' = [target EXCEPT ![p] = Tried(v)]
  /\ lastTarget' = [lastTarget EXCEPT ![p] = Kept(v)]
  /\ UNCHANGED <<conf, external, counts, td>>

\* Mutated form: the vote ignores the external work.
IdleBesideExternal(p) == ~TasksAvail(p)

Idle(p) == ~TasksAvail(p) /\ ~external[p]

\* There is something in the queue after all, or work outside is announced.
KeepSearching(p) ==
  /\ pc[p] = "check" /\ ~Idle(p)
  /\ Goto(p, IF TasksAvail(p) THEN "pop" ELSE "search")
  /\ UNCHANGED <<conf, queues, targets, external, counts, td>>

-----------------------------------------------------------------------------
(***************************************************************************)
(* td_set_counters and td_attempt_vote                                     *)
(***************************************************************************)
NewWave == [voted |-> {}, spawned |-> 0, completed |-> 0]
NoSums  == [spawned |-> 0, completed |-> 0]

\* Mutated form: one wave decides.
OneWave(s) == s.spawned = s.completed

Over(s) == s = last /\ s.spawned = s.completed

Counted(p) == [spawned   |-> wave.spawned + spawned[p],
               completed |-> wave.completed + completed[p]]

\* A process other than the root passes its counters up.
Vote(p) ==
  /\ pc[p] = "check" /\ Idle(p) /\ ~over /\ p \notin wave.voted \cup {Root}
  /\ wave' = [voted |-> wave.voted \cup {p}, spawned |-> Counted(p).spawned,
              completed |-> Counted(p).completed]
  /\ Goto(p, "search")
  /\ UNCHANGED <<conf, queues, targets, external, counts, terminated, last, over>>

\* It has voted, or the root has no vote of the others yet.
AwaitVotes(p) ==
  /\ pc[p] = "check" /\ Idle(p) /\ ~over
  /\ IF p = Root THEN wave.voted # Procs \ {Root} ELSE p \in wave.voted
  /\ Goto(p, "search")
  /\ UNCHANGED <<conf, queues, targets, external, counts, td>>

\* The root has the votes of all others.
Decide ==
  /\ pc[Root] = "check" /\ Idle(Root) /\ ~over /\ wave.voted = Procs \ {Root}
  /\ over' = Over(Counted(Root))
  /\ terminated' = [terminated EXCEPT ![Root] = over']
  /\ last' = Counted(Root) /\ wave' = NewWave
  /\ Goto(Root, IF over' THEN "left" ELSE "search")
  /\ UNCHANGED <<conf, queues, targets, external, counts>>

\* The verdict may reach a process later than others.
Hear(p) ==
  /\ pc[p] = "check" /\ Idle(p) /\ over /\ p # Root
  /\ \/ terminated' = [terminated EXCEPT ![p] = TRUE] /\ Goto(p, "left")
     \/ terminated' = terminated /\ Goto(p, "search")
  /\ UNCHANGED <<conf, queues, targets, external, counts, wave, last, over>>

-----------------------------------------------------------------------------
(***************************************************************************)
(* gtc_reset: own fields, then td_reset between its two barriers, then the *)
(* queue.                                                                  *)
(***************************************************************************)
\* Mutated form: the queue is reset without td_reset's barriers.
ResetAtOnce == "clear_queue"

ResetFirst == "td_reset"

ResetOwn(p) ==
  /\ pc[p] = "left" /\ Goto(p, ResetFirst)
  /\ spawned'    = [spawned EXCEPT ![p] = 0]
  /\ completed'  = [completed EXCEPT ![p] = 0]
  /\ lastTarget' = [lastTarget EXCEPT ![p] = Kept((p + 1) % N)]
  /\ terminated' = [terminated EXCEPT ![p] = FALSE]
  /\ external'   = [external EXCEPT ![p] = FALSE]
  /\ UNCHANGED <<conf, queues, target, wave, last, over>>

ResetTd(p) ==
  /\ pc[p] = "clear_td" /\ Goto(p, "td_ready")
  /\ wave' = NewWave /\ last' = NoSums /\ over' = FALSE
  /\ UNCHANGED <<conf, queues, targets, external, counts, terminated>>

ResetQueue(p) ==
  /\ pc[p] = "clear_queue" /\ Goto(p, "idle")
  /\ local'   = [local EXCEPT ![p] = 0]   /\ shared' = [shared EXCEPT ![p] = 0]
  /\ unreclaimed' = [unreclaimed EXCEPT ![p] = FALSE]
  /\ UNCHANGED <<conf, buf, targets, external, counts, td>>

-----------------------------------------------------------------------------
\* gtc_create has returned everywhere.
Init ==
  /\ conf \in Confs /\ pc = All("idle")
  /\ local = All(0) /\ shared = All(0) /\ unreclaimed = All(FALSE)
  /\ buf = All(0) /\ target = All(0) /\ lastTarget = All(0)
  /\ external = All(FALSE) /\ spawned = All(0) /\ completed = All(0)
  /\ terminated = All(FALSE) /\ wave = NewWave /\ last = NoSums /\ over = FALSE

Steal(p) == \/ Land(p)
            \/ \E v \in Procs : \/ StealNothing(p, v)
                                \/ \E n \in 1..MaxTasks : Claim(p, v, n)

TdVote(p) == \/ Vote(p) \/ AwaitVotes(p) \/ Hear(p)
             \/ p = Root /\ Decide

\* What a process inside gtc_process or gtc_reset does next.
Step(p) == \/ GetBuf(p) \/ PopHead(p) \/ PopNothing(p) \/ Return(p)
           \/ Steal(p) \/ KeepSearching(p) \/ TdVote(p)
           \/ ResetTd(p) \/ ResetQueue(p)

Next == \/ \E p \in Procs : \/ Add(p) \/ CallProgress(p) \/ SetExternal(p)
                            \/ Enter(p) \/ ResetOwn(p) \/ Step(p)
        \/ \E b \in Barriers : Barrier(b)

Spec == Init /\ [][Next]_vars

(***************************************************************************)
(* Processes run, barriers let everyone pass, a verdict that was given is  *)
(* heard, and external work that was announced ends.                       *)
(***************************************************************************)
Fairness == /\ \A p \in Procs : WF_vars(Step(p))
            /\ SF_vars(\E p \in Procs : Hear(p) /\ terminated'[p])
            /\ WF_vars(\E p \in Externals(conf) : SetExternal(p) /\ external[p])
            /\ \A b \in Barriers : WF_vars(Barrier(b))

LiveSpec == Spec /\ Fairness

-----------------------------------------------------------------------------
(***************************************************************************)
(* Properties.                                                             *)
(***************************************************************************)
Outside   == {"idle", "process"}
Searching == {"search", "copy", "check"}
Inside    == {"get", "pop", "run"} \cup Searching
Resetting == {"td_reset", "clear_td", "td_ready", "clear_queue"}

TypeOK ==
  /\ conf \in Confs /\ pc \in [Procs -> Outside \cup Inside \cup Resetting \cup {"left"}]
  /\ unreclaimed \in [Procs -> BOOLEAN]
  /\ \A f \in {local, shared, buf} : f \in [Procs -> 0..MaxTasks]
  /\ \A f \in {target, lastTarget} : f \in [Procs -> Procs]
  /\ \A f \in {spawned, completed} : f \in [Procs -> 0..MaxTasks]
  /\ external \in [Procs -> BOOLEAN] /\ terminated \in [Procs -> BOOLEAN]
  /\ wave.voted \subseteq Procs /\ over \in BOOLEAN
  /\ \A s \in {wave, last} : s.spawned \in 0..MaxTasks /\ s.completed \in 0..MaxTasks

\* saws_shrb_reset and sdc_shrb_reset overwrite the metadata without a lock: nobody
\* may still be searching, although the owner left gtc_process before others did.
ResetAlone ==
  \A v \in Procs : pc[v] = "clear_queue" => \A p \in Procs : pc[p] \notin Inside

\* While a process announces external work nobody is told that all work is done
\* (gtc_set_external_work_avail).
ExternalWorkHolds ==
  (\E p \in Procs : pc[p] \in Inside /\ external[p]) =>
    \A p \in Procs : ~terminated[p]

Promise == INSTANCE Processing WITH
  balancing <- conf.stealing,
  where     <- [p \in Procs |-> CASE pc[p] \in Outside -> "out"
                                  [] pc[p] \in Inside  -> "in"
                                  [] OTHER             -> "done"],
  pending   <- [p \in Procs |-> local[p] + shared[p] + buf[p]
                                + IF pc[p] = "run" THEN 1 ELSE 0]

\* Every task is completed once and nobody returns from gtc_process while a task is
\* pending that could come to it, whatever moves while the waves pass.
ImplementsProcessing == Promise!Spec

\* Once a process is in gtc_process everyone gets out of it ("Returns collectively",
\* common.c:574); nobody is back in before that, for the barrier needs everyone.
ReturnsCollectively ==
  (\E p \in Procs : pc[p] \in Inside) ~> (\A p \in Procs : pc[p] \notin Inside)

\* Tasks are stolen from a process that has just made progress, which shares them, and
\* comes to its test of the queue or to pop_head.
StolenBack ==
  \E p, v \in Procs : \E n \in 1..MaxTasks : Claim(p, v, n) /\ pc[v] \in {"check", "pop"}

\* What the code does keep of that: with the SAWS queue everyone gets out; with the SDC
\* queue, which shares a single task too, unless tasks are stolen for ever from those
\* that are about to run them.
EveryoneReturns ==
  \/ conf.kind = "SDC" /\ []<><<StolenBack>>_vars
  \/ ReturnsCollectively
=============================================================================
