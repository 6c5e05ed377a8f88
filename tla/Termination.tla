----------------------------- MODULE Termination -----------------------------
(***************************************************************************)
(* Termination detection (libtc/termination.c) as the scheduler loop       *)
(* (gtc_process, gtc_get_buf) uses it.                                     *)
(*                                                                         *)
(* The processes form a binary tree.  A process that finds its own queue   *)
(* empty adds its counters of spawned and completed tasks to those its     *)
(* children passed up and passes the sums to its parent.  The root compares*)
(* two consecutive sums and passes the verdict down; leaves that hear it   *)
(* is not over yet start the next wave.                                    *)
(*                                                                         *)
(* A token and the counter that announces it travel separately unless the  *)
(* library is built with GTC_USE_SIGNAL_COMMS: shmem_putmem is not ordered *)
(* before the shmem_atomic_inc that follows it.  The sender waits for both *)
(* (shmem_quiet), the receiver may see them in either order.               *)
(*                                                                         *)
(* The counters left_voted, right_voted and parent_voted are compared only *)
(* with the value they had when a vote was last acknowledged (last_left,   *)
(* ...): the model keeps the difference.  td->token's counters are set from*)
(* the scheduler's immediately before every vote, so they are not separate.*)
(***************************************************************************)
EXTENDS Integers, FiniteSets, Sums

CONSTANTS
  N,             \* number of processes
  MaxTasks,      \* bound: tasks ever spawned between two resets
  SignalComms    \* GTC_USE_SIGNAL_COMMS

ASSUME NAssumption == N \in Nat \ {0}
ASSUME BuildAssumption == SignalComms \in BOOLEAN /\ MaxTasks \in Nat

VARIABLES
  tasks,         \* tasks in each process's queue
  running,       \* is the process inside a task?
  spawned, completed,  \* tc->ct.tasks_spawned, tc->ct.tasks_completed
  dir,           \* td->token_direction
  terminated,    \* td->token.state = TERMINATED: the process has left its loop
  token,         \* upleft_token, upright_token, down_token
  votes,         \* votes received and not acknowledged
  last,          \* last_spawned, last_completed of the root
  wire           \* puts and increments not delivered yet

work == <<tasks, running, spawned, completed>>
td   == <<dir, terminated, token, votes, last>>
vars == <<work, td, wire>>

Procs == 0..(N-1)
Root  == 0
Slots == {"left", "right", "parent"}

Parent(p)   == ((p + 1) \div 2) - 1
Children(p) == {c \in {2*p + 1, 2*p + 2} : c < N}
Side(c)     == IF c % 2 = 1 THEN "left" ELSE "right"

NoToken == [over |-> FALSE, spawned |-> 0, completed |-> 0]

\* pass_token_up, pass_token_down: what is sent to put token t into a slot of q.
Message(p, q, slot, part, t) ==
  [from |-> p, to |-> q, slot |-> slot, part |-> part, token |-> t]

Put(p, q, slot, t) ==
  IF SignalComms THEN {Message(p, q, slot, "both", t)}
  ELSE {Message(p, q, slot, "token", t), Message(p, q, slot, "vote", NoToken)}

PutUp(p, t) == Put(p, Parent(p), Side(p), t)
PutDown(p, t) == UNION {Put(p, c, "parent", t) : c \in Children(p)}

\* The process is not inside shmem_quiet.
Quiet(p) == \A m \in wire : m.from # p

-----------------------------------------------------------------------------
(***************************************************************************)
(* The scheduler: it gets tasks from its own queue, runs them, steals when *)
(* it has none, and votes when it has none.                                *)
(***************************************************************************)
Searching(p) == ~running[p] /\ ~terminated[p] /\ Quiet(p)

\* The sum of f over all processes.
Total(f) == SumTo(N, f)

\* gtc_get_local_buf
Get(p) ==
  /\ Searching(p) /\ tasks[p] > 0
  /\ tasks' = [tasks EXCEPT ![p] = @ - 1]
  /\ running' = [running EXCEPT ![p] = TRUE]
  /\ UNCHANGED <<spawned, completed, td, wire>>

\* gtc_add, called by the task.
Spawn(p) ==
  /\ running[p] /\ Total(spawned) < MaxTasks
  /\ tasks' = [tasks EXCEPT ![p] = @ + 1]
  /\ spawned' = [spawned EXCEPT ![p] = @ + 1]
  /\ UNCHANGED <<running, completed, td, wire>>

\* gtc_task_execute counts the task once it has returned.
Finish(p) ==
  /\ running[p]
  /\ running' = [running EXCEPT ![p] = FALSE]
  /\ completed' = [completed EXCEPT ![p] = @ + 1]
  /\ UNCHANGED <<tasks, spawned, td, wire>>

\* gtc_steal_tail: n tasks move from v's queue into p's.
Steal(p, v, n) ==
  /\ Searching(p) /\ tasks[p] = 0 /\ v # p /\ n <= tasks[v]
  /\ tasks' = [tasks EXCEPT ![p] = n, ![v] = @ - n]
  /\ UNCHANGED <<running, spawned, completed, td, wire>>

-----------------------------------------------------------------------------
(***************************************************************************)
(* td_attempt_vote.                                                        *)
(***************************************************************************)
MayVote(p) == Searching(p) /\ tasks[p] = 0

\* Mutated forms: a node with one child waits for two; votes are not acknowledged.
BothVotes(p) == Children(p) # {} => \A s \in {"left", "right"} : votes[p][s] > 0
Unacknowledged(p, slots) == votes

\* A vote of every child has arrived.
HaveVotes(p) == \A c \in Children(p) : votes[p][Side(c)] > 0

Acknowledge(p, slots) ==
  [votes EXCEPT ![p] = [s \in Slots |-> IF s \in slots THEN 0 ELSE @[s]]]

\* Mutated form: the left subtree is counted twice.
LeftTwice(p) == spawned[p] + 2 * token[p]["left"].spawned

\* The sums over p and the subtrees of its children.
Spawned(p)   == spawned[p] + token[p]["left"].spawned + token[p]["right"].spawned
Completed(p) == completed[p] + token[p]["left"].completed
                             + token[p]["right"].completed

\* Mutated forms: one wave decides; the waves agree but tasks are outstanding.
OneWave(s, c) == s = c
SameWaves(s, c) == s = last.spawned /\ c = last.completed

\* Two waves saw the same counters, and as many completions as spawns.
Over(s, c) == s = last.spawned /\ c = last.completed /\ s = c

\* The root adds up a wave and tells its children.  (Without children, that is
\* with one process, it decides alone.)
Decide ==
  /\ MayVote(Root) /\ HaveVotes(Root)
  /\ LET s    == Spawned(Root)
         c    == Completed(Root)
         over == Over(s, c)
     IN  /\ terminated' = [terminated EXCEPT ![Root] = over]
         /\ last' = [spawned |-> s, completed |-> c]
         /\ wire' = wire \cup PutDown(Root, [over |-> over, spawned |-> s,
                                             completed |-> c])
         /\ votes' = IF over THEN votes ELSE Acknowledge(Root, {"left", "right"})
  /\ UNCHANGED <<work, dir, token>>

\* An inner node or a leaf passes its sums up, and waits for the verdict.
VoteUp(p) ==
  /\ p # Root /\ MayVote(p) /\ dir[p] = "UP" /\ HaveVotes(p)
  /\ wire' = wire \cup PutUp(p, [over |-> FALSE, spawned |-> Spawned(p),
                                 completed |-> Completed(p)])
  /\ dir' = [dir EXCEPT ![p] = "DOWN"]
  /\ votes' = Acknowledge(p, {"left", "right"})
  /\ UNCHANGED <<work, terminated, token, last>>

Verdict(p) == token[p]["parent"].over
HasVerdict(p) == dir[p] = "DOWN" /\ votes[p]["parent"] > 0

\* An inner node passes the verdict on, and leaves or waits for its children.
Relay(p) ==
  /\ p # Root /\ MayVote(p) /\ HasVerdict(p) /\ Children(p) # {}
  /\ terminated' = [terminated EXCEPT ![p] = Verdict(p)]
  /\ wire' = wire \cup PutDown(p, token[p]["parent"])
  /\ dir' = [dir EXCEPT ![p] = "UP"]
  /\ votes' = IF Verdict(p) THEN votes ELSE Acknowledge(p, {"parent"})
  /\ UNCHANGED <<work, token, last>>

\* A leaf leaves, or starts the next wave.
Leave(p) ==
  /\ p # Root /\ MayVote(p) /\ HasVerdict(p) /\ Children(p) = {} /\ Verdict(p)
  /\ terminated' = [terminated EXCEPT ![p] = TRUE]
  /\ UNCHANGED <<work, dir, token, votes, last, wire>>

VoteAgain(p) ==
  /\ p # Root /\ MayVote(p) /\ HasVerdict(p) /\ Children(p) = {} /\ ~Verdict(p)
  /\ wire' = wire \cup PutUp(p, [over |-> FALSE, spawned |-> spawned[p],
                                 completed |-> completed[p]])
  /\ votes' = Acknowledge(p, {"parent"})
  /\ UNCHANGED <<work, dir, terminated, token, last>>

Vote(p) == VoteUp(p) \/ Relay(p) \/ Leave(p) \/ VoteAgain(p)

\* The network performs a put, an increment, or a put with signal.
Deliver(m) ==
  /\ m \in wire
  /\ wire' = wire \ {m}
  /\ token' = IF m.part \in {"token", "both"}
              THEN [token EXCEPT ![m.to][m.slot] = m.token] ELSE token
  /\ votes' = IF m.part \in {"vote", "both"}
              THEN [votes EXCEPT ![m.to][m.slot] = @ + 1] ELSE votes
  /\ UNCHANGED <<work, dir, terminated, last>>

-----------------------------------------------------------------------------
\* td_reset, called collectively by td_create and gtc_reset; then the processes
\* may add tasks, until the barrier at the start of gtc_process.
Seeds == {f \in [Procs -> 0..MaxTasks] : Total(f) <= MaxTasks}

All(v)    == [p \in Procs |-> v]
NoTokens  == [s \in Slots |-> NoToken]
NoVotes   == [s \in Slots |-> 0]
NoWaveYet == [spawned |-> 0, completed |-> 0]

Init ==
  /\ tasks \in Seeds /\ spawned = tasks
  /\ running = All(FALSE) /\ completed = All(0)
  /\ dir = All("UP") /\ terminated = All(FALSE)
  /\ token = All(NoTokens) /\ votes = All(NoVotes) /\ last = NoWaveYet
  /\ wire = {}

Reset ==
  /\ \A p \in Procs : terminated[p] /\ Quiet(p)
  /\ tasks' \in Seeds /\ spawned' = tasks'
  /\ running' = All(FALSE) /\ completed' = All(0)
  /\ dir' = All("UP") /\ terminated' = All(FALSE)
  /\ token' = All(NoTokens) /\ votes' = All(NoVotes) /\ last' = NoWaveYet
  /\ UNCHANGED wire

Next == \/ Decide \/ Reset
        \/ \E p \in Procs : Get(p) \/ Spawn(p) \/ Finish(p) \/ Vote(p)
        \/ \E p, v \in Procs, n \in 1..MaxTasks : Steal(p, v, n)
        \/ \E m \in wire : Deliver(m)

Spec == Init /\ [][Next]_vars

(***************************************************************************)
(* A process without work votes in every round of its search loop, one with*)
(* work runs it, and shmem_quiet returns: every put is delivered.  That    *)
(* tasks return and stop spawning is an assumption about the program.      *)
(***************************************************************************)
Fairness == /\ WF_vars(Decide)
            /\ \A p \in Procs : WF_vars(Vote(p)) /\ WF_vars(Get(p))
                                /\ WF_vars(Finish(p))
            /\ WF_vars(\E m \in wire : Deliver(m))

LiveSpec == Spec /\ Fairness

-----------------------------------------------------------------------------
(***************************************************************************)
(* Properties.                                                             *)
(***************************************************************************)
Tokens == [over : BOOLEAN, spawned : 0..MaxTasks, completed : 0..MaxTasks]
Messages == [from : Procs, to : Procs, slot : Slots,
             part : {"token", "vote", "both"}, token : Tokens]

\* Types; the sums that travel never exceed the number of tasks ever spawned, so
\* no wave counts a process twice (td_attempt_vote, termination.c:276-277).
TypeOK ==
  /\ tasks \in [Procs -> 0..MaxTasks] /\ running \in [Procs -> BOOLEAN]
  /\ spawned \in [Procs -> 0..MaxTasks] /\ completed \in [Procs -> 0..MaxTasks]
  /\ dir \in [Procs -> {"UP", "DOWN"}] /\ terminated \in [Procs -> BOOLEAN]
  /\ token \in [Procs -> [Slots -> Tokens]]
  /\ votes \in [Procs -> [Slots -> Nat]]
  /\ last \in [spawned : 0..MaxTasks, completed : 0..MaxTasks]
  /\ wire \subseteq Messages

WorkLeft == \E p \in Procs : tasks[p] > 0 \/ running[p]

\* A process is told that everything is over only when no task is queued or
\* running anywhere, although no wave ever looks at two processes at one time
\* and tasks move between them behind it (td_attempt_vote returns "Non-zero upon
\* termination", termination.c:194).
DetectsOnlyTermination == (\E p \in Procs : terminated[p]) => ~WorkLeft

\* A vote is read before the next one on the same edge of the tree is sent, so no
\* token is overwritten unread and no wave overtakes another.
OneVotePerEdge ==
  \A p \in Procs, s \in Slots :
    LET sent == {m \in wire : m.to = p /\ m.slot = s /\ m.part # "token"}
    IN  votes[p][s] + Cardinality(sent) <= 1

Detection == INSTANCE Quiescence WITH work <- WorkLeft,
                                      detected <- {p \in Procs : terminated[p]}

\* Seen from outside, work ends, then every process is told, in some order.
ImplementsDetection == Detection!Spec

\* When the last task has completed every process leaves its loop: gtc_process
\* "Returns collectively" (common.c:574).
EveryoneLeaves == ~WorkLeft ~> \A p \in Procs : terminated[p]
=============================================================================
