# A TLA+ model of Scioto/SAWS

This directory models, model-checks and proves properties of `libtc`, the
work-stealing task library of this repository: task collections whose processes
(OpenSHMEM PEs) execute tasks from their own queue, steal from one another's
queues with one-sided communication, and agree on when no work is left anywhere.

## 1. Inventory

| Component | Source | State | Operations |
|---|---|---|---|
| SAWS queue | `libtc/saws_shrb.c`, `.h` | ring positions `tail`, `split`, `nlocal`; the packed word `steal_val`; two completion records `completed[]`; `targets[]` | push, alloc, pop, release, reclaim, reacquire, steal, reset |
| SDC queue | `libtc/sdc_shr_ring.c`, `.h` | ring positions `vtail`, `itail`, `tail`, `split`, `nlocal`; a lock | the same, under a lock with deferred copies |
| Mutex | `libtc/mutex.c`, `.h` | one word per process | lock (swap until free), trylock, unlock |
| Termination detection | `libtc/termination.c`, `.h` | per process: tokens and vote counters received, direction, last sums | vote, pass a token up, pass a token down, reset |
| Scheduler | `libtc/common.c`, `collection-saws.c`, `collection-sdc.c`, `task.c` | counters of tasks spawned and completed, search state | process, get, add, steal, progress, reset |
| Registries | `libtc/handle.c`, `clod.c`, `tc-clod.c`, `task.c` | tables of handles, task classes, spare descriptors, common local objects | register, associate, lookup, create, destroy |
| Initialisation, timers, statistics | `libtc/init.c`, `util.c`, most of `common.c` | configuration, symmetric memory | init, fini, create, destroy, print statistics |
| Example programs | `examples/bpc`, `examples/uts`, `examples/madness`, `tests/test-task.c` | their counters, trees and keys | main, the task functions |

Interaction. The scheduler of a process calls the operations of its own queue, and
the steal operation of the others' queues; steals act on the victim's memory while
the victim's owner goes on working. The scheduler votes in the termination tree
only when its own queue looks empty, and leaves its loop when the vote says so.
The SDC queue takes the mutex of the victim; the SAWS queue takes none. A program calls
the library collectively (`gtc_init`, `gtc_create`, `gtc_process`, `gtc_reset`,
`gtc_print_stats`, `gtc_destroy`), registers its task functions and shared objects
everywhere in the same order, and adds tasks, which add more; a task finds its
function and its objects by the numbers it was created with.

What is hard, and what makes each component correct:

| Component | Hard behaviour | Correct when |
|---|---|---|
| SAWS queue | thieves claim with one fetch-and-add and learn their share from the old value; claims of two epochs complete in any order; the owner turns stealing off, reacquires and advertises again without asking anyone | no task is lost, taken twice or overwritten while read; completions land in the right record; a reacquire returns; a drained queue looks empty |
| SDC queue | the owner releases and reclaims without the lock while thieves hold it; copies are deferred beyond the unlock and finish in any order | as above, and the itail only meets the tail when no copy is under way |
| Mutex | swaps race with the clearing store; no queue of waiters | mutual exclusion; somebody gets the lock |
| Termination detection | waves read the processes at different times while tasks move behind them; a token and its announcement may be reordered | nobody leaves while a task exists; everybody leaves when none does |
| Scheduler | steals, votes and progress alternate; queue size includes claims under way; rings are reset without locks while others may still search | every task is executed exactly once, nobody returns from `gtc_process` before that and everybody does after it; external work holds it up |
| Registries | identifiers are agreed without communication | one identifier means the same object everywhere a task may go |
| Initialisation, statistics | collectives match by position only; processes print in turn | nobody waits for ever; symmetric memory stays symmetric |
| Example programs | slots filled in after they are in the queue; results gathered through common local objects | the counts come out, no assertion fails, no half-filled task is stolen |

## 2. Modules

| Module | What it is |
|---|---|
| `StealHalf` | the steal-half arithmetic that thieves and owner recompute independently |
| `StealWord` | `steal_val` as a word of 64 bits: its packing, the add and the or on it |
| `MCStealHalf` | one epoch driven through its word, against definitions without loops and against the record of `SawsQueue` |
| `TaskPool` | abstract specification: what any task queue promises |
| `SawsQueue`, `MCSawsQueue` | one SAWS queue, its owner and its thieves |
| `SdcQueue` | one SDC queue with its mutex, its owner and its thieves |
| `Quiescence` | abstract specification: what termination detection promises |
| `Termination` | termination detection with the scheduler's work around it |
| `Processing` | abstract specification: what `gtc_process` promises the program |
| `Scheduler`, `MCScheduler` | one task collection in use: add, process, reset, and again |
| `Library` | the library's calls, each as the steps a process takes in it |
| `Bpc`, `Uts`, `Madness`, `Tasks` | the programs: main and task functions as such steps |
| `Applications`, `MCApplications` | the programs composed with the library, from `gtc_init` to `gtc_fini` |
| `Sums` | the sum of a function over 0..n-1, as `Termination` and `Scheduler` use it |
| `Lemmas` | on natural numbers, recursive functions, sums, and regions of a ring |
| `Powers` | powers of two as a recursive function |
| `SawsQueueProofs`, `SawsQueueSafetyProofs` | the SAWS queue: steal-half, types and damping; regions, completions, tasks and the refinement |
| `SdcQueueProofs`, `TerminationProofs`, `SchedulerProofs` | the same for the other components |
| `ApplicationsProofs`, `ApplicationsSafetyProofs` | the programs as paths of a protocol of the library; their safety |

Each level uses the one below through what it was shown to promise. `SawsQueue` and
`SdcQueue` both implement `TaskPool`; `Scheduler` therefore keeps queues as numbers of
tasks, and termination detection as waves (`Termination` has the tokens and implements
`Quiescence`); `Applications` keeps queues as sequences of which a part may be stolen and
takes global termination as known when it holds, which is what `Scheduler` shows.

### SawsQueue and the code

A task is identified with the slot it was pushed into; its content never matters.
`tail`, `split`, `nlocal`, `cur` and `completed` are the fields of `saws_shrb_t`
(`last` is always the other epoch), `stealval` is `steal_val` unpacked, with
`AStealsMod` standing for the 2^24 values of its top field, `target` is what a thief
has in `targets[]`. `q` and `hand` are ghosts: the slots with a task nobody has
taken, and what each process took. One model is one queue; the processes other than
its owner appear only as thieves.

| Action | Code | Granularity |
|---|---|---|
| `PushHead`, `PushNHead` | `saws_shrb_push_head`, `alloc_head`, `push_n_head` with `ensure_space`, `reclaim_space` | one step: it reads what thieves write (statuses), which only ever become nonzero, and writes what they do not read, `nlocal` and the unshared slots |
| `PopHead`, `Execute` | `saws_shrb_pop_head` without reacquire, `gtc_task_execute` | one step each |
| `Progress`, `ProgressReclaim` | `gtc_progress_saws`: release, then the damped reclaim | two steps: thieves may claim in between. The release is one step: everything before its atomic set is private to the owner |
| `ReacquireBegin`, `ReacquireFinish` | `saws_shrb_reacquire`: the atomic fetch that turns steals off; then the wait for the last epoch and the rest, with the pop that follows | two steps: thieves that hold claims move between them |
| `FetchAdd`, `Fetch` | the atomic of `pop_n_tail_impl` in the "full" and the "empty" target mode | one step each |
| `Copy`, `Complete` | the gets; the atomic that stores the volume in the completion record | one step each: the slots of a claim do not change before `Complete` (that is `ReservedBehindTail` and `RegionsDisjoint`), so when exactly each is read does not matter |
| `Reset` | `saws_shrb_reset`, collective, everybody idle | one step; the counters of damped calls are `static` and survive it |

`pc`, `claim` and `snap` are local variables of the C functions. The failing
`assert(0)` of `ensure_space` ends the job: `opc = "aborted"` disables everything,
which is why the SAWS configurations do not check deadlock. The branch of the steal
with `ntasks <= 0` is absent because theorem `Exhaustion` shows it cannot be taken.

### SdcQueue and the code

`vtail`, `itail`, `tail`, `split`, `nlocal` are the fields of `sdc_shrb_t`; `itail` is
the sum of the thieves' increments and may lie outside the ring between two of them.
`lock` is the word the mutex swaps: a swap that finds it locked changes nothing, so only
the successful one (`Acquire`) is a step. `wire` holds the stores of a thief that are
not performed yet: the new tail and the unlocking store, one message if the network
keeps them in order (`OrderedComms`), two otherwise. `q` and `hand` are as in
`SawsQueue`, and the same `TaskPool` is the abstract specification.

| Action | Code | Granularity |
|---|---|---|
| `Push` | `push_head`, `push_n_head`, `alloc_head` with the unlocked test of `ensure_space` | one step; a push that does not fit goes for the lock |
| `OwnerLock`, `EnsureReclaim`, `EnsureAbort` | the rest of `ensure_space`: lock, test, wait for the copies, reclaim, unlock | the wait is the guard of `EnsureReclaim` |
| `PopHead`, `ReacquirePop` | `pop_head` with local work; `reacquire` under the lock and the pop after it | two steps with the lock between them |
| `Release`, `ReadItail`, `ReclaimSpace` | `gtc_progress_sdc`: release, then `reclaim_space`, all without the lock | three steps: reclaim reads `itail` and `tail` while thieves change them |
| `Lock`, `Reserve`, `Copy`, `Complete` | `pop_n_tail_impl`: lock; copy the metadata, put the tail, unlock; get the tasks and quiet; add to `itail` | one step each; the thief reads nothing but `tail`, which the lock protects, and `split` |

`PublicSizeAsserted` fails when a push fills the ring exactly (finding `sdc_full`), so
the passing run excludes such pushes: `MayFill = FALSE`, a bound on the program, not on
the queue. Pushes that wait for copies or give up remain.

### Termination and the code

`token` and `votes` are the tokens and the vote counters each process has received;
the counters are compared only with `last_left`, `last_right` and `last_parent`, so
the model keeps the differences. `wire` holds the puts and increments under way.
With `SignalComms` (the build with `GTC_USE_SIGNAL_COMMS`) a token and its vote are
one message; in the default build they are a `shmem_putmem` and a
`shmem_atomic_inc`, which OpenSHMEM does not order without a fence, so they are two
messages delivered in either order. The sender waits for both in `shmem_quiet`
(`Quiet`). The branches of `td_attempt_vote` are `Decide` (root, also the special
case of one process), `VoteUp` (leaves and inner nodes, upwards), `Relay` (inner
nodes, downwards), `Leave` and `VoteAgain` (leaves, downwards). `Get`, `Spawn`,
`Finish` and `Steal` are all the scheduler does to the counters and to the place of
tasks; a steal moves any number of tasks from any process to one that has none. A
process may vote only when its own queue is empty (collection-saws.c:252).

### StealWord and the code

A word is the set of positions of its one bits, so shifts, ors and the carry of an
addition are set operations. `SetStealval`, `GetStealval`, `FetchAddSteal` and
`DisableSteals` are `saws_set_stealval`, `saws_get_stealval`, the thieves' atomic add of
`1L << 40` and the owner's atomic or. `WordKeepsFields` ties the word to the record that
`SawsQueue` and its proofs use.

### Scheduler and the code

`pc` is where a process is: outside (`idle`), waiting in `gtc_process`, in `gtc_get_buf`
(`get`, `pop`, `search`, `copy`, `check`), in a task (`run`), out again (`left`), and in
the parts of `gtc_reset`. `local`, `shared` and `buf` count tasks in the two parts of each
queue and in the steal buffers; `unreclaimed` is what makes a SAWS queue with no task in
it still report a size. `conf` is the queue type with the two settings of the load
balancer that change control.

| Action | Code |
|---|---|
| `Add`, `CallProgress`, `SetExternal` | `gtc_add`, the in-place creation and its finish, `gtc_progress`, `gtc_set_external_work_avail`, before the phase or by a task |
| `Enter`, `Barrier` | the barriers of `gtc_process` and of `td_reset` |
| `GetBuf`, `PopHead`, `PopNothing` | the head of `gtc_get_buf_saws` and `gtc_get_buf_sdc`: progress, pop with the reacquire it starts with, the decision to search |
| `Claim`, `Land`, `StealNothing` | target selection, the steal, pushing what was stolen and the progress after it |
| `KeepSearching`, `Vote`, `AwaitVotes`, `Decide`, `Hear` | the test of the queue and of external work, and the vote |
| `Return` | the task returns to `gtc_task_execute` |
| `ResetOwn`, `ResetTd`, `ResetQueue` | `gtc_reset` in the order of its calls, `td_reset` with its two barriers |

The phase begins anew after each reset, so what a phase leaves behind is met in the next.

### Applications and the code

`script` is each process's stack: the rest of the program, with the rest of the call it is
in on top. `Library` gives every call as its steps (`gtc_create` is: implicit init if
needed, registering, the allocations, the barriers...), `Bpc`, `Uts`, `Madness` and
`Tasks` give main programs and task bodies, and `Applications` says what each kind of step
does. Collectives (`barrier`, `alloc`, `free`, `reduce`, `finalize`) are taken by all
processes together, and only when all have come to the same kind; that is what makes a
missing or an extra one a deadlock.

 * `handles`, `classes`, `clod`, `buffers` are the registries and the spare descriptor of
   each class; keys are positions in a process's own tables, as in the code.
 * `queue` with `shared`, `claim`: a task carries its class, its body and (ghost) who
   created it; a slot created in place is in the queue with `filled = FALSE` until
   the body is written.
 * What the numerics decide is one choice per program: which tree UTS counts (`tree`, all
   trees its parameters allow up to `TreeHeight`), which boxes of Madness exceed the
   threshold (`fine`, all that make a difference). Work loops are left out.

## 3. Runs

| Run | Question | Bounds |
|---|---|---|
| `steal_half` | do the three loops agree and fit the completion array, and does the word hold the fields? | blocks of 1 to 70, and 2^k-1, 2^k, 2^k+1 up to 2^19, the width of the field; four positions, both epochs |
| `saws_safety` | is a task lost, duplicated, overwritten; do completions land right; is the queue a `TaskPool`? | 5 slots, 3 thieves, pushes of up to 2, blocks of up to 3, re-advertised while claims on them are in flight, and their rest once more |
| `saws_live` | does a reacquire return, and does a drained queue look empty? | 3 slots, 2 thieves |
| `sdc_fair` | the same questions for the SDC queue, and is its lock always given back? | 5 slots, 2 thieves, half or all, pushes of up to 2, the ring never full |
| `td_fair` | is termination detected only, and always, when there is no work? | 4 processes, 2 tasks between resets |
| `scheduler` | does `gtc_process` keep its promise, phase after phase, and does everyone return from it? | 3 processes, 6 configurations, up to 2 tasks between resets, one announcer of external work |
| `applications` | do the programs come to their counts, with every assertion kept, every collective matched and the symmetric heap the same everywhere? | 2 processes, 17 programs: bpc with 1 or 2 producers, children and levels; UTS with each tree type, order of search and way of creating tasks, trees of height 2; mad3d with up to three dimensions and levels 0 to 2; test-task with 2 and 3 tasks |
| `saws_abort`, `saws_overfull`, `sdc_full`, `sdc_unordered`, `td_early` | findings, below | the smallest that show them |

Why the bounds are enough. Ring positions only matter relative to one another and to
the wrap: with three slots and more every region of the ring is wrapped somewhere in
the run. Two epochs exist, so two thieves hold every combination of claims (same
epoch, both epochs, a claim and a vain attempt). `MaxStealsPerEpoch` is the number a
block of the run's size needs and `AStealsMod` the least that the damping invariant
permits, so an overflow of either would show. Blocks of more than three steals
differ from those checked only in `StealHalf`, whose facts are proved. Thieves are
interchangeable (`SYMMETRY`, not used with liveness), and a `VIEW` leaves out what is in
the record of the last epoch once it is done: `reclaim_space` and `reacquire` read nothing
of it then but `done`, and write a new one before the epoch becomes current. A tree of four processes has a
root with two children, an inner node with one and leaves on two levels; two tasks
are needed for one to be executed behind a wave while another travels in front of it;
the same two tasks suffice in `Scheduler`, where three processes give a thief, a victim
and a bystander that has voted (the SAWS queue shares a task only when it has two).
Round-robin selection multiplies the states by everybody's last target, so it has fewer
tasks. The programs are symmetric in their processes but for process 0, so two of them
show every mismatch of a collective or of a registry, and trees of height two have inner
nodes that are not the root.

Fairness. In `SawsQueue`, a thief with a claim and an owner in the middle of a call are
inside straight-line code: weak fairness of those steps. The owner's scheduler loop
starts each round with `gtc_progress`, so it is taken infinitely often if the owner
goes on: strong fairness of `Progress`, since other owner steps disable it for a
moment. Nobody is obliged to push, pop or steal. In `SdcQueue`, whoever
holds the lock or a claim goes on, and stores are performed; nothing is assumed of those
who wait for the lock, because a swap may lose every race. In `Termination`, a process without
work votes in every round of its search loop and one with work executes it; puts are
delivered because `shmem_quiet` returns. That tasks return, and that finitely many are
spawned (`MaxTasks`), is assumed of the program.
In `Scheduler` and `Applications` every process takes its next step if it has one (weak
fairness of the process, not of any particular step), barriers let everyone pass, a
verdict that was given is heard, announced external work ends. Nothing is assumed about
who wins a race between a thief and the owner of a task. After a steal the thief calls
`gtc_progress` before it pops. The SAWS loop shares tasks only when it has more than one
(collection-saws.c:131), so it keeps one to run, and `EveryoneReturns` and
`EveryoneFinishes` hold without a condition. The SDC loop shares a single task too
(collection-sdc.c:286), so processes may steal one task from one another for ever,
and `gtc_process` does not "return collectively" as common.c:573-574 says: with
`ReturnsCollectively` in the place of `EveryoneReturns`, the run `scheduler` fails on just
that. For SDC the two properties therefore say what is left: everyone
returns unless, for ever again, tasks are stolen from a process that has just shared them
and is about to run them (`StolenBack`).

### Findings

 * `saws_abort`: a push on a full ring with claims in flight gives up (`assert(0)`),
   where the comment says it waits.
 * `saws_overfull`: with `GTC_RECLAIM_FREQ` above 1 a push can write over tasks.
   Theorem `TypeCorrect` bounds by how many; theorem `Damping` holds all the same.
 * `sdc_full`: when claims and shared tasks fill the ring the split meets `vtail`, a full
   public part is taken for an empty one, and an assertion fails. (Without the assertion
   the owner would go on to write over claims.)
 * `sdc_unordered`: a steal puts the new tail and unlocks without a fence; if the lock
   is free first, the next thief claims the same tasks again.
 * `td_early`: in the default build a vote overtakes its token, the parent adds up
   the counters of the wave before (at first: zeros), and the root ends the job with
   a task queued.
   (The same race lets a leaf take an old verdict for the new one, vote to a parent
   that has left, and wait for ever.)

`td_fair` and `sdc_fair` show that `td_early` and `sdc_unordered` do not happen when stores
are performed in the order in which they were issued.

Observations without a run of their own: the steals back and forth of SDC tasks, above;
`saws_shrb_pop_tail` asks for one task and gets half of the block, because
`pop_n_tail_impl` never reads `n` (only tests could call it); and `test_saws_shrb.c:186`
expects floor(log2 n) + 1 steals of a block of n, the code allows ceil(log2 n) + 1 (`LogManySteals`).
`synch_mutex_init` allocates a symmetric array for the lock of each ring (mutex.c:44; both
queue types), and neither destructor frees it: every collection leaks one block on every
process. The leak is the same everywhere, so the heap stays symmetric; `SymmetricHeap` says so,
and that when all processes are at the end of the program those blocks are all that is left.
More of that kind, met while modelling the scheduler and the programs:

 * `gtc_add` for another process counts the task as spawned and drops it (the push is
   compiled out), so `gtc_process` would not return; all programs add to themselves.
 * `gtc_disable_stealing` is not collective: a process that is told to balance load waits
   for the votes of those that are told not to. `Scheduler` gives all the same setting.
 * `gtc_try_steal_tail` never returns -1, so the retries of aborted steals are never used;
   `max_steal_retries` is documented with -1 for "infinite" (tc.h:157), which
   `gtc_ldbal_cfg_set` refuses (init.c:159); with `max_steal_attempts_remote` 0, which it
   accepts, the SDC loop would never vote.
 * Round-robin selection may select the process itself.
 * Until `gtc_reset`, `gtc_add` asserts that the collection is not terminated; the in-place
   creation has no such assertion.
 * `gtc_task_destroy` gives the buffer to the pool of the class it has then; the counters
   of `termination.c` are `int` where those of the collection are `unsigned long`.
 * Parallel Madness drops the coefficients it computes on the nodes of tasks
   (`node_free`), and `create_refine_task` calls the finish of the in-place creation for
   tasks it has added (and destroyed) in the other way.
 * bpc sizes its queue by a formula that may exceed the 2^19 slots the word of a SAWS queue
   can address; nothing checks that. Bouncing, it asks for fewer slots than it makes tasks;
   whether they suffice when several slow thieves keep slots from being reclaimed is a
   question for more processes and tasks than the runs of whole programs can have.

## 4. Proofs

TLAPS proves what follows for every value of the constants that the named assumptions of
the modules allow (a ring of at least two slots that a push fits into, any finite set of
thieves, any number of processes, any number of tasks, any set of configurations, any
programs and arguments the command line may give).
Where a theorem has a hypothesis more, that is an assumption about the environment, the
build or the program, which the code does not enforce; for each there is a run that
expects a violation and shows what happens without it.

| Theorem | Property | Hypotheses |
|---|---|---|
| `Exhaustion` | what thieves take and the owner expects agree, for every block | |
| `LogarithmicSteals` | a block of at most 2^m tasks, and no larger one, takes at most m + 1 steals | |
| `TypeCorrect`, `Damping` | `TypeOK`, `AStealsBounded` of `SawsQueue` | |
| `HeadStaysBehindTail`, `ClaimsStayReserved`, `RegionsNeverOverlap`, `CompletionsUnambiguous` | `HeadBehindTail`, `ReservedBehindTail`, `RegionsDisjoint`, `ClaimsUnambiguous` of `SawsQueue` | `ReclaimFreq = 1` |
| `NoTaskLost`, `QueueImplementsPool` (`SawsQueueSafetyProofs`) | `NothingLost`, `ImplementsPool` of `SawsQueue` | `ReclaimFreq = 1` |
| `TailsStayBounded`, `AssertionHolds`, `EqualTailsMeanCopied`, `ClaimsStayReserved`, `RegionsNeverOverlap` | `TypeOK`, `PublicSizeAsserted`, `TailsMeetWhenCopied`, `ReservedBehindTail`, `RegionsDisjoint` of `SdcQueue` | `OrderedComms`, `~MayFill` |
| `NoTaskLost`, `QueueImplementsPool` (`SdcQueueProofs`) | `NothingLost`, `ImplementsPool` of `SdcQueue` | `OrderedComms`, `~MayFill` |
| `SumsStayBounded`, `NobodyLeavesEarly`, `VotesNeverOvertake`, `DetectionImplemented` | `TypeOK`, `DetectsOnlyTermination`, `OneVotePerEdge`, `ImplementsDetection` of `Termination` | `SignalComms` |
| `CountersStayBounded`, `ResetsAlone`, `ExternalWorkWaits`, `ProcessingImplemented` | `TypeOK`, `ResetAlone`, `ExternalWorkHolds`, `ImplementsProcessing` of `Scheduler` | |
| `TypeCorrect`, `TasksUnderstood`, `NobodyAborts`, `HeapSymmetric` | `TypeOK`, `KeysAgree`, `NothingAborts`, `SymmetricHeap` of `Applications` | |
| `PrintedInTurn`, `BlankKept`, `DeepestFirst` | `StatsInRankOrder`, `BlankNeverShared`, `DeepestOnTop` of `Applications` | |

 * `ReclaimFreq = 1` is `__GTC_RECLAIM_POLLFREQ` (tc.h:130), which `saws_shrb_create` assigns
   (saws_shrb.c:89) unless the environment says otherwise. UTS says otherwise: it sets
   `GTC_RECLAIM_FREQ=20` (SciotoRecursiveLoadBalancer.cc:86), so these theorems, and the run
   `saws_safety`, do not cover SAWS under UTS; `saws_overfull` shows what may happen there.
 * `OrderedComms`: the network performs a put before the store that unlocks; OpenSHMEM does
   not promise it (`sdc_unordered`). `~MayFill`: no push takes the last free slot; it is up to
   the program not to fill its queue (`sdc_full`).
 * `SignalComms`: the build in which a token and its vote are one message, which is not the
   default one (`td_early`).

`NobodyAborts` covers the assertions of the registries, of the calls in `common.c`, of task
descriptors and of the programs. The assertions inside the queues (`ensure_space`,
`public_size`) are not in it: they can fail, see `saws_abort` and `sdc_full`.

`HeapSymmetric` is about the blocks of symmetric memory by owner: collection, detector,
ring, lock, statistics. Each place of the protocol has its memory (`Applications, places`
below), processes on both sides of an allocation or a release take it together, and the
lock's array, which nothing releases, is what remains.

None of these properties is inductive. The invariants that are, and why:

**Steal-half.** `Left` and `MaxSteals` are the loops of the code, written as recursive
functions. `Lemmas` derives their recurrences, and that of `SumTo`, from the
least-element principle, because the library's induction theorems take an operator as a
parameter. `LogarithmicSteals` compares a block with the powers of two on either side of it:
after j steals what is left is within 2^(m-j) exactly if the block was within 2^m.

**SawsQueue, types** (`SawsQueueProofs`). That `nlocal` stays below
`MaxSize + ReclaimFreq - 1` depends on how long ago a push last looked for space:
`TypeInv == TypeOK /\ LocalBound`. `Damping` is inductive on top of it: an attempt after
the block is exhausted marks its thief, which then only looks; a fresh value starts from
zero. With `WidthAssumption` this excludes the wrap of `asteals` that would hand a block
out a second time.

**SawsQueue, regions** (`SawsQueueSafetyProofs`). All regions are measured backwards from the
split. The current epoch's block ends at the split, the last one's at the current block's
start, and share i of a block of n lies `Left(n, i)` to `Left(n, i+1)` behind the block's end.
`IInv` says that the record of each epoch has, for some block size, zeros and the volumes of
shares that were claimed (`RecordInv`), that each claim is such a share whose entry is still
zero (`ClaimInv`, one share per thief by `DistinctInv`), and that the tail has passed no
share that is not completed (`CurrentInv`, `LastInv`). The size of the last block is an
existential: after a reacquire nothing in the queue holds it any more, but the claims on
it are still shares of it. `AdvertisedInv` ties the steal word to the current record.

**SawsQueue and SdcQueue, tasks.** Once regions are disjoint, `NothingLost` is how each
step moves a block of slots from one region to another, and the steps of `TaskPool` follow.

**SdcQueue** (`SdcQueueProofs`). The hard part is `itail`: increments come in any order, and
the owner compares a value it read earlier. `TailInv`: `itail` trails the tail by the number
of slots whose claims are not completed, corrected by a whole turn when the last slot
of the ring is among them; as these are fewer than a turn there are none when both are
equal. The value read earlier (`seen`) trails the tail by a set that contains them.
This rests on `MutexInv` (one process in the critical section, or one unlocking
store on its way), `WireInv` (a tail on its way belongs to the last claim, which starts at
the tail), `ClaimInv` (claims do not overlap, measured behind the split) and `OwnerInv` (the
ring is never full, and a push that waits will have its space).

**Termination** (`TerminationProofs`). `Inv` says that there are a set V of processes that have
voted since the root last decided, and counters F and G in votes their parents have not
used yet, with: every edge of the tree in one of five states (`TreeInv`: idle, voted, waiting, told,
gone), which is `OneVotePerEdge`; and `WaveInv`: what is under way in F plus the counters of
those not in V never exceeds the tasks spawned, and while there is work it exceeds the
number completed that the wave before has seen. So the root cannot see the same two equal
sums twice while there is work, wherever tasks were stolen behind a wave.

**Scheduler** (`SchedulerProofs`). The same argument on waves without tokens (`WaveInv`), over
several phases: `PhaseInv` (everyone is before `gtc_process`, in it, or between the barriers of
`td_reset`), `VerdictInv` (termination detection is as new whenever somebody prepares a
phase, and whoever is told leaves), `KeepInv` (what each process has, where it is),
`SumInv` (while everyone is inside, spawned = completed + pending; after the verdict
nothing is pending) and `ExternalInv` (who has voted has no external work). Without stealing each
process balances its own counters instead. `ProcessingImplemented` maps every step to
one of `Processing` or to none.

**Applications, places** (`ApplicationsProofs`). A process does what is left of its script, and
scripts are sequences built from calls, so the invariant cannot say where a process is by
naming a step. The module therefore describes the protocol that all programs follow as a
graph of places, with the step that leads from each place to the next, and shows that the
steps of every call, hence of every program, for all arguments, are a path of it.

**Applications, state** (`ApplicationsSafetyProofs`). `Inv` says that every process is at some
place from which its remaining steps lead to an end, and that its state fits that place:
what the library has initialised, which queue and counters exist, what it has allocated
and printed. All processes have the same collectives ahead of them, which is why the
heap and the handles stay symmetric and the ranks print in turn. Whoever has or has
created tasks is at a place where everything is registered, and registrations are in the same order
everywhere: so the key in a task means the same at the process that executes it.
A search or a copy is only ever the next step, and never while a claim is under way, which is what keeps
a half-filled task from a thief. Buffers in use are all different; that there is a
fresh one is the pigeonhole principle. `DeepestOnTop` needs `Nested` besides: for a
strictly depth-first program, the tasks in a queue, those of a claim and those the remaining
steps will add lie on one path of the tree, a thief has no tasks of its own when it puts
its loot, and nothing is added once the loop over the children is over.

Only model-checked:

 * `WordKeepsFields`: the bits of the steal word, whose values are sums over sets of powers.
 * `LogManySteals`, `ExhaustedTogether`: the formulas are the theorems `LogarithmicSteals` and
   `Exhaustion`, for blocks of every size; the run checks them on the sizes it enumerates.
 * `FinalCounts`, `EvalFindsBox`: how many tasks a whole tree has, and where an evaluation
   arrives in it, are recursive functions of trees; to relate them to what the
   steps have done is an induction over data.
 * Liveness (`ReacquireReturns`, `SharedPartDrains`, `LockReleased`, `EveryoneLeaves`,
   `EveryoneReturns`, `EveryoneFinishes`): fairness and `ENABLED` are out of the prover's
   reach.

## 5. Not modelled

 * The memory ordering of the owner's plain stores before its atomics: the model takes
   them as ordered.
 * `saws_shrb_release_all` and the lock functions of the SAWS queue: no callers. A ring
   of one slot: the assumption excludes it, as its head would be its tail.
 * Timers, tracing, formatting, signal handlers, environment variables: no property
   depends on them. Changing the configuration of a collection between phases; several
   collections at once, beyond their handles. `clod_reset`, `gtc_clo_reset`,
   `gtc_print_gstats` and `gtc_queue_reset_*`: no program calls them.
 * `synch_mutex_trylock` and `sdc_shrb_try_pop_n_tail`, which nothing calls as the library
   is built; the builds with `SDC_NODC` and `USING_SHMEM_LOCKS`. The thief's look at the
   victim's metadata without the lock (collection-sdc.c:245) only decides whether to try.
 * UTS with `INITIAL_BFS` (its iterator without a node reads an index that was never
   set) and its versions for other load balancers; the numerics of Madness
   (`math.c`, `tensor.c`), of which only the decision to refine and the shape of the tree
   count here; the tests other than test-task, and the scripts that run programs.

## 6. Plan

In this order, the most important behaviour first; modules that are there are marked.

 1. `StealHalf`, `SawsQueue`, `TaskPool` (done): the queue, its runs, type correctness.
 2. `Termination`, `Quiescence` (done): both builds.
 3. `SdcQueue` (done): the lock-based queue as another implementation of `TaskPool`.
 4. `StealWord` (done): packing of `steal_val`, with the width of its fields.
 5. `Processing`, `Scheduler` (done): `gtc_process` over abstract queues and waves.
 6. `Library`, `Applications` and the programs (done): registries, initialisation,
    statistics and the four programs.
 7. Proofs of the queues, of termination detection, of the scheduler and of the programs
    (done).
 8. What is left: the bits of the steal word for every value of its fields, and the
    counts of whole trees (`FinalCounts`, `EvalFindsBox`), which need a
    prover that can do induction over data.
