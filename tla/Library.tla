------------------------------ MODULE Library ------------------------------
(***************************************************************************)
(* The library's calls as the steps a process takes in them.  What a       *)
(* process still has to do is a sequence of steps; a call is the sequence  *)
(* it adds.  "barrier", "alloc", "free", "reduce" and "finalize" are       *)
(* OpenSHMEM collectives, which all processes take together; the others    *)
(* are a process's own.  Module Applications says what each step does.     *)
(*                                                                         *)
(* Timers, what is only printed and the bodies' bytes are left out.        *)
(* Collectives that follow one another without a step between them are     *)
(* one step.                                                               *)
(***************************************************************************)
EXTENDS Integers, Sequences, SequencesExt, FiniteSets, FiniteSetsExt

Step(name) == [op |-> name]

Barrier          == Step("barrier")
Alloc(blocks)    == [op |-> "alloc", blocks |-> blocks]
Free(blocks)     == [op |-> "free", blocks |-> blocks]
Reduce(fn, vars) == [op |-> "reduce", fn |-> fn, vars |-> vars]

-----------------------------------------------------------------------------
(***************************************************************************)
(* Registries: a process's own tables, which give the same numbers to the  *)
(* same things everywhere because every process makes the same calls.      *)
(***************************************************************************)
GTC_MAX_TC           == 10
GTC_MAX_TASK_CLASSES == 10
GTC_MAX_CLOD_CLOS    == 100

\* gtc_handle_register: the first free slot of the directory.
FirstFree(handles) == Min((0..GTC_MAX_TC) \ handles)

\* Mutated form: the next entry is not used up.
StuckNextfree(clod) == 0

\* clod_nextfree: entries are never freed one by one.
Nextfree(clod) == Len(clod)

\* clod_lookup, and gtc_task_class_lookup.
Lookup(table, id)    == table[id + 1]
Registered(table, id) == id \in 0..(Len(table) - 1)

Associate(object) == [op |-> "associate", object |-> object]
Class(fcn)        == [op |-> "class", fcn |-> fcn]

-----------------------------------------------------------------------------
(***************************************************************************)
(* Tasks.  Descriptors are buffers with one spare per class.               *)
(***************************************************************************)
NoBuffer == 0

Create(class)       == [op |-> "create", class |-> class]
Add(class, body)    == [op |-> "add", class |-> class, body |-> body]
Inplace(class)      == [op |-> "inplace", class |-> class]
Fill(body)          == [op |-> "fill", body |-> body]
Destroy(class)      == [op |-> "destroy", class |-> class]
Progress            == Step("progress")

\* gtc_malloc: a buffer that is neither spare nor in use.
NewBuffer(b) == Min((1..(Len(b.spare) + Len(b.held) + 1)) \ (Range(b.spare) \cup Range(b.held)))

\* gtc_task_create
Created(b, c) ==
  IF b.spare[c] # NoBuffer
  THEN [b EXCEPT !.held = <<b.spare[c]>> \o @, !.spare[c] = NoBuffer]
  ELSE [b EXCEPT !.held = <<NewBuffer(b)>> \o @]

\* gtc_task_destroy of the buffer that was created last.
Destroyed(b, c) ==
  [b EXCEPT !.held = Tail(@),
            !.spare[c] = IF @ = NoBuffer THEN Head(b.held) ELSE @]

-----------------------------------------------------------------------------
(***************************************************************************)
(* Collections.                                                            *)
(***************************************************************************)
\* gtc_ldbal_cfg_init, and the assertions of gtc_ldbal_cfg_set.
CfgInit ==
  [stealing_enabled |-> TRUE, target_selection |-> "RANDOM", steal_method |-> "HALF",
   steals_can_abort |-> TRUE, max_steal_retries |-> 5, max_steal_attempts_local |-> 1000,
   max_steal_attempts_remote |-> 10, chunk_size |-> 1, local_search_factor |-> 75]

CfgValid(cfg) ==
  /\ cfg.target_selection \in {"RANDOM", "ROUND_ROBIN"}
  /\ cfg.steal_method \in {"HALF", "ALL", "CHUNK"}
  /\ cfg.max_steal_retries >= 0 /\ cfg.chunk_size >= 1
  /\ cfg.max_steal_attempts_local >= 0 /\ cfg.max_steal_attempts_remote >= 0
  /\ cfg.local_search_factor \in 0..100

\* Blocks of symmetric memory, by what they belong to and their name in it.
TcBlock   == <<<<"collection", "tc">>>>
TdBlock   == <<<<"detector", "td">>>>
RingBlock == <<<<"ring", "rb">>>>
LockBlock == <<<<"lock", "locks">>>>

\* td_create, which calls td_reset.
TdCreate  == <<Alloc(TdBlock), Barrier, Barrier>>

\* Mutated form: the detector's memory is forgotten.
TdForgotten == <<>>

TdDestroy == <<Free(TdBlock)>>

\* gtc_create_sdc and gtc_create_saws: the ring and, in synch_mutex_init, the array of
\* its lock; the ring's own barrier and the collection's.
QueueCreate == <<Alloc(RingBlock), Alloc(LockBlock), Barrier, Barrier>>

GtcInit == <<Step("init")>>
GtcFini == <<Barrier, Step("finalize")>>

GtcCreate(cfg) ==
  <<Step("implicit_init"), Alloc(TcBlock), Step("register"), Step("clod_create")>>
  \o TdCreate \o <<[op |-> "configure", cfg |-> cfg]>> \o QueueCreate

\* Of the queue only the ring is freed.  The last step finalises if the library was
\* initialised by gtc_create.
GtcDestroy ==
  <<Free(RingBlock)>> \o TdDestroy \o <<Step("clod_destroy"), Free(TcBlock), Step("release")>>

\* "start" ends in "get", the loop of gtc_process.
GtcProcess == <<Barrier, Step("start")>>

-----------------------------------------------------------------------------
(***************************************************************************)
(* Statistics.                                                             *)
(***************************************************************************)
StatBlocks(where) ==
  [i \in 1..8 |-> <<where, <<"times", "mintimes", "maxtimes", "sumtimes",
                             "counts", "mincounts", "maxcounts", "sumcounts">>[i]>>]

\* The six reductions of a report; only the sum of tasks_completed is looked at.
StatReduce == <<Reduce("min", <<>>), Reduce("max", <<>>), Reduce("sum", <<"tasks_completed">>),
                Barrier>>

\* gtc_print_gstats_saws and gtc_print_gstats_sdc
QueueGstats == <<Alloc(StatBlocks("queue"))>> \o StatReduce \o <<Free(StatBlocks("queue"))>>

\* gtc_print_my_stats, with the queue's own part
MyStats == <<[op |-> "print", what |-> "my stats"]>>

\* Mutated form: everybody prints at once, as with SCIOTO_UNORDERED_STATS.
UnorderedStats(n, p) == MyStats

\* Mutated form: a process leaves the loop when its turn is over.
OwnTurn(n, p) ==
  FlattenSeq([i \in 1..(p + 1) |-> (IF i - 1 = p THEN MyStats ELSE <<>>) \o <<Barrier>>])

\* The processes take turns, one barrier more than there are processes.
NodeStats(n, p) ==
  FlattenSeq([i \in 1..(n + 1) |-> (IF i - 1 = p THEN MyStats ELSE <<>>) \o <<Barrier>>])

\* gtc_print_stats on process p of n.
GtcPrintStats(n, p, pernode) ==
  <<Barrier>> \o (IF pernode THEN NodeStats(n, p) ELSE <<>>) \o <<Barrier>>
  \o <<Alloc(StatBlocks("common"))>> \o StatReduce
  \o (IF p = 0 THEN <<[op |-> "print", what |-> "totals"]>> ELSE <<>>)
  \o QueueGstats \o <<Free(StatBlocks("common")), Barrier>>
=============================================================================
