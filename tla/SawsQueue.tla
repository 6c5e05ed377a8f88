------------------------------ MODULE SawsQueue ------------------------------
(***************************************************************************)
(* One SAWS queue (libtc/saws_shrb.c): the ring its owner pushes to and    *)
(* pops from without locks, and the processes that steal from it with one  *)
(* atomic fetch-and-add.                                                   *)
(*                                                                         *)
(* The ring holds, clockwise from tail: claims still being copied, the     *)
(* tasks of the advertised block no thief has claimed, then from split the *)
(* nlocal local tasks.  A thief never asks who else is stealing: it        *)
(* increments the asteals field of steal_val and works out its share from  *)
(* the value the field had.  The owner learns that the share was copied    *)
(* from the completion array of the epoch named by the valid field.  Two   *)
(* epochs exist, so the owner may advertise a new block while claims on    *)
(* the previous one are in flight, but not while older ones are.           *)
(*                                                                         *)
(* A task is identified with the slot it was pushed into.                  *)
(***************************************************************************)
EXTENDS Integers, FiniteSets, StealHalf

CONSTANTS
  Thieves,             \* the other processes
  Owner,               \* the process whose queue this is
  MaxSize,             \* rb->max_size
  MaxPush,             \* the largest block pushed at once: bounds push_n_head
  MaxStealsPerEpoch,   \* SAWS_MAX_STEALS_PER_EPOCH
  AStealsMod,          \* 2^24: asteals is the top 24 bits of steal_val
  ReclaimFreq          \* rb->reclaimfreq (GTC_RECLAIM_FREQ)

ASSUME SizeAssumption ==
  /\ MaxSize \in Nat /\ MaxSize >= 2
  /\ MaxPush \in 1..MaxSize
  /\ ReclaimFreq \in 1..MaxSize
ASSUME WorkersAssumption == IsFiniteSet(Thieves) /\ Owner \notin Thieves

\* The most tasks the owner can have in the local part: damping lets ReclaimFreq-1
\* tasks in without looking for space.
MaxLocal == MaxSize + ReclaimFreq - 1

\* The largest block advertised.
MaxBlock == Released(MaxLocal)

ASSUME WidthAssumption ==
  /\ MaxStealsPerEpoch \in Nat \ {0} /\ AStealsMod \in Nat \ {0}
  /\ \A n \in 0..MaxBlock :
        /\ MaxSteals(n) <= MaxStealsPerEpoch
        /\ MaxSteals(n) + Cardinality(Thieves) < AStealsMod

VARIABLES
  tail, split, nlocal,  \* the owner's view of the ring
  cur,                  \* rb->cur; rb->last is always the other epoch
  completed,            \* rb->completed, one record per epoch
  stealval,             \* rb->steal_val, unpacked
  q,                    \* slots of rb->q[] with a task nobody has taken
  opc,                  \* where the owner is
  snap,                 \* steal_val as fetched by the reacquire under way
  ccPush, ccProg,       \* the static counters that damp reclaiming
  pc, target, claim,    \* each thief: where it is, targets[], its claim
  hand                  \* tasks in the owner's buffer and in the steal buffers

ownerVars == <<tail, split, nlocal, cur, opc, snap, ccPush, ccProg>>
thiefVars == <<pc, target, claim>>
vars == <<ownerVars, completed, stealval, q, thiefVars, hand>>

Slots   == 0..(MaxSize-1)
Workers == Thieves \cup {Owner}
Epochs  == {0, 1}
Last    == 1 - cur
Disable == 2              \* SAWS_MAX_EPOCHS: valid values from here on mean "off"
Indices == 0..(MaxStealsPerEpoch-1)

\* The n slots from position start on.
Block(start, n) == {(start + i) % MaxSize : i \in 0..(n-1)}

NoClaim == [epoch |-> 0, index |-> 0, start |-> 0, n |-> 0]
NoSteals == [asteals |-> 0, valid |-> 3, itasks |-> 0, tail |-> 0]

\* A completion record for a block of itasks tasks that starts at vtail.
Epoch(itasks, vtail) ==
  [itasks |-> itasks, vtail |-> vtail, done |-> FALSE,
   maxsteals |-> MaxSteals(itasks), status |-> [i \in Indices |-> 0]]

-----------------------------------------------------------------------------
(***************************************************************************)
(* State queries.                                                          *)
(***************************************************************************)
\* Slots from position t to the split.
SharedSize(t) == IF t <= split THEN split - t ELSE split + MaxSize - t

HasSpace(t, n) == MaxSize - (nlocal + SharedSize(t)) >= n

\* Mutated form: the slot after the newest task.
HeadPlusOne == (split + nlocal) % MaxSize

\* The slot of the newest task.
Head == (split + nlocal - 1) % MaxSize

\* Tasks copied by the first n steals of epoch e, as far as they are completed.
CopiedBy(e, n) ==
  LET s[k \in 0..MaxStealsPerEpoch] ==
        IF k = 0 THEN 0 ELSE s[k-1] + completed[e].status[k-1]
  IN  s[n]

\* Tasks copied by all the steals of epoch e.
StatusSum(e) == CopiedBy(e, completed[e].maxsteals)

\* Mutated form: the scan of the array stops one entry short.
CompletedButLast(e) ==
  CHOOSE n \in 0..completed[e].maxsteals :
    /\ \A k \in 0..(n-1) : completed[e].status[k] # 0 /\ k < completed[e].maxsteals - 1
    /\ n >= completed[e].maxsteals - 1 \/ completed[e].status[n] = 0

\* Number of steals of epoch e before the first one still under way, and what
\* they copied.
Completed(e) ==
  CHOOSE n \in 0..completed[e].maxsteals :
    /\ \A k \in 0..(n-1) : completed[e].status[k] # 0
    /\ n = completed[e].maxsteals \/ completed[e].status[n] = 0

\* Mutated form: the scan does not stop at a steal under way.
StatusAnywhere(e) == StatusSum(e)

StatusPrefix(e) == CopiedBy(e, Completed(e))

-----------------------------------------------------------------------------
(***************************************************************************)
(* The owner's space management.                                           *)
(***************************************************************************)
\* saws_shrb_reclaim_space: the tail and the completion records it leaves.  While
\* a claim on the last epoch is being copied it returns before it looks at the
\* current one.
ReclaimSpace ==
  LET old      == completed[Last]
      pending  == ~old.done /\ \E i \in 0..(old.maxsteals-1) : old.status[i] = 0
      lastDone == old.done \/ (~pending /\ StatusSum(Last) = old.itasks)
      copied   == StatusPrefix(cur)
  IN  IF pending THEN [tail |-> tail, completed |-> completed]
      ELSE [tail |->
              IF lastDone /\ copied > 0 THEN (completed[cur].vtail + copied) % MaxSize
              ELSE IF lastDone /\ ~old.done THEN completed[cur].vtail
              ELSE tail,
            completed |->
              [completed EXCEPT ![Last].done = lastDone,
                                ![cur].done = @ \/ copied = completed[cur].itasks]]

\* saws_shrb_ensure_space, up to the test that aborts.
EnsureSpace(n) == IF HasSpace(tail, n)
                  THEN [tail |-> tail, completed |-> completed]
                  ELSE ReclaimSpace

\* Copy n tasks in at the head.
Store(n) == /\ q' = q \cup Block(split + nlocal, n)
            /\ nlocal' = nlocal + n

\* Push n tasks, making sure first that they fit; assert(0) if they do not.
PushEnsured(n) ==
  LET s == EnsureSpace(n)
  IN  /\ opc = "idle"
      /\ tail' = s.tail /\ completed' = s.completed
      /\ IF HasSpace(s.tail, n) THEN Store(n) /\ UNCHANGED opc
                                ELSE opc' = "aborted" /\ UNCHANGED <<q, nlocal>>

\* saws_shrb_push_n_head; for n = 1 also saws_shrb_alloc_head, whose caller fills
\* the slot before any other operation on the queue.
PushNHead(n) ==
  /\ PushEnsured(n)
  /\ UNCHANGED <<split, cur, stealval, snap, ccPush, ccProg, thiefVars, hand>>

\* saws_shrb_push_head looks for space only on every ReclaimFreq-th call.
PushHead ==
  /\ ccPush' = (ccPush + 1) % ReclaimFreq
  /\ IF ccPush = 0 THEN PushEnsured(1)
     ELSE opc = "idle" /\ Store(1) /\ UNCHANGED <<tail, completed, opc>>
  /\ UNCHANGED <<split, cur, stealval, snap, ccProg, thiefVars, hand>>

\* saws_shrb_pop_head when there is local work: the newest task.
PopHead ==
  /\ opc = "idle" /\ hand[Owner] = {} /\ nlocal > 0
  /\ hand' = [hand EXCEPT ![Owner] = {Head}]
  /\ q' = q \ {Head}
  /\ nlocal' = nlocal - 1
  /\ UNCHANGED <<tail, split, cur, completed, stealval, opc, snap, ccPush, ccProg,
                 thiefVars>>

\* The task just popped runs.  While it does it may push others.
Execute ==
  /\ opc = "idle" /\ hand[Owner] # {}
  /\ hand' = [hand EXCEPT ![Owner] = {}]
  /\ UNCHANGED <<ownerVars, completed, stealval, q, thiefVars>>

-----------------------------------------------------------------------------
(***************************************************************************)
(* Moving the split.                                                       *)
(***************************************************************************)
\* saws_shrb_release: advertise half of the local tasks, provided nothing of an
\* earlier block is left in the ring, not even claims being copied.
Release ==
  IF nlocal > 0 /\ SharedSize(tail) = 0
  THEN LET nshared == Released(nlocal)
       IN  /\ nlocal' = nlocal - nshared
           /\ split' = (split + nshared) % MaxSize
           /\ completed' = [completed EXCEPT ![cur] = Epoch(nshared, tail)]
           /\ stealval' = [asteals |-> 0, valid |-> cur, itasks |-> nshared,
                           tail |-> tail]
  ELSE UNCHANGED <<nlocal, split, completed, stealval>>

\* gtc_progress_saws: release, then (every ReclaimFreq-th call) reclaim.  Thieves
\* see the released block before the owner looks at its completions.
Progress ==
  /\ opc = "idle"
  /\ IF nlocal + SharedSize(tail) > 1
     THEN Release ELSE UNCHANGED <<nlocal, split, completed, stealval>>
  /\ ccProg' = (ccProg + 1) % ReclaimFreq
  /\ opc' = IF ccProg = 0 THEN "reclaim" ELSE opc
  /\ UNCHANGED <<tail, cur, q, snap, ccPush, thiefVars, hand>>

ProgressReclaim ==
  /\ opc = "reclaim" /\ opc' = "idle"
  /\ tail' = ReclaimSpace.tail /\ completed' = ReclaimSpace.completed
  /\ UNCHANGED <<split, nlocal, cur, stealval, q, snap, ccPush, ccProg, thiefVars,
                 hand>>

\* saws_shrb_pop_head without local work reacquires.  First it turns steals off
\* and learns, from the same atomic operation, how many were made.
ReacquireBegin ==
  /\ opc = "idle" /\ hand[Owner] = {}
  /\ nlocal = 0 /\ SharedSize(tail) > 0
  /\ snap' = stealval
  /\ stealval' = [stealval EXCEPT !.valid =
                    IF @ < Disable THEN @ + Disable ELSE @]
  /\ opc' = "reacquire"
  /\ UNCHANGED <<tail, split, nlocal, cur, completed, q, ccPush, ccProg, thiefVars,
                 hand>>

\* Mutated forms: the owner does not wait for the claims of the last epoch; it
\* waits for the claims of the current one.
NoWait == TRUE
WaitForCurrent == completed[cur].done \/ StatusSum(cur) = completed[cur].itasks

\* Every claim on the last epoch has been copied: its record may be reused.
LastEpochOver ==
  completed[Last].done \/ StatusSum(Last) = completed[Last].itasks

\* Mutated form: the split is not wrapped around.
LoweredNoWrap(amount) == split - amount

\* The split, moved back over `amount` tasks.
Lowered(amount) ==
  IF split < amount THEN split - amount + MaxSize ELSE split - amount

\* No task is left to take back: advertise an empty block.
ReacquireNothing ==
  /\ stealval' = [asteals |-> 0, valid |-> cur, itasks |-> 0, tail |-> tail]
  /\ UNCHANGED <<tail, split, nlocal, cur, completed, q, hand>>

\* Take back the end of the block, advertise the rest of it in the other epoch,
\* leave the claims made so far to the epoch they belong to, and pop a task.
ReacquireSome(left) ==
  LET amount == Reacquired(left)
      stolen == snap.itasks - left
      old    == completed[cur]
      next   == Epoch(left - amount, (old.vtail + stolen) % MaxSize)
      copied == old.vtail + StatusPrefix(cur)
  IN  /\ split' = Lowered(amount)
      /\ cur' = Last
      /\ tail' = IF copied > tail THEN copied % MaxSize ELSE tail
      /\ completed' = [completed EXCEPT ![cur].itasks = stolen,
                                        ![cur].maxsteals = snap.asteals,
                                        ![Last] = next]
      /\ stealval' = [asteals |-> 0, valid |-> Last, itasks |-> next.itasks,
                      tail |-> next.vtail]
      /\ nlocal' = amount - 1
      /\ LET head == (split' + amount - 1) % MaxSize
         IN  q' = q \ {head} /\ hand' = [hand EXCEPT ![Owner] = {head}]

ReacquireFinish ==
  /\ opc = "reacquire" /\ LastEpochOver
  /\ LET left == Left(snap.itasks, snap.asteals)
     IN  IF Reacquired(left) > 0 THEN ReacquireSome(left) ELSE ReacquireNothing
  /\ opc' = "idle" /\ snap' = NoSteals
  /\ UNCHANGED <<ccPush, ccProg, thiefVars>>

-----------------------------------------------------------------------------
(***************************************************************************)
(* saws_shrb_pop_n_tail_impl, run by a thief.  The arguments n, steal_vol  *)
(* and trylock of the C function are not read by it.                       *)
(***************************************************************************)
\* The assertion that fails in the owner ends the job, thieves included.
Running == opc # "aborted"

Enabled(sv) == sv.valid < Disable

\* Mutated form: one attempt more than the block has shares.
ExhaustedLate(sv) == sv.asteals > MaxSteals(sv.itasks)

\* The block has no share left for this attempt.
Exhausted(sv) == sv.asteals >= MaxSteals(sv.itasks)

\* Mutated form: the thief forgets the tasks stolen before it.
ShareFromTail(sv) == [epoch |-> sv.valid, index |-> sv.asteals, start |-> sv.tail,
                      n |-> Take(Left(sv.itasks, sv.asteals))]

\* The share of the thief that found the steal value sv.
Share(sv) == [epoch |-> sv.valid, index |-> sv.asteals,
              start |-> sv.tail + Stolen(sv.itasks, sv.asteals),
              n     |-> Take(Left(sv.itasks, sv.asteals))]

\* Mutated form: the thief does not learn from a vain attempt.
StayFull(th) == target

\* What a thief believes after an attempt without a share: an exhausted block is
\* remembered, a queue that is being rearranged is not.
Demoted(th) == IF Enabled(stealval) THEN [target EXCEPT ![th] = "empty"] ELSE target

\* The thief believes there is work: it claims a share, or learns there is none.
FetchAdd(th) ==
  /\ Running /\ pc[th] \in {"idle", "test"} /\ target[th] = "full"
  /\ stealval' = [stealval EXCEPT !.asteals = (@ + 1) % AStealsMod]
  /\ IF Enabled(stealval) /\ ~Exhausted(stealval)
     THEN /\ claim' = [claim EXCEPT ![th] = Share(stealval)]
          /\ pc' = [pc EXCEPT ![th] = "copy"]
          /\ UNCHANGED target
     ELSE /\ target' = Demoted(th)
          /\ pc' = [pc EXCEPT ![th] = "idle"]
          /\ UNCHANGED claim
  /\ UNCHANGED <<ownerVars, completed, q, hand>>

\* The thief believes there is none: it looks without counting itself in, and
\* if there is work it goes back to claim some.
Fetch(th) ==
  /\ Running /\ pc[th] = "idle" /\ target[th] = "empty"
  /\ Enabled(stealval) /\ ~Exhausted(stealval)
  /\ target' = [target EXCEPT ![th] = "full"]
  /\ pc' = [pc EXCEPT ![th] = "test"]
  /\ UNCHANGED <<ownerVars, completed, stealval, q, claim, hand>>

\* shmem_getmem_nbi and shmem_quiet: the share is in the steal buffer.
Copy(th) ==
  /\ Running /\ pc[th] = "copy"
  /\ LET share == Block(claim[th].start, claim[th].n)
     IN  q' = q \ share /\ hand' = [hand EXCEPT ![th] = share]
  /\ pc' = [pc EXCEPT ![th] = "complete"]
  /\ UNCHANGED <<ownerVars, completed, stealval, target, claim>>

\* The volume is added to the thief's entry of the completion array; the thief
\* goes on with the stolen tasks.
Complete(th) ==
  LET c == claim[th]
  IN  /\ Running /\ pc[th] = "complete"
      /\ completed' = [completed EXCEPT ![c.epoch].status[c.index] = @ + c.n]
      /\ pc' = [pc EXCEPT ![th] = "idle"]
      /\ claim' = [claim EXCEPT ![th] = NoClaim]
      /\ hand' = [hand EXCEPT ![th] = {}]
      /\ UNCHANGED <<ownerVars, stealval, q, target>>

Steal(th) == FetchAdd(th) \/ Fetch(th) \/ Copy(th) \/ Complete(th)

-----------------------------------------------------------------------------
\* saws_shrb_reset, as saws_shrb_create and gtc_reset call it: every process
\* resets its queue and its targets[], none is inside a queue operation.  The
\* damping counters are static: they survive.
NoEpochs == [e \in Epochs |->
               [itasks |-> 0, vtail |-> 0, done |-> e = 1, maxsteals |-> 0,
                status |-> [i \in Indices |-> 0]]]

Init ==
  /\ tail = 0 /\ split = 0 /\ nlocal = 0 /\ cur = 0
  /\ completed = NoEpochs /\ stealval = NoSteals
  /\ q = {} /\ opc = "idle" /\ snap = NoSteals
  /\ ccPush = 0 /\ ccProg = 0
  /\ pc = [th \in Thieves |-> "idle"]
  /\ target = [th \in Thieves |-> "full"]
  /\ claim = [th \in Thieves |-> NoClaim]
  /\ hand = [w \in Workers |-> {}]

Reset ==
  /\ opc = "idle" /\ hand[Owner] = {} /\ \A th \in Thieves : pc[th] = "idle"
  /\ tail' = 0 /\ split' = 0 /\ nlocal' = 0 /\ cur' = 0
  /\ completed' = NoEpochs /\ stealval' = NoSteals /\ q' = {}
  /\ target' = [th \in Thieves |-> "full"]
  /\ UNCHANGED <<opc, snap, ccPush, ccProg, pc, claim, hand>>

Push == PushHead \/ \E n \in 1..MaxPush : PushNHead(n)

OwnerNext == \/ Push \/ PopHead \/ Execute
             \/ Progress \/ ProgressReclaim
             \/ ReacquireBegin \/ ReacquireFinish

Next == OwnerNext \/ Reset \/ \E th \in Thieves : Steal(th)

Spec == Init /\ [][Next]_vars

(***************************************************************************)
(* A thief that has claimed a share is inside straight-line code, and so   *)
(* is an owner between two of its steps: both go on.  The owner's scheduler*)
(* loop (gtc_process, gtc_get_buf_saws) starts every round with            *)
(* gtc_progress, so an owner that keeps taking steps keeps making          *)
(* progress, whatever else it does in between: strong fairness.  Nothing   *)
(* obliges anyone to push, to steal or to reset.                           *)
(***************************************************************************)
Fairness == /\ \A th \in Thieves : WF_vars(Copy(th)) /\ WF_vars(Complete(th))
            /\ WF_vars(ReacquireFinish) /\ WF_vars(ProgressReclaim)
            /\ SF_vars(Progress)

LiveSpec == Spec /\ Fairness

-----------------------------------------------------------------------------
(***************************************************************************)
(* Properties.                                                             *)
(***************************************************************************)
StealValues == [asteals : 0..(AStealsMod-1), valid : 0..3, itasks : 0..MaxBlock,
                tail : Slots]
Completions == [itasks : 0..MaxBlock, vtail : Slots, done : BOOLEAN,
                maxsteals : 0..MaxStealsPerEpoch, status : [Indices -> Nat]]
Claims == [epoch : Epochs, index : Indices, start : Nat, n : 0..MaxBlock]

TypeOK ==
  /\ tail \in Slots /\ split \in Slots /\ nlocal \in 0..MaxLocal /\ cur \in Epochs
  /\ completed \in [Epochs -> Completions]
  /\ stealval \in StealValues /\ snap \in StealValues
  /\ q \subseteq Slots
  /\ opc \in {"idle", "reclaim", "reacquire", "aborted"}
  /\ ccPush \in 0..(ReclaimFreq-1) /\ ccProg \in 0..(ReclaimFreq-1)
  /\ pc \in [Thieves -> {"idle", "test", "copy", "complete"}]
  /\ target \in [Thieves -> {"full", "empty"}]
  /\ claim \in [Thieves -> Claims]
  /\ hand \in [Workers -> SUBSET Slots]

\* The steal value that says which part of the shared block is unclaimed: while
\* steals are off it is the one the owner fetched when it turned them off.
Advertised == IF opc = "reacquire" THEN snap ELSE stealval

NUnclaimed == IF Enabled(Advertised)
              THEN Left(Advertised.itasks, Advertised.asteals) ELSE 0

Unclaimed == Block(Advertised.tail + Stolen(Advertised.itasks, Advertised.asteals),
                   NUnclaimed)

Local == Block(split, nlocal)

InFlight == {th \in Thieves : pc[th] \in {"copy", "complete"}}
Copying  == {th \in Thieves : pc[th] = "copy"}
Reserved(th) == Block(claim[th].start, claim[th].n)

\* No task is lost and none appears: at every moment the slots that hold a task
\* nobody has taken are exactly the local ones, the unclaimed part of the shared
\* block and the claims not copied yet, although no process knows all three.
NothingLost ==
  q = Local \cup Unclaimed \cup UNION {Reserved(th) : th \in Copying}

\* The three kinds of region never overlap, nor do two claims, whatever mixture of
\* epochs the claims were made in: no task can be handed out twice, and a claim
\* being copied is not written over until it is completed.  Nor is a region longer
\* than the ring, so that it would overlap itself.
RegionsDisjoint ==
  /\ nlocal <= MaxSize /\ NUnclaimed <= MaxSize
  /\ Local \cap Unclaimed = {}
  /\ \A th \in InFlight :
        /\ claim[th].n <= MaxSize
        /\ Reserved(th) \cap (Local \cup Unclaimed) = {}
        /\ \A other \in InFlight \ {th} : Reserved(th) \cap Reserved(other) = {}

\* The tail never passes a claim that is not completed: the owner cannot take a
\* slot for free while a thief may still be reading it.
ReservedBehindTail ==
  \A th \in InFlight : Reserved(th) \subseteq Block(tail, SharedSize(tail))

\* The completion a thief is about to report lands in the record of the block it
\* claimed from, in an entry nobody else reports to: that record has not been
\* recycled for a newer block, and no two thieves hold the same entry.
ClaimsUnambiguous ==
  \A th \in InFlight :
    LET c == claim[th]
        r == completed[c.epoch]
    IN  /\ ~r.done /\ c.index < r.maxsteals /\ r.status[c.index] = 0
        /\ \A other \in InFlight \ {th} :
             claim[other].epoch # c.epoch \/ claim[other].index # c.index

\* Damping works: a block of itasks tasks never sees more than its MaxSteals
\* claims plus one vain attempt per thief, so asteals cannot wrap around to a
\* value that would hand the block out again.
AStealsBounded ==
  Enabled(stealval) =>
    stealval.asteals <= MaxSteals(stealval.itasks)
                        + Cardinality({th \in Thieves : target[th] = "empty"})

\* The queue keeps the promise of a pool: what a worker gets from a pop or a steal
\* was in the pool, and only that worker gets it.
Pool == INSTANCE TaskPool WITH Tasks <- Slots, pool <- q
ImplementsPool == Pool!Spec

\* When the queue gives up on a push of one task there really is no slot left that
\* is not taken by a task nobody has claimed (comment in saws_shrb_ensure_space:
\* otherwise it waits for the deferred copies to finish).
AbortsOnlyWhenFull == opc = "aborted" => nlocal + NUnclaimed >= MaxSize

\* The local part never reaches beyond the tail: everything between the head and
\* the virtual tail is free space (comment at the head of saws_shrb.c).
HeadBehindTail == nlocal + SharedSize(tail) <= MaxSize

\* A reacquire that waits for the claims of the last epoch does return.
ReacquireReturns == opc = "reacquire" ~> opc = "idle"

\* Once every task of the queue is claimed and the owner pushes nothing, the
\* shared part is eventually seen to be empty.  The process votes for termination
\* only when gtc_tasks_avail, which counts claims being copied, is zero, so without
\* this nobody would ever terminate.
SharedPartDrains ==
  (nlocal = 0 /\ NUnclaimed = 0)
    ~> (nlocal > 0 \/ SharedSize(tail) = 0 \/ opc = "aborted")
=============================================================================
