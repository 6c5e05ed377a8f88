------------------------------ MODULE SdcQueue ------------------------------
(***************************************************************************)
(* One SDC queue (libtc/sdc_shr_ring.c) and the mutex that protects it     *)
(* (libtc/mutex.c): a split ring whose thieves copy after they have        *)
(* unlocked.                                                               *)
(*                                                                         *)
(* The ring holds, clockwise: from vtail the claims, copied or not, whose  *)
(* slots are not reclaimed, from tail the shared tasks, from split the     *)
(* nlocal local ones.  A thief moves the tail under the lock, unlocks,     *)
(* copies, and adds the size of its claim to itail.  When itail has caught *)
(* up with the tail no copy is under way, and the owner moves vtail up.    *)
(* The owner takes the lock only to move the split back and when it waits  *)
(* for space; it releases tasks and reclaims slots without it.             *)
(*                                                                         *)
(* A put and the atomic store that follows it are ordered only if the      *)
(* network orders them (OrderedComms): there is no fence between the put of*)
(* the new tail and the store that unlocks.                                *)
(*                                                                         *)
(* A task is identified with the slot it was pushed into.                  *)
(***************************************************************************)
EXTENDS Integers, FiniteSets

CONSTANTS
  Thieves,       \* the other processes
  Owner,         \* the process whose queue this is
  MaxSize,       \* rb->max_size
  MaxPush,       \* the largest block pushed at once: bounds push_n_head
  Methods,       \* steal_vol: a subset of {"half", "all", "chunk"}
  MaxSteal,      \* the number of tasks a steal asks for
  OrderedComms,  \* is a put performed before a later store to the same process?
  MayFill        \* bound: may a push fill the last free slot of the ring?

ASSUME SizeAssumption == MaxSize \in Nat /\ MaxSize >= 2 /\ MaxPush \in 1..MaxSize
ASSUME WorkersAssumption == IsFiniteSet(Thieves) /\ Owner \notin Thieves
ASSUME StealAssumption == Methods \subseteq {"half", "all", "chunk"}
                          /\ MaxSteal \in Nat \ {0}
ASSUME BuildAssumption == OrderedComms \in BOOLEAN /\ MayFill \in BOOLEAN

VARIABLES
  vtail, itail, tail,   \* the three tails; itail may be outside the ring for a while
  split, nlocal,        \* the owner's part of the ring
  lock,                 \* rb->lock: the word synch_mutex_lock swaps
  wire,                 \* stores into the owner's memory not performed yet
  q,                    \* slots of rb->q[] with a task nobody has taken
  opc, want, seen,      \* the owner: where it is, tasks it waits to push, itail it read
  pc, claim,            \* each thief: where it is, its claim
  hand                  \* tasks in the owner's buffer and in the steal buffers

ringVars  == <<vtail, itail, tail, split, nlocal>>
ownerVars == <<opc, want, seen>>
thiefVars == <<pc, claim>>
vars == <<ringVars, lock, wire, q, ownerVars, thiefVars, hand>>

Slots   == 0..(MaxSize-1)
Workers == Thieves \cup {Owner}

\* The n slots from position start on, and the number of slots from a to b.
Block(start, n) == {(start + i) % MaxSize : i \in 0..(n-1)}
Distance(a, b)  == IF a <= b THEN b - a ELSE b + MaxSize - a

NoClaim == [start |-> 0, n |-> 0]

SharedSize == Distance(tail, split)
PublicSize == Distance(vtail, split)
Head       == (split + nlocal - 1) % MaxSize

HalfUp(n) == (n \div 2) + (n % 2)
Least(a, b) == IF a < b THEN a ELSE b

-----------------------------------------------------------------------------
(***************************************************************************)
(* The mutex: one word in the owner's memory.  A swap that finds it locked *)
(* changes nothing and is repeated.  The store that unlocks it travels.    *)
(***************************************************************************)
Acquire == lock = "unlocked" /\ lock' = "locked"

Store(p, part, t) == [from |-> p, part |-> part, tail |-> t]

Unlock(p) == {Store(p, "unlock", 0)}

\* The new tail, then the store that unlocks.
ReserveAndUnlock(p, t) ==
  IF OrderedComms THEN {Store(p, "both", t)} ELSE {Store(p, "tail", t)} \cup Unlock(p)

\* p is not inside shmem_quiet.
Quiet(p) == \A m \in wire : m.from # p

Deliver(m) ==
  /\ m \in wire
  /\ wire' = wire \ {m}
  /\ tail' = IF m.part \in {"tail", "both"} THEN m.tail ELSE tail
  /\ lock' = IF m.part \in {"unlock", "both"} THEN "unlocked" ELSE lock
  /\ UNCHANGED <<vtail, itail, split, nlocal, q, ownerVars, thiefVars, hand>>

-----------------------------------------------------------------------------
(***************************************************************************)
(* The owner pushes.                                                       *)
(***************************************************************************)
Running == opc \notin {"aborted", "failed"}

\* The assertion in sdc_shrb_public_size.
EmptyAsserted == vtail = split => tail = itail /\ tail = split

Fits(n) == MaxSize - (nlocal + PublicSize) >= n

\* Bound: unless MayFill, the program never makes the ring exactly full.
Admissible(n) ==
  \/ MayFill \/ nlocal + n > MaxSize
  \/ Fits(n) /\ nlocal + PublicSize + n < MaxSize
  \/ ~Fits(n) /\ nlocal + SharedSize + n < MaxSize

Fill(n) == /\ q' = q \cup Block(split + nlocal, n)
           /\ nlocal' = nlocal + n

\* sdc_shrb_push_n_head, for n = 1 push_head and alloc_head: without the lock if
\* there is room enough.
Push(n) ==
  /\ opc = "idle" /\ Admissible(n)
  /\ IF EmptyAsserted /\ Fits(n) THEN Fill(n) /\ UNCHANGED <<opc, want>>
     ELSE /\ opc' = IF EmptyAsserted THEN "lockPush" ELSE "failed"
          /\ want' = n
          /\ UNCHANGED <<q, nlocal>>
  /\ UNCHANGED <<vtail, itail, tail, split, lock, wire, seen, thiefVars, hand>>

\* Mutated form: the owner does not ask whether the copies are done.
ReclaimAny(i) == vtail # tail

\* sdc_shrb_reclaim_space, having read i from itail: all claims are copied.
Reclaimable(i) == vtail # tail /\ i = tail

\* ensure_space under the lock: not even reclaiming everything would do.
EnsureAbort ==
  /\ opc = "inPush" /\ MaxSize - (nlocal + SharedSize) < want
  /\ opc' = "aborted"
  /\ UNCHANGED <<ringVars, lock, wire, q, want, seen, thiefVars, hand>>

\* ensure_space: the wait for the copies ends; the push goes on.
EnsureReclaim ==
  /\ opc = "inPush" /\ MaxSize - (nlocal + SharedSize) >= want
  /\ Reclaimable(itail)
  /\ vtail' = tail
  /\ wire' = wire \cup Unlock(Owner)
  /\ Fill(want)
  /\ opc' = "idle" /\ want' = 0
  /\ UNCHANGED <<itail, tail, split, lock, seen, thiefVars, hand>>

-----------------------------------------------------------------------------
(***************************************************************************)
(* The owner pops, and moves the split.                                    *)
(***************************************************************************)
\* sdc_shrb_pop_head: the newest local task; without one, reacquire first.
PopHead ==
  /\ opc = "idle" /\ hand[Owner] = {}
  /\ IF nlocal > 0
     THEN /\ hand' = [hand EXCEPT ![Owner] = {Head}]
          /\ q' = q \ {Head} /\ nlocal' = nlocal - 1 /\ UNCHANGED opc
     ELSE opc' = "lockPop" /\ UNCHANGED <<hand, q, nlocal>>
  /\ UNCHANGED <<vtail, itail, tail, split, lock, wire, want, seen, thiefVars>>

\* Mutated form: the split is not wrapped around.
LoweredNoWrap(amount) == split - amount

\* The split, moved back over `amount` tasks.
Lowered(amount) == IF split < amount THEN split - amount + MaxSize ELSE split - amount

\* sdc_shrb_reacquire under the lock, and the pop that asked for it.
ReacquirePop ==
  LET amount == HalfUp(SharedSize)
      head   == (Lowered(amount) + amount - 1) % MaxSize
  IN  /\ opc = "inPop"
      /\ IF amount > 0
         THEN /\ split' = Lowered(amount) /\ nlocal' = amount - 1
              /\ hand' = [hand EXCEPT ![Owner] = {head}] /\ q' = q \ {head}
         ELSE UNCHANGED <<split, nlocal, hand, q>>
      /\ wire' = wire \cup Unlock(Owner)
      /\ opc' = "idle"
      /\ UNCHANGED <<vtail, itail, tail, lock, want, seen, thiefVars>>

OwnerLock ==
  /\ opc \in {"lockPush", "lockPop"} /\ Acquire
  /\ opc' = IF opc = "lockPush" THEN "inPush" ELSE "inPop"
  /\ UNCHANGED <<ringVars, wire, q, want, seen, thiefVars, hand>>

\* The task just popped runs.  While it does it may push others.
Execute ==
  /\ opc = "idle" /\ hand[Owner] # {}
  /\ hand' = [hand EXCEPT ![Owner] = {}]
  /\ UNCHANGED <<ringVars, lock, wire, q, ownerVars, thiefVars>>

\* gtc_progress_sdc: release half of the local tasks if nothing is shared, then
\* reclaim, which reads itail and tail one after the other.
Release ==
  /\ opc = "idle" /\ opc' = "reclaim"
  /\ LET amount == IF SharedSize = 0 THEN HalfUp(nlocal) ELSE 0
     IN  nlocal' = nlocal - amount /\ split' = (split + amount) % MaxSize
  /\ UNCHANGED <<vtail, itail, tail, lock, wire, q, want, seen, thiefVars, hand>>

ReadItail ==
  /\ opc = "reclaim" /\ opc' = "compare" /\ seen' = itail
  /\ UNCHANGED <<ringVars, lock, wire, q, want, thiefVars, hand>>

ReclaimSpace ==
  /\ opc = "compare" /\ opc' = "idle" /\ seen' = 0
  /\ vtail' = IF Reclaimable(seen) THEN tail ELSE vtail
  /\ UNCHANGED <<itail, tail, split, nlocal, lock, wire, q, want, thiefVars, hand>>

-----------------------------------------------------------------------------
(***************************************************************************)
(* A steal: sdc_shrb_pop_n_tail_impl, run by a thief.                      *)
(***************************************************************************)
Lock(th) ==
  /\ Running /\ pc[th] = "idle" /\ Acquire
  /\ pc' = [pc EXCEPT ![th] = "locked"]
  /\ UNCHANGED <<ringVars, wire, q, ownerVars, claim, hand>>

\* How many of s shared tasks each method takes.
Volume(method, s) == Least(MaxSteal, IF method = "half" THEN HalfUp(s) ELSE s)

\* Mutated form: the claim starts at the wrong tail.
FromVtail(n) == [start |-> vtail, n |-> n]

\* The claim of n tasks: those from the tail on.
Claimed(n) == [start |-> tail, n |-> n]

\* Copy the metadata, move the tail over the claim, unlock.
Reserve(th, method) ==
  LET n == Volume(method, SharedSize)
  IN  /\ Running /\ pc[th] = "locked"
      /\ IF n > 0
         THEN /\ pc' = [pc EXCEPT ![th] = "copy"]
              /\ claim' = [claim EXCEPT ![th] = Claimed(n)]
              /\ wire' = wire \cup ReserveAndUnlock(th, (tail + n) % MaxSize)
         ELSE /\ pc' = [pc EXCEPT ![th] = "idle"]
              /\ wire' = wire \cup Unlock(th)
              /\ UNCHANGED claim
  /\ UNCHANGED <<ringVars, lock, q, ownerVars, hand>>

\* The deferred copy, and the shmem_quiet that ends it.
Copy(th) ==
  /\ Running /\ pc[th] = "copy" /\ Quiet(th)
  /\ LET share == Block(claim[th].start, claim[th].n)
     IN  q' = q \ share /\ hand' = [hand EXCEPT ![th] = share]
  /\ pc' = [pc EXCEPT ![th] = "complete"]
  /\ UNCHANGED <<ringVars, lock, wire, ownerVars, claim>>

\* Mutated form: itail is set to the thief's own new tail.
IncrementToTail(c) == ((c.start + c.n) % MaxSize) - itail

\* What a completed claim adds to itail.
Increment(c) == IF c.start + c.n < MaxSize THEN c.n ELSE c.n - MaxSize

\* The atomic add to itail; the thief goes on with the stolen tasks.
Complete(th) ==
  /\ Running /\ pc[th] = "complete"
  /\ itail' = itail + Increment(claim[th])
  /\ pc' = [pc EXCEPT ![th] = "idle"]
  /\ claim' = [claim EXCEPT ![th] = NoClaim]
  /\ hand' = [hand EXCEPT ![th] = {}]
  /\ UNCHANGED <<vtail, tail, split, nlocal, lock, wire, q, ownerVars>>

Steal(th) == \/ Lock(th) \/ Copy(th) \/ Complete(th)
             \/ \E method \in Methods : Reserve(th, method)

-----------------------------------------------------------------------------
Init ==
  /\ vtail = 0 /\ itail = 0 /\ tail = 0 /\ split = 0 /\ nlocal = 0
  /\ lock = "unlocked" /\ wire = {} /\ q = {}
  /\ opc = "idle" /\ want = 0 /\ seen = 0
  /\ pc = [th \in Thieves |-> "idle"]
  /\ claim = [th \in Thieves |-> NoClaim]
  /\ hand = [w \in Workers |-> {}]

\* sdc_shrb_reset, in the collective gtc_reset.
Reset ==
  /\ opc = "idle" /\ hand[Owner] = {} /\ wire = {}
  /\ \A th \in Thieves : pc[th] = "idle"
  /\ vtail' = 0 /\ itail' = 0 /\ tail' = 0 /\ split' = 0 /\ nlocal' = 0 /\ q' = {}
  /\ UNCHANGED <<lock, wire, ownerVars, thiefVars, hand>>

OwnerNext == \/ \E n \in 1..MaxPush : Push(n)
             \/ EnsureAbort \/ EnsureReclaim \/ OwnerLock
             \/ PopHead \/ ReacquirePop \/ Execute
             \/ Release \/ ReadItail \/ ReclaimSpace

Next == \/ OwnerNext \/ Reset
        \/ \E th \in Thieves : Steal(th)
        \/ \E m \in wire : Deliver(m)

Spec == Init /\ [][Next]_vars

(***************************************************************************)
(* Whoever holds the lock or a claim is inside straight-line code, or in   *)
(* the owner's wait for copies, and stores are performed.  A swap need not *)
(* ever win the lock: nothing is assumed of those who wait for it.         *)
(***************************************************************************)
Fairness ==
  /\ \A th \in Thieves : /\ WF_vars(\E method \in Methods : Reserve(th, method))
                         /\ WF_vars(Copy(th)) /\ WF_vars(Complete(th))
  /\ WF_vars(ReacquirePop) /\ WF_vars(EnsureReclaim) /\ WF_vars(EnsureAbort)
  /\ WF_vars(\E m \in wire : Deliver(m))

LiveSpec == Spec /\ Fairness

-----------------------------------------------------------------------------
(***************************************************************************)
(* Properties.                                                             *)
(***************************************************************************)
Stores == [from : Workers, part : {"tail", "unlock", "both"}, tail : Slots]

\* Types.  itail stays within one turn of the ring.
TypeOK ==
  /\ vtail \in Slots /\ tail \in Slots /\ split \in Slots
  /\ itail \in (-MaxSize)..(2*MaxSize) /\ seen \in (-MaxSize)..(2*MaxSize)
  /\ nlocal \in 0..MaxSize
  /\ lock \in {"locked", "unlocked"} /\ wire \subseteq Stores
  /\ q \subseteq Slots
  /\ opc \in {"idle", "lockPush", "inPush", "lockPop", "inPop", "reclaim",
              "compare", "aborted", "failed"}
  /\ want \in 0..MaxPush
  /\ pc \in [Thieves -> {"idle", "locked", "copy", "complete"}]
  /\ claim \in [Thieves -> [start : Slots, n : 0..MaxSize]]
  /\ hand \in [Workers -> SUBSET Slots]

InFlight == {th \in Thieves : pc[th] \in {"copy", "complete"}}
Copying  == {th \in Thieves : pc[th] = "copy"}
Reserved(th) == Block(claim[th].start, claim[th].n)
Local == Block(split, nlocal)

\* The tail as the last thief to hold the lock has moved it, performed or not.
MovedTail == LET moves == {m \in wire : m.part # "unlock"}
             IN  IF moves = {} THEN tail ELSE (CHOOSE m \in moves : TRUE).tail
NShared == Distance(MovedTail, split)
Shared  == Block(MovedTail, NShared)

\* No task is lost and none appears: the slots with a task nobody has taken are the
\* local ones, the shared ones and those of claims not copied yet.
NothingLost == q = Local \cup Shared \cup UNION {Reserved(th) : th \in Copying}

\* Local tasks, shared tasks and claims under way are in different slots: nothing is
\* handed out twice, and the owner writes over no claim while it is copied.  Nor is
\* a region longer than the ring, so that it would overlap itself.
RegionsDisjoint ==
  /\ nlocal <= MaxSize
  /\ Local \cap Shared = {}
  /\ \A th \in InFlight :
        /\ claim[th].n <= MaxSize
        /\ Reserved(th) \cap (Local \cup Shared) = {}
        /\ \A other \in InFlight \ {th} : Reserved(th) \cap Reserved(other) = {}

\* The virtual tail never passes a claim that is being copied, although thieves
\* complete in any order and the owner reads their counter without the lock.
ReservedBehindTail ==
  \A th \in InFlight : Reserved(th) \subseteq Block(vtail, PublicSize)

\* When the intermediate tail meets the tail, no claim between the virtual tail and
\* the tail is being copied: the sum of the increments tells that there is none.
TailsMeetWhenCopied ==
  Reclaimable(itail) =>
    \A th \in InFlight : Reserved(th) \cap Block(vtail, Distance(vtail, tail)) = {}

\* The queue keeps the promise of a pool.
Pool == INSTANCE TaskPool WITH Tasks <- Slots, pool <- q
ImplementsPool == Pool!Spec

\* The lock is always given back, although the owner waits for other processes'
\* copies while it holds it: none of them ever needs the lock to finish.
LockReleased == lock = "locked" ~> (lock = "unlocked" \/ ~Running)

\* The assertion of sdc_shrb_public_size: a public part that looks empty is empty.
PublicSizeAsserted == opc # "failed"
=============================================================================
