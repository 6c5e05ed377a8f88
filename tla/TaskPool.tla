------------------------------ MODULE TaskPool ------------------------------
(***************************************************************************)
(* What a task queue promises, whatever its representation: a task put in  *)
(* the pool stays there until exactly one worker takes it.  There is no    *)
(* other way out, apart from a collective reset, and no way to take what   *)
(* is not there.                                                           *)
(***************************************************************************)
CONSTANTS Tasks,    \* identities of the tasks the pool can hold at one time
          Workers   \* the processes that put and take tasks

VARIABLES pool,     \* the tasks nobody has taken
          hand      \* the tasks each worker took last and has not finished with

vars == <<pool, hand>>

TypeOK == pool \subseteq Tasks /\ hand \in [Workers -> SUBSET Tasks]

Nothing == [w \in Workers |-> {}]

Init == pool = {} /\ hand = Nothing

\* New tasks.
Put == /\ pool \subseteq pool' /\ pool' # pool /\ pool' \subseteq Tasks
       /\ UNCHANGED hand

\* A worker with empty hands takes some of the pool.
Take(w) == /\ hand[w] = {} /\ hand'[w] # {} /\ hand'[w] \subseteq pool
           /\ pool' = pool \ hand'[w]
           /\ hand' = [hand EXCEPT ![w] = hand'[w]]

Finish(w) == /\ hand[w] # {}
             /\ hand' = [hand EXCEPT ![w] = {}]
             /\ UNCHANGED pool

\* A collective reset, at which no worker has a task in hand.
Clear == hand = Nothing /\ pool' = {} /\ UNCHANGED hand

Next == \/ Put
        \/ \E w \in Workers : Take(w) \/ Finish(w)
        \/ Clear

Spec == Init /\ [][Next]_vars
=============================================================================
