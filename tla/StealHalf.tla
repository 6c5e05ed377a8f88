----------------------------- MODULE StealHalf -----------------------------
(***************************************************************************)
(* The steal-volume arithmetic of the SAWS queue.                          *)
(*                                                                         *)
(* An epoch advertises a block of itasks tasks.  The k-th thief to         *)
(* increment asteals claims half of what the k thieves before it left, and *)
(* nobody communicates the volumes: every thief, the owner that reacquires *)
(* and the owner that sizes its completion array recompute them from       *)
(* itasks and a number of attempts.  The three loops of saws_shrb.c that   *)
(* do so are one recurrence, given here as recursive functions.            *)
(***************************************************************************)
EXTENDS Naturals

\* Mutated forms, each used only by a mutation run: a halving that rounds up, and an
\* owner that takes the smaller half.
TakeRoundingUp(left) == (left \div 2) + (left % 2)
ReacquiredFloor(left) == left \div 2

\* Volume of one steal from a block in which `left` tasks are unclaimed: one
\* halving, except that the last task is taken whole.  (Of an empty block the
\* code also "halves" zero.)
Take(left) == IF left # 1 THEN left \div 2 ELSE 1

\* What one steal leaves of a block in which `left` tasks are unclaimed.
Rest(left) == left - Take(left)

\* Tasks the first k attempts leave of a block of `itasks` tasks, and how many
\* they take together: where in the block the next claim starts.
Left(itasks, k) ==
  LET l[i \in Nat] == IF i = 0 THEN itasks ELSE Rest(l[i-1]) IN l[k]

Stolen(itasks, k) == itasks - Left(itasks, k)

\* Mutated form: the count stops when one task is left.
StealsToLast(itasks) ==
  CHOOSE k \in 0..itasks : /\ Left(itasks, k) <= 1
                           /\ \A j \in 0..(k-1) : Left(itasks, j) > 1

\* Number of attempts that empty a block of `itasks` tasks.
MaxSteals(itasks) ==
  CHOOSE k \in 0..itasks : /\ Left(itasks, k) = 0
                           /\ \A j \in 0..(k-1) : Left(itasks, j) # 0

\* Tasks the owner takes back when it reacquires a block with `left` unclaimed.
Reacquired(left) == IF left = 1 THEN 1 ELSE (left \div 2) + (left % 2)

\* Tasks the owner shares when it releases with `nlocal` local tasks.
Released(nlocal) == (nlocal \div 2) + (nlocal % 2)
=============================================================================
