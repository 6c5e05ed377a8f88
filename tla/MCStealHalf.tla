---------------------------- MODULE MCStealHalf ----------------------------
(***************************************************************************)
(* One epoch, seen through steal_val alone: a block of itasks tasks is     *)
(* advertised, attempts on it arrive one after another, some of them after *)
(* it is exhausted, and the owner may turn steals off in between.  Checks  *)
(* the arithmetic of StealHalf against definitions that do not mention the *)
(* loops, and the word of StealWord against the record of SawsQueue.       *)
(***************************************************************************)
EXTENDS StealHalf, StealWord

CONSTANTS MaxItasks,   \* the blocks of every size up to this one are checked,
          MaxLog,      \* and the sizes next to each power of two up to 2^MaxLog
          Tails,       \* where the block may start
          Overshoot    \* attempts that arrive after the block is exhausted

VARIABLES itasks, asteals, tail, valid,  \* what SawsQueue keeps
          word                           \* what is in memory

vars == <<itasks, asteals, tail, valid, word>>

Sizes == (1..MaxItasks)
         \cup {2^k + d : k \in 2..MaxLog, d \in {-1, 0, 1}}

Init == /\ itasks \in Sizes /\ asteals = 0 /\ tail \in Tails /\ valid \in {0, 1}
        /\ word = SetStealval(valid, itasks, tail)

\* A thief increments the counter.
Attempt == /\ asteals < MaxSteals(itasks) + Overshoot
           /\ asteals' = asteals + 1 /\ word' = FetchAddSteal(word)
           /\ UNCHANGED <<itasks, tail, valid>>

\* The owner turns steals off, once, as it begins to reacquire.
TurnOff == /\ valid \in {0, 1}
           /\ valid' = valid + 2 /\ word' = DisableSteals(word)
           /\ UNCHANGED <<itasks, asteals, tail>>

Next == Attempt \/ TurnOff

Spec == Init /\ [][Next]_vars

-----------------------------------------------------------------------------

\* The two loops agree on when an epoch is over: a thief decides by comparing
\* asteals with saws_max_steals(itasks), the owner by adding up volumes.  If
\* they differed a task would be advertised that no thief may claim and that no
\* completion array entry covers, or claimed by an attempt of volume zero.
ExhaustedTogether == (Left(itasks, asteals) = 0) <=> (asteals >= MaxSteals(itasks))

\* The loop of saws_max_steals counts ceil(log2(itasks)) + 1 steals, and so
\* never needs more entries than the SAWS_MAX_STEALS_PER_EPOCH = 22 of the
\* status array, whatever the 19 bits of itasks hold.
LogManySteals ==
  LET k == MaxSteals(itasks)
  IN  2^(k-1) >= itasks /\ (k >= 2 => 2^(k-2) < itasks) /\ k <= 22

\* The word holds what the record of SawsQueue does, whatever was added or ored to it:
\* no steal count carries into another field, turning steals off keeps the epoch, and
\* nothing of a block or a position is lost, as long as both fit into 19 bits.
WordKeepsFields ==
  itasks < 2^19 /\ tail < 2^19 =>
    GetStealval(word) = [asteals |-> asteals, valid |-> valid, itasks |-> itasks, tail |-> tail]
=============================================================================
