---------------------------- MODULE MCSawsQueue ----------------------------
EXTENDS SawsQueue, TLC

\* Thieves are interchangeable; the owner is not one of them.
Symmetry == Permutations(Thieves)

\* The record of the last epoch is not read again once it is done: of it, only that
\* counts.  (A reacquire writes a new one before the epoch becomes current.)
View == <<ownerVars, stealval, q, thiefVars, hand, completed[cur],
          IF completed[Last].done THEN <<>> ELSE completed[Last]>>
=============================================================================
