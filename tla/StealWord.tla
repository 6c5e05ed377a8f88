----------------------------- MODULE StealWord -----------------------------
(***************************************************************************)
(* steal_val as what it is, a word of 64 bits: asteals in the top 24,      *)
(* valid in two, itasks in 19, tail in 19.  SawsQueue keeps it as a record *)
(* and changes one field at a time; the code shifts and ors the fields     *)
(* together unmasked, and the thieves' fetch-and-add and the owner's       *)
(* fetch-and-or work on all of the word.                                   *)
(*                                                                         *)
(* A word is the set of the positions of its one bits.                     *)
(***************************************************************************)
EXTENDS Integers, FiniteSetsExt

Positions == 0..63

\* The low bits of a number, and the number they are.
Bits(n) == {i \in 0..30 : (n \div 2^i) % 2 = 1}

Value(bits) == MapThenSumSet(LAMBDA i : 2^i, bits)

\* x << by, and (word >> lo) & mask for a mask of `width` ones.
ShiftedLeft(x, by) == {i + by : i \in Bits(x)} \cap Positions

Field(word, lo, width) == Value({i - lo : i \in word \cap (lo..(lo + width - 1))})

\* Mutated form: itasks is shifted into the top bit of the tail.
SetStealvalOverlapping(valid, itasks, tail) ==
  ShiftedLeft(valid, 38) \cup ShiftedLeft(itasks, 18) \cup Bits(tail)

\* saws_set_stealval
SetStealval(valid, itasks, tail) ==
  ShiftedLeft(valid, 38) \cup ShiftedLeft(itasks, 19) \cup Bits(tail)

\* saws_get_stealval
GetStealval(word) ==
  [asteals |-> Field(word, 40, 24), valid |-> Field(word, 38, 2),
   itasks  |-> Field(word, 19, 19), tail  |-> Field(word, 0, 19)]

\* The thieves' fetch-and-add of 1 << 40: the carry runs up to the first zero, or out
\* of the word.
FetchAddSteal(word) ==
  LET zeros  == (40..63) \ word
      upTo   == IF zeros = {} THEN 64 ELSE Min(zeros)
  IN  (word \ (40..(upTo - 1))) \cup ({upTo} \cap Positions)

\* The owner's fetch-and-or of SAWS_MAX_EPOCHS << 38.
DisableSteals(word) == word \cup ShiftedLeft(2, 38)
=============================================================================
