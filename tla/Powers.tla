------------------------------- MODULE Powers -------------------------------
(***************************************************************************)
(* The pow(2.0, n) of the code, and how many parts a box has in n          *)
(* dimensions, as a recursive function.                                    *)
(***************************************************************************)
EXTENDS Naturals

Pow2[n \in Nat] == IF n = 0 THEN 1 ELSE 2 * Pow2[n - 1]
=============================================================================
