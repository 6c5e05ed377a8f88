-------------------------------- MODULE Sums --------------------------------
(***************************************************************************)
(* Sums of the first n values of a function.                               *)
(***************************************************************************)
EXTENDS Naturals

\* The first n numbers.
Below(n) == 0..(n-1)

SumTo(n, f) ==
  LET sum[k \in 0..n] == IF k = 0 THEN 0 ELSE sum[k-1] + f[k-1] IN sum[n]
=============================================================================
