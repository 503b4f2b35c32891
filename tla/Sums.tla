-------------------------------- MODULE Sums --------------------------------
(***************************************************************************)
(* The sum of a sequence of integers.  It is a recursive function, SumStep *)
(* being one level of it, so that the proofs can reason about it.          *)
(***************************************************************************)
EXTENDS Integers, Sequences

SumStep(g, n) ==
  [s \in Seq(Int) |-> IF n = 0 \/ n > Len(s) THEN 0 ELSE g[n - 1][s] + s[n]]

\* SumFcn[n][s]: the sum of the first n elements of s.
SumFcn[n \in Nat] == SumStep(SumFcn, n)

Sum(s) == SumFcn[Len(s)][s]
=============================================================================
