------------------------------ MODULE Arithmetic ------------------------------
(***************************************************************************)
(* 1 << n for numbers that fit, and sums, as functions by recursion, which *)
(* proofs can reason about.                                                *)
(***************************************************************************)
EXTENDS Integers

TwoTo[n \in Nat] == IF n = 0 THEN 1 ELSE 2 * TwoTo[n - 1]

\* The sum of the first n values of a.
Sum(a, n) == LET s[k \in Nat] == IF k = 0 THEN 0 ELSE s[k - 1] + a[k - 1] IN s[n]
=============================================================================
