------------------------------- MODULE Totals -------------------------------
(* The sum of a function over a finite set of its arguments. *)
EXTENDS Integers, FiniteSetsExt

SumOf(f, S) == MapThenSumSet(LAMBDA x : f[x], S)
=============================================================================
