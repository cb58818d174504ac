------------------------------- MODULE Common -------------------------------
(* What the smaller components share: Python's None, and the order of numbers. *)
EXTENDS Totals

None == "none"

Least(a, b) == IF a < b THEN a ELSE b
Most(a, b)  == IF a > b THEN a ELSE b
=============================================================================
