------------------------------- MODULE Meter -------------------------------
(***************************************************************************)
(* What record_op_usage promises: a unit of work, named by its key, is     *)
(* counted at most once, and the total is what was counted.                *)
(***************************************************************************)
EXTENDS Naturals

CONSTANTS Keys, Sizes

VARIABLES
    counted,    \* keys counted so far
    total       \* ops on the meter

Init == counted = {} /\ total = 0

Count(k, n) ==
    /\ k \notin counted
    /\ counted' = counted \cup {k}
    /\ total' = total + n

Next == \E k \in Keys, n \in Sizes : Count(k, n)

Spec == Init /\ [][Next]_<<counted, total>>
=============================================================================
