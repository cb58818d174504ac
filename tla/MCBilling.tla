----------------------------- MODULE MCBilling -----------------------------
(***************************************************************************)
(* Small instances of Billing for TLC: a small, a large and an unlimited  *)
(* plan, two deliveries of one operation and a bigger one, two deliveries  *)
(* of one LLM call and a bigger one.                                       *)
(***************************************************************************)
EXTENDS Billing, TLC

CONSTANTS c1, c2, c3, a1, a2, a3, k1, k2, basic, pro, enterprise

MCPlanOps     == (basic :> 1) @@ (pro :> 3) @@ (enterprise :> 0)
MCPlanCredits == (basic :> 2) @@ (pro :> 3) @@ (enterprise :> 0)
MCKeyOf       == [c \in Calls |-> IF c = c3 THEN k2 ELSE k1]
MCUnitsOf     == [c \in Calls |-> IF c = c3 THEN 2 ELSE 1]
MCAskKeyOf    == [a \in Asks |-> IF a = a3 THEN k2 ELSE k1]
MCReserveOf   == [a \in Asks |-> IF a = a3 THEN 2 ELSE 1]

OnePlan   == [p \in Plans |-> MCPlanOps[p]]
OneCredit == [p \in Plans |-> MCPlanCredits[p]]
=============================================================================
