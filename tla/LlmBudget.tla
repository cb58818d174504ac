----------------------------- MODULE LlmBudget -----------------------------
(***************************************************************************)
(* AI credits: reserve_llm_budget books the worst case of a call against   *)
(* the period's grant, the call is made, settle_llm_cost releases what was *)
(* not spent, in the period of the reservation.  The model call itself is  *)
(* not part of the repository: it costs anything up to what was reserved.  *)
(*                                                                         *)
(* Reserve and settle are one transaction each: the ledger row waits for a *)
(* racer on the same key and the conditional UPDATE re-reads the row it    *)
(* has waited for, so each takes effect as a whole where it commits.       *)
(***************************************************************************)
EXTENDS UsageLedger

CONSTANTS
    Asks,         \* LLM calls
    AskKeyOf,     \* usage key of each
    ReserveOf,    \* worst-case cost of each
    RequestCap,   \* cap_cents, or None
    Unlimited     \* the asks of an admin project

AskKeys == {AskKeyOf[a] : a \in Asks}

ASSUME BudgetAssumption ==
    /\ IsFiniteSet(Asks) /\ DOMAIN AskKeyOf = Asks /\ None \notin AskKeys
    /\ ReserveOf \in [Asks -> Nat]
    /\ RequestCap \in Nat \cup {None}
    /\ Unlimited \subseteq Asks

VARIABLES
    ask,        \* each LLM call: its step and its locals
    reserved,   \* v2:llm:reserve:{key} rows
    settled     \* v2:llm:settle:{key} rows, as the amount released

budgetVars == <<ask, reserved, settled>>

NoHold == [month |-> None, cents |-> 0]
IdleAsk == [pc |-> "idle", month |-> None, cost |-> 0]

AskTo(a, step) == ask' = [ask EXCEPT ![a].pc = step]
MutOverdraws(a, row) == row.llm > row.granted     \* checks before it adds
Overdraws(a, row) == row.llm + ReserveOf[a] > row.granted
AddCost(m, n) == period' = [period EXCEPT ![m].llm = @ + n]
Release(m, n) == period' = [period EXCEPT ![m].llm = @ - n]

\* the per-request ceiling, then the current period
FindBudget(a) ==
    /\ ask[a].pc = "idle"
    /\ ask' = [ask EXCEPT ![a].pc = IF (RequestCap # None /\ ReserveOf[a] > RequestCap)
                                       \/ ~period[clock].there
                                    THEN "refused" ELSE "found",
                          ![a].month = clock]
    /\ UNCHANGED <<periodVars, reserved, settled>>

Reserve(a) ==
    /\ ask[a].pc = "found"
    /\ ~RowHeld(ask[a].month)
    /\ reserved[AskKeyOf[a]] = NoHold
    /\ a \in Unlimited \/ ~Overdraws(a, period[ask[a].month])
    /\ reserved' = [reserved EXCEPT ![AskKeyOf[a]] =
                       [month |-> ask[a].month, cents |-> ReserveOf[a]]]
    /\ AddCost(ask[a].month, ReserveOf[a])
    /\ AskTo(a, "held")
    /\ UNCHANGED <<clock, sub, fresh, settled>>

\* a duplicate key and exhausted credits both roll back and fail closed
RefuseReserve(a) ==
    /\ ask[a].pc = "found"
    /\ \/ reserved[AskKeyOf[a]] # NoHold
       \/ /\ ~RowHeld(ask[a].month)
          /\ a \notin Unlimited /\ Overdraws(a, period[ask[a].month])
    /\ AskTo(a, "refused")
    /\ UNCHANGED <<periodVars, reserved, settled>>

\* the provider answers, or the process dies with the hold booked
Answer(a) ==
    /\ ask[a].pc = "held"
    /\ \E cost \in 0..ReserveOf[a] :
          ask' = [ask EXCEPT ![a].pc = "answered", ![a].cost = cost]
    /\ UNCHANGED <<periodVars, reserved, settled>>

AbandonHold(a) ==
    /\ ask[a].pc \in {"held", "answered"}
    /\ AskTo(a, "abandoned")
    /\ UNCHANGED <<periodVars, reserved, settled>>

\* A settle whose key is there, or whose delta is zero, changes nothing; the caller
\* may not know that the first one committed and repeat it.
MutSettle(a) ==          \* no settle key: a repeated settle releases again
    /\ ask[a].pc \in {"answered", "settled"}
    /\ ReserveOf[a] - ask[a].cost <= period[ask[a].month].llm
    /\ Release(ask[a].month, ReserveOf[a] - ask[a].cost)
    /\ settled' = settled
    /\ AskTo(a, "settled")
    /\ UNCHANGED <<clock, sub, fresh, reserved>>
Settle(a) ==
    /\ ask[a].pc \in {"answered", "settled"}
    /\ ~RowHeld(ask[a].month)
    /\ LET unspent == ReserveOf[a] - ask[a].cost
       IN  IF unspent = 0 \/ settled[AskKeyOf[a]] # NoHold
           THEN UNCHANGED <<period, settled>>
           ELSE /\ settled' = [settled EXCEPT ![AskKeyOf[a]] =
                                  [month |-> ask[a].month, cents |-> unspent]]
                /\ Release(ask[a].month, unspent)
    /\ AskTo(a, "settled")
    /\ UNCHANGED <<clock, sub, fresh, reserved>>

AskStep(a) ==
    \/ FindBudget(a) \/ Reserve(a) \/ RefuseReserve(a) \/ Answer(a) \/ AbandonHold(a)
    \/ Settle(a)

BudgetNext == \E a \in Asks : AskStep(a)

InitBudget ==
    /\ ask = [a \in Asks |-> IdleAsk]
    /\ reserved = [k \in AskKeys |-> NoHold]
    /\ settled = [k \in AskKeys |-> NoHold]
=============================================================================
