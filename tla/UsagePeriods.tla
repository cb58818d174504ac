---------------------------- MODULE UsagePeriods ----------------------------
(***************************************************************************)
(* The rows every billing component shares, for one project: its           *)
(* subscription and its usage periods, one per month.  A period starts     *)
(* where the previous one ends, so a month number names it: month m is     *)
(* ch_usage_periods' row whose period_start is the m-th boundary.          *)
(*                                                                         *)
(* Postgres runs at READ COMMITTED.  A row inserted by a transaction that  *)
(* has not committed is in `fresh': only its transaction sees it, and a    *)
(* second INSERT of the same (project_id, period_start) waits for it.      *)
(***************************************************************************)
EXTENDS Integers, FiniteSets

CONSTANTS
    Calls,           \* billable operations under way (record_op_usage)
    Rotators,        \* threads that may run _rotate_sync
    Plans,           \* rows of ch_plans
    PlanOps,         \* ops_month, 0 = unlimited
    PlanCredits,     \* ai_credits_cents_month
    OverrideOps,     \* override_ops_month, or None
    OverrideCredits, \* override_ai_credits_cents_month, or None
    MaxMonth,        \* bound: months the clock runs through
    MaxCatchup,      \* _MAX_CATCHUP_MONTHS
    None

Months == 0..MaxMonth
Txs    == Calls \cup Rotators     \* transactions that insert periods

ASSUME PeriodsAssumption ==
    /\ IsFiniteSet(Calls) /\ IsFiniteSet(Rotators) /\ Calls \cap Rotators = {}
    /\ None \notin Plans /\ None \notin Nat
    /\ PlanOps \in [Plans -> Nat] /\ PlanCredits \in [Plans -> Nat]
    /\ OverrideOps \in Nat \cup {None} /\ OverrideCredits \in Nat \cup {None}
    /\ MaxMonth \in Nat /\ MaxCatchup \in Nat \ {0}

VARIABLES
    clock,    \* the month that the wall clock is in
    sub,      \* the ch_subscriptions row
    period,   \* the committed ch_usage_periods rows
    fresh     \* rows inserted by each open transaction

periodVars == <<clock, sub, period, fresh>>

NoPeriod == [there |-> FALSE, plan |-> None, ops |-> 0, overage |-> 0, bonus |-> 0,
             granted |-> 0, llm |-> 0]
NoRows == [m \in Months |-> NoPeriod]

Subscriptions == [start : Months, plan : Plans, pending : Plans \cup {None},
                  eff : Nat, active : BOOLEAN]
PeriodRows == [there : BOOLEAN, plan : Plans \cup {None}, ops : Nat, overage : Nat,
               bonus : Nat, granted : Nat, llm : Int]

-----------------------------------------------------------------------------
(* Limits and grants *)

\* effective_ops_month as get_subscription and the overage SQL resolve it
ResolvedOps(s) ==
    IF OverrideOps # None THEN OverrideOps
    ELSE IF s.eff # 0 THEN s.eff ELSE PlanOps[s.plan]

Excess(total, cap) == IF total > cap THEN total - cap ELSE 0

\* overage_ops after a bump to `total': 0 when the cap resolves to unlimited
OverageOf(total, row, s) ==
    IF ResolvedOps(s) = 0 THEN 0 ELSE Excess(total, ResolvedOps(s) + row.bonus)

Credits(plan) == IF OverrideCredits # None THEN OverrideCredits ELSE PlanCredits[plan]

\* the latest earlier closed period, or the empty row
Earlier(rows, m) == {e \in Months : e < m /\ rows[e].there}
LastBefore(rows, m) ==
    LET last == {e \in Earlier(rows, m) : \A o \in Earlier(rows, m) : o <= e}
    IN  IF last = {} THEN NoPeriod ELSE rows[CHOOSE e \in last : TRUE]

OpenRow(rows, m, plan) ==
    [there |-> TRUE, plan |-> plan, ops |-> 0, overage |-> 0, bonus |-> 0, llm |-> 0,
     granted |-> Credits(plan) + Excess(LastBefore(rows, m).granted, LastBefore(rows, m).llm)]

-----------------------------------------------------------------------------
(* _INSERT_PERIOD_IF_ABSENT and the transactions that run it *)

Seen(t) == [m \in Months |-> IF fresh[t][m].there THEN fresh[t][m] ELSE period[m]]

\* waits for another transaction's uncommitted row, then does nothing if there is one
InsertPeriod(t, m, plan) ==
    /\ \A o \in Txs \ {t} : ~fresh[o][m].there
    /\ fresh' = IF Seen(t)[m].there THEN fresh
                ELSE [fresh EXCEPT ![t][m] = OpenRow(Seen(t), m, plan)]

Forget(t) == fresh' = [fresh EXCEPT ![t] = NoRows]

\* _provision_windows: the months to provision so that the one of `now' exists
MutWindows(s, now) ==            \* provisions the current month only
    IF s.start > now THEN {} ELSE {now}
Windows(s, now) ==
    IF s.start > now THEN {}
    ELSE IF s.start = now THEN {now}
    ELSE IF now - s.start > MaxCatchup THEN {}
    ELSE (s.start + 1)..now

\* The billing boundary passes.
Tick == clock < MaxMonth /\ clock' = clock + 1 /\ UNCHANGED <<sub, period, fresh>>

\* A subscription whose window is anywhere up to the next boundary, with or without
\* its period row, created before or after migration 029 (effective_ops_month 0).
InitPeriods ==
    /\ clock = 0
    /\ sub \in {s \in [start : Months \cap {0, 1}, plan : Plans, pending : {None},
                       eff : {0} \cup {PlanOps[p] : p \in Plans}, active : {TRUE}] :
                   s.eff \in {0, PlanOps[s.plan]}}
    /\ period \in {NoRows,
                   [NoRows EXCEPT ![sub.start] = OpenRow(NoRows, sub.start, sub.plan)]}
    /\ fresh = [t \in Txs |-> NoRows]
=============================================================================
