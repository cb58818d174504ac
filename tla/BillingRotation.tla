-------------------------- MODULE BillingRotation --------------------------
(***************************************************************************)
(* _rotate_sync: under the subscription's row lock, for every boundary     *)
(* passed, capture the ending month's overage from PayPal, apply a pending *)
(* plan and open the next period; one commit at the end.  The poller and   *)
(* /internal/rotate-usage-period may run it at the same time.  Beside it,  *)
(* the backend's writes to the same rows, which are not in the repository. *)
(***************************************************************************)
EXTENDS LlmBudget

CONSTANTS
    Metered,       \* plans with overage_allowed and a rate: what a capture needs of the plan
    MaxCrashes,    \* bound: rotations that die after PayPal answered
    MaxEdits       \* bound: writes by the backend

ASSUME RotationAssumption ==
    /\ Metered \subseteq Plans /\ MaxCrashes \in Nat /\ MaxEdits \in Nat

VARIABLES
    rot,       \* each rotator: its step and its uncommitted view of the subscription
    marker,    \* overage:{project}:{period_start} rows of ch_payment_history
    paid,      \* what PayPal took for each month: times, and ops
    crashes, edits

rotationVars == <<rot, marker, paid, crashes, edits>>

IdleRotator == [pc |-> "idle", now |-> 0, steps |-> 0, marks |-> {}, sub |-> None]
RotSteps == {"idle", "capture", "advance", "commit"}

\* FOR UPDATE SKIP LOCKED
MutSubLocked == FALSE
SubLocked == \E r \in Rotators : rot[r].pc # "idle"
Overdue(s, now) == s.active /\ s.start < now

StartRotation(r) ==
    /\ rot[r].pc = "idle"
    /\ ~SubLocked
    /\ Overdue(sub, clock)
    /\ rot' = [rot EXCEPT ![r] = [pc |-> "capture", now |-> clock, steps |-> 0,
                                  marks |-> {}, sub |-> sub]]
    /\ UNCHANGED <<periodVars, marker, paid, crashes, edits>>

\* _capture_overage: what it takes to charge the ending month
Chargeable(r) ==
    LET row == Seen(r)[rot[r].sub.start]
    IN  /\ row.there /\ row.overage > 0
        /\ OverageOn /\ rot[r].sub.plan \in Metered
        /\ rot[r].sub.start \notin marker

\* PayPal takes the money and the row is added, the answer is lost, or it declines
MutCharge(r, m) ==       \* charges every op of the month
    paid' = [paid EXCEPT ![m] = [times |-> @.times + 1, ops |-> @.ops + Seen(r)[m].ops]]
Charge(r, m) == paid' = [paid EXCEPT ![m] = [times |-> @.times + 1,
                                             ops |-> @.ops + Seen(r)[m].overage]]
Capture(r) ==
    LET m == rot[r].sub.start
    IN  /\ rot[r].pc = "capture"
        /\ Chargeable(r)
        /\ \/ Charge(r, m) /\ rot' = [rot EXCEPT ![r].pc = "advance", ![r].marks = @ \cup {m}]
           \/ Charge(r, m) /\ rot' = [rot EXCEPT ![r].pc = "advance"]
           \/ rot' = [rot EXCEPT ![r].pc = "advance"] /\ UNCHANGED paid
        /\ UNCHANGED <<periodVars, marker, crashes, edits>>

CaptureNothing(r) ==
    /\ rot[r].pc = "capture"
    /\ ~Chargeable(r)
    /\ rot' = [rot EXCEPT ![r].pc = "advance"]
    /\ UNCHANGED <<periodVars, marker, paid, crashes, edits>>

MutNextSub(s) == [s EXCEPT !.pending = None]     \* the boundary is not moved
NextSub(s) ==
    IF s.pending = None THEN [s EXCEPT !.start = @ + 1]
    ELSE [s EXCEPT !.start = @ + 1, !.plan = s.pending, !.pending = None,
                   !.eff = IF OverrideOps # None THEN OverrideOps ELSE PlanOps[s.pending]]

\* open the next period, with the plan that applies from this boundary
Advance(r) ==
    LET next == NextSub(rot[r].sub)
        steps == rot[r].steps + 1
    IN  /\ rot[r].pc = "advance"
        /\ InsertPeriod(r, next.start, next.plan)
        /\ rot' = [rot EXCEPT ![r].sub = next, ![r].steps = steps,
                              ![r].pc = IF next.start < rot[r].now /\ steps < MaxCatchup
                                        THEN "capture" ELSE "commit"]
        /\ UNCHANGED <<clock, sub, period, marker, paid, crashes, edits>>

CommitRotation(r) ==
    /\ rot[r].pc = "commit"
    /\ period' = Seen(r)
    /\ Forget(r)
    /\ sub' = rot[r].sub
    /\ marker' = marker \cup rot[r].marks
    /\ rot' = [rot EXCEPT ![r] = IdleRotator]
    /\ UNCHANGED <<clock, paid, crashes, edits>>

\* The process dies: the transaction is rolled back, PayPal keeps what it took.
CrashRotation(r) ==
    /\ rot[r].pc # "idle"
    /\ crashes < MaxCrashes
    /\ crashes' = crashes + 1
    /\ Forget(r)
    /\ rot' = [rot EXCEPT ![r] = IdleRotator]
    /\ UNCHANGED <<clock, sub, period, marker, paid, edits>>

RotateStep(r) ==
    StartRotation(r) \/ Capture(r) \/ CaptureNothing(r) \/ Advance(r) \/ CommitRotation(r)

-----------------------------------------------------------------------------
(* The backend, which writes the same rows *)

Edit == edits < MaxEdits /\ edits' = edits + 1

SchedulePlan ==
    /\ Edit /\ ~SubLocked
    /\ \E p \in Plans \ {sub.plan} : sub' = [sub EXCEPT !.pending = p]
    /\ UNCHANGED <<clock, period, fresh, rot, marker, paid, crashes>>

\* a payment fails (past_due) or succeeds again
ChangeStatus ==
    /\ Edit /\ ~SubLocked
    /\ sub' = [sub EXCEPT !.active = ~@]
    /\ UNCHANGED <<clock, period, fresh, rot, marker, paid, crashes>>

\* the social-follow bonus of the current period
GrantBonus ==
    /\ Edit /\ period[clock].there /\ ~RowHeld(clock)
    /\ period' = [period EXCEPT ![clock].bonus = @ + 1]
    /\ UNCHANGED <<clock, sub, fresh, rot, marker, paid, crashes>>

RotationNext ==
    \/ \E r \in Rotators : RotateStep(r) \/ CrashRotation(r)
    \/ SchedulePlan \/ ChangeStatus \/ GrantBonus

InitRotation ==
    /\ rot = [r \in Rotators |-> IdleRotator]
    /\ marker = {}
    /\ paid = [m \in Months |-> [times |-> 0, ops |-> 0]]
    /\ crashes = 0 /\ edits = 0
=============================================================================
