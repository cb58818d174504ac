---------------------------- MODULE UsageLedger ----------------------------
(***************************************************************************)
(* The unified ops counter: the quota gate of a request, its work, and     *)
(* record_op_usage, whose transaction is modelled statement by statement   *)
(* because its correctness is the order of its statements.  Two calls with *)
(* the same key are two deliveries of one unit of work.                    *)
(***************************************************************************)
EXTENDS UsagePeriods

CONSTANTS
    KeyOf,       \* idempotency key of each call
    UnitsOf,     \* ops that each call consumes
    OverageOn    \* overage_enabled on the subscription, overage_allowed on its plan

Keys == {KeyOf[c] : c \in Calls}

ASSUME LedgerAssumption ==
    /\ DOMAIN KeyOf = Calls /\ None \notin Keys
    /\ UnitsOf \in [Calls -> Nat \ {0}]
    /\ OverageOn \in BOOLEAN

VARIABLES
    ledger,    \* ch_usage_ledger rows, counter ops_used
    call       \* each operation: its step and its locals

ledgerVars == <<ledger, call>>

NoEntry == [month |-> None, units |-> 0]
IdleCall == [pc |-> "idle", since |-> 0, now |-> 0, month |-> None, todo |-> {}, plan |-> None,
             limit |-> 0, over |-> 0]

Goto(c, step) == call' = [call EXCEPT ![c].pc = step]
\* the locals go with the function; that the request was limited is remembered
End(c, step)  == call' = [call EXCEPT ![c] = [IdleCall EXCEPT !.pc = step,
                                                             !.limit = call[c].limit]]

Ended   == {"denied", "dropped", "duplicate", "counted", "aborted"}
InTx    == {"provision", "ledger", "bump", "commit"}
Running == {c \in Calls : call[c].pc \notin {"idle"} \cup Ended}
Posted(k) == ledger[k] # NoEntry

\* ON CONFLICT waits while another transaction has inserted the key, UPDATE while
\* another has updated the row
MutKeyHeldForever(c) ==      \* the session of a failed call is not closed
    \E o \in Calls \ {c} : KeyOf[o] = KeyOf[c] /\ call[o].pc \in {"bump", "commit", "aborted"}
KeyHeld(c) == \E o \in Calls \ {c} : KeyOf[o] = KeyOf[c] /\ call[o].pc \in {"bump", "commit"}
MutRowHeld(m) == FALSE
RowHeld(m) == \E o \in Calls : call[o].pc = "commit" /\ call[o].month = m

-----------------------------------------------------------------------------
(* The request: subscription, check_ops_quota, work *)

\* _attach_subscription: the limit in force when the request is authenticated
Authenticate(c) ==
    /\ call[c].pc = "idle"
    /\ call' = [call EXCEPT ![c].pc = "gate", ![c].since = clock, ![c].limit = ResolvedOps(sub)]
    /\ UNCHANGED <<periodVars, ledger>>

Admits(c, row) == row.ops + UnitsOf[c] <= call[c].limit + row.bonus \/ OverageOn

\* check_ops_quota on an existing period, before or after provisioning it
Gate(c) ==
    /\ call[c].pc \in {"gate", "regate"}
    /\ call[c].limit > 0
    /\ period[clock].there
    /\ IF Admits(c, period[clock]) THEN Goto(c, "work") ELSE End(c, "denied")
    /\ UNCHANGED <<periodVars, ledger>>

GateUnlimited(c) ==
    /\ call[c].pc = "gate"
    /\ call[c].limit = 0
    /\ Goto(c, "work")
    /\ UNCHANGED <<periodVars, ledger>>

MutGateMissing(c) ==     \* a missing period is a silent allow
    /\ call[c].pc = "gate"
    /\ call[c].limit > 0
    /\ ~period[clock].there
    /\ Goto(c, "work")
    /\ UNCHANGED <<periodVars, ledger>>
\* no period: provision one in a short transaction of its own, or refuse
GateMissing(c) ==
    /\ call[c].pc = "gate"
    /\ call[c].limit > 0
    /\ ~period[clock].there
    /\ IF Windows(sub, clock) = {} THEN End(c, "denied")
       ELSE call' = [call EXCEPT ![c].pc = "gate_provision", ![c].plan = sub.plan,
                                 ![c].now = clock, ![c].todo = Windows(sub, clock)]
    /\ UNCHANGED <<periodVars, ledger>>

\* still no period of the current month: it fails closed
Refuse(c) ==
    /\ call[c].pc = "regate"
    /\ ~period[clock].there
    /\ End(c, "denied")
    /\ UNCHANGED <<periodVars, ledger>>

Work(c) ==
    /\ call[c].pc = "work"
    /\ Goto(c, "record")
    /\ UNCHANGED <<periodVars, ledger>>

-----------------------------------------------------------------------------
(* record_op_usage *)

FindPeriod(c) ==
    /\ call[c].pc = "record"
    /\ call' = [call EXCEPT ![c].now = clock,
                            ![c].month = IF period[clock].there THEN clock ELSE None,
                            ![c].pc = IF period[clock].there THEN "ledger" ELSE "window"]
    /\ UNCHANGED <<periodVars, ledger>>

\* _FIND_SUBSCRIPTION_WINDOW and _provision_windows
FindWindow(c) ==
    /\ call[c].pc = "window"
    /\ IF Windows(sub, call[c].now) = {} THEN End(c, "dropped")
       ELSE call' = [call EXCEPT ![c].pc = "provision", ![c].plan = sub.plan,
                                 ![c].todo = Windows(sub, call[c].now)]
    /\ UNCHANGED <<periodVars, ledger>>

\* one _INSERT_PERIOD_IF_ABSENT, in ascending order
ProvisionOne(c, m) ==
    /\ call[c].pc \in {"provision", "gate_provision"}
    /\ m \in call[c].todo /\ \A o \in call[c].todo : m <= o
    /\ InsertPeriod(c, m, call[c].plan)
    /\ call' = [call EXCEPT ![c].todo = @ \ {m}]
    /\ UNCHANGED <<clock, sub, period, ledger>>

\* the SELECT after the inserts
Provisioned(c) ==
    /\ call[c].pc = "provision"
    /\ call[c].todo = {}
    /\ call' = [call EXCEPT ![c].month = call[c].now, ![c].pc = "ledger"]
    /\ UNCHANGED <<periodVars, ledger>>

\* the gate commits what it provisioned at once
GateProvisioned(c) ==
    /\ call[c].pc = "gate_provision"
    /\ call[c].todo = {}
    /\ period' = Seen(c)
    /\ Forget(c)
    /\ Goto(c, "regate")
    /\ UNCHANGED <<clock, sub, ledger>>

\* THE GATE, key already there: commit, count nothing
Duplicate(c) ==
    /\ call[c].pc = "ledger"
    /\ Posted(KeyOf[c])
    /\ period' = Seen(c)
    /\ Forget(c)
    /\ End(c, "duplicate")
    /\ UNCHANGED <<clock, sub, ledger>>

InsertLedgerRow(c) ==
    /\ call[c].pc = "ledger"
    /\ ~Posted(KeyOf[c]) /\ ~KeyHeld(c)
    /\ Goto(c, "bump")
    /\ UNCHANGED <<periodVars, ledger>>

\* the UPDATE: under the row lock from here to the commit, so its effect on the row
\* is what the commit publishes
Bump(c) ==
    /\ call[c].pc = "bump"
    /\ ~RowHeld(call[c].month)
    /\ LET row == Seen(c)[call[c].month]
       IN  call' = [call EXCEPT ![c].pc = "commit",
                                ![c].over = OverageOf(row.ops + UnitsOf[c], row, sub)]
    /\ UNCHANGED <<periodVars, ledger>>

MutCommit(c) ==      \* the aggregate without its ledger row
    /\ call[c].pc = "commit"
    /\ period' = [Seen(c) EXCEPT ![call[c].month].ops = @ + UnitsOf[c],
                                 ![call[c].month].overage = call[c].over]
    /\ Forget(c)
    /\ End(c, "counted")
    /\ UNCHANGED <<clock, sub, ledger>>
Commit(c) ==
    /\ call[c].pc = "commit"
    /\ ledger' = [ledger EXCEPT ![KeyOf[c]] = [month |-> call[c].month, units |-> UnitsOf[c]]]
    /\ period' = [Seen(c) EXCEPT ![call[c].month].ops = @ + UnitsOf[c],
                                 ![call[c].month].overage = call[c].over]
    /\ Forget(c)
    /\ End(c, "counted")
    /\ UNCHANGED <<clock, sub>>

\* An exception closes the session, which rolls everything back.
Abort(c) ==
    /\ call[c].pc \in InTx \cup {"gate_provision", "work"}
    /\ Forget(c)
    /\ End(c, "aborted")
    /\ UNCHANGED <<clock, sub, period, ledger>>

-----------------------------------------------------------------------------
CallStep(c) ==
    \/ Gate(c) \/ GateUnlimited(c) \/ GateMissing(c) \/ Refuse(c) \/ Work(c)
    \/ FindPeriod(c) \/ FindWindow(c) \/ (\E m \in Months : ProvisionOne(c, m))
    \/ Provisioned(c) \/ GateProvisioned(c)
    \/ Duplicate(c) \/ InsertLedgerRow(c) \/ Bump(c) \/ Commit(c)

LedgerNext == \E c \in Calls : Authenticate(c) \/ CallStep(c) \/ Abort(c)

InitLedger ==
    /\ ledger = [k \in Keys |-> NoEntry]
    /\ call = [c \in Calls |-> IdleCall]
=============================================================================
