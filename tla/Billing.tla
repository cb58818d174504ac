------------------------------ MODULE Billing ------------------------------
(***************************************************************************)
(* One project's billing: operations, LLM calls, rotators, the backend and *)
(* the calendar, over the rows of UsagePeriods.                            *)
(***************************************************************************)
EXTENDS BillingRotation, Totals

vars == <<periodVars, ledgerVars, budgetVars, rotationVars>>

Init == InitPeriods /\ InitLedger /\ InitBudget /\ InitRotation

\* Bound: a request, a rotation and the two statements of a reservation are under way
\* at one boundary at most; nothing takes a month.
Brisk ==
    /\ \A c \in Running : call[c].since = clock
    /\ \A a \in Asks : ask[a].pc = "found" => ask[a].month = clock
    /\ \A r \in Rotators : rot[r].pc # "idle" => rot[r].now = clock

Next ==
    \/ Brisk /\ Tick /\ UNCHANGED <<ledgerVars, budgetVars, rotationVars>>
    \/ LedgerNext /\ UNCHANGED <<budgetVars, rotationVars>>
    \/ BudgetNext /\ UNCHANGED <<ledgerVars, rotationVars>>
    \/ RotationNext /\ UNCHANGED <<ledgerVars, budgetVars>>

Spec == Init /\ [][Next]_vars

\* A started operation runs on, the poller ticks for ever.
FairSpec ==
    /\ Spec
    /\ \A c \in Calls : WF_vars(CallStep(c) /\ UNCHANGED <<budgetVars, rotationVars>>)
    /\ \A r \in Rotators : WF_vars(RotateStep(r) /\ UNCHANGED <<ledgerVars, budgetVars>>)

-----------------------------------------------------------------------------
(* Invariants *)

CallRows == [pc : {"idle", "gate", "gate_provision", "regate", "work", "record", "window"}
                    \cup InTx \cup Ended,
             since : Months, now : Months, month : Months \cup {None}, todo : SUBSET Months,
             plan : Plans \cup {None}, limit : Nat, over : Nat]
AskRows == [pc : {"idle", "found", "refused", "held", "answered", "settled", "abandoned"},
            month : Months \cup {None}, cost : Nat]
RotRows == [pc : RotSteps, now : Months, steps : Nat, marks : SUBSET Months,
            sub : Subscriptions \cup {None}]

PeriodTypes ==
    /\ clock \in Months
    /\ sub \in Subscriptions
    /\ period \in [Months -> PeriodRows]
    /\ fresh \in [Txs -> [Months -> PeriodRows]]
LedgerTypes ==
    /\ ledger \in [Keys -> [month : Months \cup {None}, units : Nat]]
    /\ call \in [Calls -> CallRows]
BudgetTypes ==
    /\ ask \in [Asks -> AskRows]
    /\ reserved \in [AskKeys -> [month : Months \cup {None}, cents : Nat]]
    /\ settled \in [AskKeys -> [month : Months \cup {None}, cents : Nat]]
RotationTypes ==
    /\ rot \in [Rotators -> RotRows]
    /\ marker \subseteq Months
    /\ paid \in [Months -> [times : Nat, ops : Nat]]
    /\ crashes \in Nat /\ edits \in Nat

\* TypeOK: every row and every local has the type its column or variable declares.
TypeOK == PeriodTypes /\ LedgerTypes /\ BudgetTypes /\ RotationTypes

\* what the rows of a month book, by key or call
OpsIn(m)      == [k \in Keys |-> IF ledger[k].month = m THEN ledger[k].units ELSE 0]
ReservedIn(m) == [k \in AskKeys |-> IF reserved[k].month = m THEN reserved[k].cents ELSE 0]
ReleasedIn(m) == [k \in AskKeys |-> IF settled[k].month = m THEN settled[k].cents ELSE 0]
CostIn(m)     == [a \in Asks |-> IF ask[a].month = m THEN ask[a].cost ELSE 0]

\* "A ledger row exists <=> the aggregate was bumped by that row's delta": at every
\* commit boundary a period's ops_used is the sum of its ledger rows, whatever races on
\* a key, whichever transaction provisioned the period, whoever rolls back.
LedgerIsAggregate ==
    \A m \in Months : period[m].ops = SumOf(OpsIn(m), Keys)

\* overage_ops is what ops_used exceeds the cap by, even when two operations bump the
\* row at the same time (while the cap and the bonus stay as they are).
OverageAgrees ==
    edits = 0 => \A m \in Months : period[m].overage = OverageOf(period[m].ops, period[m], sub)

\* Months between the first and the last period row all have one: the catch-up of the
\* rotation and the provisioning of the ledger leave no hole between them.
NoGap ==
    \A a, b \in Months : period[a].there /\ period[b].there =>
        \A m \in a..b : period[m].there

\* A month's overage is taken once, and once more for every rotation that died after
\* PayPal answered: two rotators never both charge it.
CapturedOnce == \A m \in Months : paid[m].times <= 1 + crashes

\* What was taken for a month is never more than the overage it accrued, per capture.
NotOvercharged ==
    edits = 0 => \A m \in Months : paid[m].ops <= paid[m].times * period[m].overage

\* The bill adds up under every interleaving of operations, rotators and rollbacks: a
\* period's counter is the sum of its ledger rows, its overage what that exceeds the cap
\* by, and what was taken for it no more than that, per capture.
BillAddsUp == LedgerIsAggregate /\ OverageAgrees /\ NotOvercharged

\* Concurrent reservations never exceed the credits of a period, even when the period is
\* rolled over between the check, the booking and the settlement.
WithinGrant == Unlimited = {} => \A m \in Months : period[m].llm <= period[m].granted

\* A period's llm_cost_cents is what its reserve rows book less what its settle rows
\* release.
LlmLedgerIsAggregate ==
    \A m \in Months :
        period[m].llm + SumOf(ReleasedIn(m), AskKeys) = SumOf(ReservedIn(m), AskKeys)

\* A period is never charged less than its calls cost, whatever is abandoned, repeated
\* or rolled over: a crash leaves it conservatively high.
NeverUndercounted ==
    \A m \in Months : SumOf(CostIn(m), Asks) <= period[m].llm

\* A period's credits are those its reserve and settle rows book, and they never fall
\* below what its calls cost.
CreditsAccounted == LlmLedgerIsAggregate /\ NeverUndercounted

-----------------------------------------------------------------------------
(* Action and liveness properties *)

\* A period row, once committed, is never wiped, replaced or set back: provisioning and
\* rotation of a boundary that was already opened do nothing.
RowsKept ==
    [][\A m \in Months : period[m].there =>
          /\ period'[m].there
          /\ period'[m].ops >= period[m].ops
          /\ period'[m].granted = period[m].granted
          /\ period'[m].plan = period[m].plan]_vars

\* An operation of a limited plan that passed the gate finds, when it is recorded, a
\* period to count it in, even if the boundary passed meanwhile, unless the
\* subscription is further behind than provisioning reaches: nothing runs for free.
NoFreeOps ==
    [][\A c \in Calls :
          (call[c].pc = "window" /\ call'[c].pc = "dropped" /\ call[c].limit > 0)
            => clock - sub.start > MaxCatchup]_vars

\* The ops counted over all periods implement the abstract meter: each key once.
MeterView == INSTANCE Meter WITH
    Keys <- Keys, Sizes <- {UnitsOf[c] : c \in Calls},
    counted <- {k \in Keys : Posted(k)},
    total <- SumOf([m \in Months |-> period[m].ops], Months)
ImplementsMeter == MeterView!Spec

\* An active subscription whose period has ended is rotated, however many rotations die
\* and however PayPal answers.
RotationCatchesUp == Overdue(sub, clock) ~> ~Overdue(sub, clock)

\* An operation whose request was admitted ends: no two transactions wait on each other.
CallsFinish == \A c \in Calls : (call[c].pc = "record") ~> (call[c].pc \in Ended)

-----------------------------------------------------------------------------
(* The inductive invariant behind the theorems *)

Busy(r) == rot[r].pc # "idle"

\* where a local is used it holds a month, an amount within its hold, a subscription
CallLocals ==
    \A c \in Calls :
        /\ call[c].pc \in {"ledger", "bump", "commit"} => call[c].month \in Months
        /\ call[c].pc \in {"provision", "gate_provision"} => call[c].plan \in Plans
AskLocals ==
    \A a \in Asks : /\ ask[a].pc \notin {"idle", "refused"} => ask[a].month \in Months
                    /\ ask[a].cost <= ReserveOf[a]
RotLocals ==
    \A r \in Rotators : /\ Busy(r) => rot[r].sub \in Subscriptions
                        /\ rot[r].pc \in {"capture", "advance"} =>
                               rot[r].sub.start < rot[r].now
Typed == TypeOK /\ CallLocals /\ AskLocals /\ RotLocals

\* a month is inserted by one transaction only, and never on top of a committed row
RowsExclusive ==
    \A t \in Txs, m \in Months : fresh[t][m].there =>
        ~period[m].there /\ \A u \in Txs \ {t} : ~fresh[u][m].there

GrantsCover ==
    Unlimited = {} => \A m \in Months :
        /\ period[m].llm <= period[m].granted
        /\ \A t \in Txs : fresh[t][m].llm <= fresh[t][m].granted

\* one rotator at a time, ahead of the committed subscription
OneRotator ==
    /\ \A r, q \in Rotators : Busy(r) /\ Busy(q) => r = q
    /\ \A r \in Rotators : Busy(r) =>
          sub.start <= rot[r].sub.start /\ rot[r].sub.start <= rot[r].now /\ rot[r].now <= clock

\* a month may have been captured by this rotation or a committed one
MayBeCharged(m) ==
    \/ m < sub.start
    \/ \E r \in Rotators : /\ Busy(r)
                           /\ \/ m < rot[r].sub.start
                              \/ m = rot[r].sub.start /\ rot[r].pc = "advance"
ChargesAccounted ==
    \A m \in Months : paid[m].times <= crashes + (IF MayBeCharged(m) THEN 1 ELSE 0)

\* no hole below the subscription's window, none between it and the last row
Contiguous ==
    \A m, k \in Months : period[m].there =>
        /\ (m <= k /\ k <= sub.start) => period[k].there
        /\ (sub.start < k /\ k <= m) => period[k].there

\* what each open transaction has inserted so far leaves no hole when it commits
RotatorFills(r) ==
    /\ Busy(r) => \A k \in Months :
          sub.start < k /\ k <= rot[r].sub.start => Seen(r)[k].there
    /\ \A m \in Months : fresh[r][m].there =>
          Busy(r) /\ sub.start < m /\ m <= rot[r].sub.start
CallFills(c) ==
    /\ \A m \in Months : fresh[c][m].there =>
          /\ call[c].pc \in InTx \cup {"gate_provision"} /\ m <= call[c].now
          /\ \A k \in Months : m < k /\ k <= sub.start => period[k].there
    /\ call[c].pc \in {"provision", "gate_provision"} =>
          /\ \A k \in Months : sub.start < k /\ k <= call[c].now /\ k \notin call[c].todo
                => Seen(c)[k].there
          /\ \A m \in call[c].todo : m <= call[c].now /\
                \A k \in Months : m < k /\ k <= sub.start => period[k].there
    /\ call[c].pc \in {"ledger", "bump", "commit"} =>
          \A k \in Months : sub.start < k /\ k <= call[c].now => Seen(c)[k].there
NoHoles ==
    /\ Contiguous
    /\ \A r \in Rotators : RotatorFills(r)
    /\ \A c \in Calls : CallFills(c)

\* an admitted operation has a period in its month, or the boundary has passed since
Admitted ==
    /\ \A c \in Running : call[c].since = clock \/ call[c].since + 1 = clock
    /\ sub.start <= clock \/ sub.start = 1
    /\ \A c \in Calls : call[c].limit > 0 =>
          /\ call[c].pc \in {"work", "record"} /\ call[c].since = clock => period[clock].there
          /\ call[c].pc = "window" => call[c].now = clock /\ call[c].since + 1 = clock

\* a row that is not there yet, or not committed, has nothing on its counters
Blank(row) == row.ops = 0 /\ row.overage = 0 /\ row.bonus = 0 /\ row.llm = 0
RowsBlank ==
    /\ \A m \in Months : ~period[m].there => Blank(period[m])
    /\ \A t \in Txs, m \in Months : Blank(fresh[t][m])

\* the row that a transaction is about to update exists in its view
PeriodsFound ==
    /\ \A c \in Calls :
          /\ call[c].pc \in {"provision", "gate_provision"} =>
                call[c].now \in call[c].todo \/ Seen(c)[call[c].now].there
          /\ call[c].pc \in {"ledger", "bump", "commit"} => Seen(c)[call[c].month].there
    /\ \A a \in Asks : ask[a].pc \notin {"idle", "refused"} => period[ask[a].month].there

\* one open transaction holds a key of the ledger, one has updated a period's row
Inserting(c) == call[c].pc \in {"bump", "commit"}
LocksHeld ==
    \A c \in Calls :
        /\ Inserting(c) => ~Posted(KeyOf[c])
        /\ \A o \in Calls \ {c} :
              /\ Inserting(c) /\ Inserting(o) => KeyOf[c] # KeyOf[o]
              /\ call[c].pc = "commit" /\ call[o].pc = "commit" => call[c].month # call[o].month

\* while the backend writes nothing the cap stays, and what a commit will write is right
CapKept ==
    edits = 0 => /\ sub.pending = None
                 /\ \A r \in Rotators : Busy(r) =>
                       rot[r].sub.pending = None /\ ResolvedOps(rot[r].sub) = ResolvedOps(sub)
CommitsAgree ==
    edits = 0 => \A c \in Calls : call[c].pc = "commit" =>
        LET row == period[call[c].month]
        IN  call[c].over = OverageOf(row.ops + UnitsOf[c], row, sub)

\* who booked a reservation, and what of it its period still owes
Booked == {"held", "answered", "settled", "abandoned"}
HoldStands(a) ==
    LET k == AskKeyOf[a]
    IN  /\ ask[a].pc \notin Booked \/ ask[a].pc = "held" => ask[a].cost = 0
        /\ ask[a].pc \in Booked =>
              /\ reserved[k] = [month |-> ask[a].month, cents |-> ReserveOf[a]]
              /\ \A b \in Asks \ {a} : ask[b].pc \in Booked => AskKeyOf[b] # k
        /\ ask[a].pc \in {"held", "answered"} => settled[k] = NoHold
        /\ ask[a].pc = "settled" => settled[k] # NoHold \/ ask[a].cost = ReserveOf[a]
Owed(a) == IF ask[a].pc = "settled" THEN ask[a].cost
           ELSE IF ask[a].pc \in Booked THEN ReserveOf[a] ELSE 0
OwedIn(m) == [a \in Asks |-> IF ask[a].month = m THEN Owed(a) ELSE 0]
CreditsStand ==
    /\ \A k \in AskKeys : reserved[k] = NoHold => settled[k] = NoHold
    /\ \A a \in Asks : HoldStands(a)
    /\ \A m \in Months : period[m].llm = SumOf(OwedIn(m), Asks)

\* MoneyInv: what holds between any two statements of the counters and their rows.
MoneyInv ==
    /\ RowsBlank /\ PeriodsFound /\ LocksHeld /\ CapKept /\ CommitsAgree /\ BillAddsUp
    /\ CreditsStand /\ LlmLedgerIsAggregate

\* BillingInv: what holds between any two statements of any transactions: rows inserted
\* once, one rotation, at most one charge a month, no hole that a commit could leave.
BillingInv ==
    /\ Typed /\ RowsExclusive /\ GrantsCover
    /\ OneRotator /\ ChargesAccounted
    /\ NoHoles /\ Admitted

=============================================================================
