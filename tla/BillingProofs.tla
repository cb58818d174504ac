--------------------------- MODULE BillingProofs ---------------------------
(***************************************************************************)
(* Theorems about Billing, for any operations, rotators, plans, months and *)
(* bounds.  BillingInv is proved one conjunct at a time: types and locals  *)
(* first, then each of the others given those before it.  The second half  *)
(* goes on to what is a sum over a set of rows: the bill adds up.          *)
(***************************************************************************)
EXTENDS Billing, Sums, TLAPS

USE PeriodsAssumption, LedgerAssumption, BudgetAssumption, RotationAssumption

-----------------------------------------------------------------------------
(* The rows: what the operators on them return *)

LEMMA NoPeriodType == NoPeriod \in PeriodRows /\ ~NoPeriod.there /\ NoPeriod.llm = 0
                        /\ NoPeriod.granted = 0
  BY DEF NoPeriod, PeriodRows

LEMMA NoRowsType == NoRows \in [Months -> PeriodRows] /\ \A m \in Months : NoRows[m] = NoPeriod
  BY NoPeriodType DEF NoRows

LEMMA ExcessType == ASSUME NEW a \in Int, NEW b \in Int PROVE Excess(a, b) \in Nat
  BY DEF Excess

LEMMA CreditsType == ASSUME NEW p \in Plans PROVE Credits(p) \in Nat
  BY DEF Credits

LEMMA ResolvedType == ASSUME NEW s \in Subscriptions PROVE ResolvedOps(s) \in Nat
  BY DEF ResolvedOps, Subscriptions

LEMMA RowFields ==
  ASSUME NEW row \in PeriodRows
  PROVE  /\ row.there \in BOOLEAN /\ row.plan \in Plans \cup {None} /\ row.ops \in Nat
         /\ row.overage \in Nat /\ row.bonus \in Nat /\ row.granted \in Nat /\ row.llm \in Int
  BY DEF PeriodRows

LEMMA OverageType ==
  ASSUME NEW n \in Nat, NEW row \in PeriodRows, NEW s \in Subscriptions
  PROVE  OverageOf(n, row, s) \in Nat
  <1>1. ResolvedOps(s) \in Nat /\ row.bonus \in Nat
    BY ResolvedType, RowFields
  <1>2. n \in Int /\ ResolvedOps(s) + row.bonus \in Int
    BY <1>1
  <1>3. Excess(n, ResolvedOps(s) + row.bonus) \in Nat
    BY ONLY <1>2, ExcessType
  <1> QED BY <1>3 DEF OverageOf

LEMMA LastBeforeType ==
  ASSUME NEW rows \in [Months -> PeriodRows], NEW m \in Months
  PROVE  LastBefore(rows, m) \in PeriodRows
  <1> DEFINE last == {e \in Earlier(rows, m) : \A o \in Earlier(rows, m) : o <= e}
  <1>1. last \subseteq Months
    BY DEF Earlier
  <1>2. CASE last = {}
    BY <1>2, NoPeriodType DEF LastBefore
  <1>3. CASE last # {}
    <2>1. (CHOOSE e \in last : TRUE) \in last
      BY <1>3
    <2> QED BY <1>1, <1>3, <2>1 DEF LastBefore
  <1> QED BY <1>2, <1>3

\* A row opened by _INSERT_PERIOD_IF_ABSENT has nothing on its counters and a grant.
LEMMA OpenRowType ==
  ASSUME NEW rows \in [Months -> PeriodRows], NEW m \in Months, NEW p \in Plans
  PROVE  /\ OpenRow(rows, m, p) \in PeriodRows
         /\ OpenRow(rows, m, p).there
         /\ OpenRow(rows, m, p).llm <= OpenRow(rows, m, p).granted
  <1> DEFINE g == Credits(p) + Excess(LastBefore(rows, m).granted, LastBefore(rows, m).llm)
  <1>1. LastBefore(rows, m).granted \in Int /\ LastBefore(rows, m).llm \in Int
    BY LastBeforeType, RowFields
  <1>2. Excess(LastBefore(rows, m).granted, LastBefore(rows, m).llm) \in Nat
    BY ONLY <1>1, ExcessType
  <1>3. g \in Nat
    BY <1>2, CreditsType
  <1> HIDE DEF g
  <1>4. OpenRow(rows, m, p) = [there |-> TRUE, plan |-> p, ops |-> 0, overage |-> 0,
                               bonus |-> 0, llm |-> 0, granted |-> g]
    BY DEF OpenRow, g
  <1> QED BY <1>3, <1>4 DEF PeriodRows

LEMMA SeenType ==
  ASSUME NEW t \in Txs, fresh \in [Txs -> [Months -> PeriodRows]],
         period \in [Months -> PeriodRows]
  PROVE  Seen(t) \in [Months -> PeriodRows]
  BY DEF Seen

-----------------------------------------------------------------------------

\* What one _INSERT_PERIOD_IF_ABSENT does: at most one row of one transaction changes,
\* from absent to present, and afterwards the transaction sees the month.
LEMMA InsertEffect ==
  ASSUME PeriodTypes, NEW t \in Txs, NEW m \in Months, NEW p \in Plans,
         InsertPeriod(t, m, p)
  PROVE  /\ fresh' \in [Txs -> [Months -> PeriodRows]]
         /\ \A u \in Txs, k \in Months : u # t \/ k # m => fresh'[u][k] = fresh[u][k]
         /\ fresh'[t][m].there \/ period[m].there
         /\ \A o \in Txs \ {t} : ~fresh[o][m].there
         /\ \/ fresh' = fresh
            \/ /\ ~period[m].there /\ ~fresh[t][m].there
               /\ fresh'[t][m].there /\ fresh'[t][m].llm <= fresh'[t][m].granted
  <1> USE DEF PeriodTypes
  <1> DEFINE row == OpenRow(Seen(t), m, p)
  <1>1. row \in PeriodRows /\ row.there /\ row.llm <= row.granted
    BY SeenType, OpenRowType
  <1> HIDE DEF row
  <1>2. Seen(t)[m] = IF fresh[t][m].there THEN fresh[t][m] ELSE period[m]
    BY DEF Seen
  <1>3. CASE Seen(t)[m].there
    BY <1>2, <1>3 DEF InsertPeriod
  <1>4. CASE ~Seen(t)[m].there
    <2>1. fresh' = [fresh EXCEPT ![t][m] = row] /\ \A o \in Txs \ {t} : ~fresh[o][m].there
      BY <1>4 DEF InsertPeriod, row
    <2>2. ~fresh[t][m].there /\ ~period[m].there
      BY <1>2, <1>4
    <2> QED BY <1>1, <2>1, <2>2
  <1> QED BY <1>3, <1>4

LEMMA ForgetEffect ==
  ASSUME PeriodTypes, NEW t \in Txs, Forget(t)
  PROVE  /\ fresh' \in [Txs -> [Months -> PeriodRows]]
         /\ \A u \in Txs \ {t} : fresh'[u] = fresh[u]
         /\ \A m \in Months : fresh'[t][m] = NoPeriod
  BY NoRowsType DEF PeriodTypes, Forget

-----------------------------------------------------------------------------
(* Types: the steps of an operation *)

LEMMA WindowsType ==
  ASSUME NEW s \in Subscriptions, NEW n \in Months
  PROVE  /\ Windows(s, n) \subseteq Months
         /\ \A m \in Windows(s, n) : m <= n /\ s.start <= m
         /\ Windows(s, n) # {} => \A k \in Months : s.start < k /\ k <= n => k \in Windows(s, n)
         /\ Windows(s, n) = {} => s.start > n \/ n - s.start > MaxCatchup
  BY DEF Windows, Subscriptions, Months

LEMMA IdleCallType == IdleCall \in CallRows /\ IdleCall.pc = "idle"
  BY DEF IdleCall, CallRows, Months

LEMMA EndEffect ==
  ASSUME LedgerTypes, NEW c \in Calls, NEW s \in Ended, End(c, s)
  PROVE  /\ call' \in [Calls -> CallRows]
         /\ \A o \in Calls \ {c} : call'[o] = call[o]
         /\ call'[c].pc = s /\ call'[c].limit = call[c].limit
  <1>1. ASSUME NEW n \in Nat, NEW row \in CallRows
        PROVE  /\ [row EXCEPT !.pc = s, !.limit = n] \in CallRows
               /\ [row EXCEPT !.pc = s, !.limit = n].pc = s
               /\ [row EXCEPT !.pc = s, !.limit = n].limit = n
    BY DEF CallRows
  <1>2. call[c].limit \in Nat
    BY DEF LedgerTypes, CallRows
  <1> QED BY <1>1, <1>2, IdleCallType DEF End, LedgerTypes

LEMMA CallRowType ==
  ASSUME LedgerTypes, NEW c \in Calls
  PROVE  /\ call[c].pc \in {"idle", "gate", "gate_provision", "regate", "work", "record",
                           "window"} \cup InTx \cup Ended
         /\ call[c].since \in Months /\ call[c].now \in Months
         /\ call[c].month \in Months \cup {None} /\ call[c].todo \subseteq Months
         /\ call[c].plan \in Plans \cup {None} /\ call[c].limit \in Nat /\ call[c].over \in Nat
  BY DEF LedgerTypes, CallRows

LEMMA CallUpdates ==
  ASSUME NEW row \in CallRows
  PROVE  /\ \A x \in Months, n \in Nat :
               [row EXCEPT !.pc = "gate", !.since = x, !.limit = n] \in CallRows
         /\ \A q \in Plans, x \in Months, T \in SUBSET Months :
               [row EXCEPT !.pc = "gate_provision", !.plan = q, !.now = x, !.todo = T] \in CallRows
         /\ \A q \in Plans, T \in SUBSET Months :
               [row EXCEPT !.pc = "provision", !.plan = q, !.todo = T] \in CallRows
         /\ \A n \in Nat : [row EXCEPT !.pc = "commit", !.over = n] \in CallRows
         /\ \A m \in Months : LET new == [row EXCEPT !.todo = @ \ {m}]
                              IN  new \in CallRows /\ new.pc = row.pc /\ new.plan = row.plan
  <1>1. "provision" \in InTx /\ "commit" \in InTx
    BY DEF InTx
  <1>2. ASSUME NEW x \in Months, NEW n \in Nat
        PROVE  [row EXCEPT !.pc = "gate", !.since = x, !.limit = n] \in CallRows
    BY DEF CallRows
  <1>3. ASSUME NEW q \in Plans, NEW x \in Months, NEW T \in SUBSET Months
        PROVE  [row EXCEPT !.pc = "gate_provision", !.plan = q, !.now = x, !.todo = T] \in CallRows
    BY DEF CallRows
  <1>4. ASSUME NEW q \in Plans, NEW T \in SUBSET Months
        PROVE  [row EXCEPT !.pc = "provision", !.plan = q, !.todo = T] \in CallRows
    BY <1>1 DEF CallRows
  <1>5. ASSUME NEW n \in Nat
        PROVE  [row EXCEPT !.pc = "commit", !.over = n] \in CallRows
    BY <1>1 DEF CallRows
  <1>6. ASSUME NEW m \in Months
        PROVE  LET new == [row EXCEPT !.todo = @ \ {m}]
               IN  new \in CallRows /\ new.pc = row.pc /\ new.plan = row.plan
    BY DEF CallRows
  <1> QED BY <1>2, <1>3, <1>4, <1>5, <1>6

LEMMA GotoEffect ==
  ASSUME LedgerTypes, NEW c \in Calls, NEW s \in {"work", "record", "regate", "bump"}, Goto(c, s)
  PROVE  /\ call' \in [Calls -> CallRows] /\ \A o \in Calls \ {c} : call'[o] = call[o]
         /\ call'[c].pc = s /\ call'[c].month = call[c].month
  <1>1. call[c] \in CallRows /\ call \in [Calls -> CallRows]
    BY DEF LedgerTypes
  <1>2. "bump" \in InTx
    BY DEF InTx
  <1>3. /\ [call[c] EXCEPT !.pc = s] \in CallRows
        /\ [call[c] EXCEPT !.pc = s].pc = s
        /\ [call[c] EXCEPT !.pc = s].month = call[c].month
    BY ONLY <1>1, <1>2, s \in {"work", "record", "regate", "bump"} DEF CallRows
  <1>4. call' = [call EXCEPT ![c] = [call[c] EXCEPT !.pc = s]]
    BY <1>1 DEF Goto
  <1> QED BY <1>1, <1>3, <1>4

\* The steps that only move the operation on.
LEMMA CallStepTypes ==
  ASSUME Typed, NEW c \in Calls,
         \/ Authenticate(c) \/ Gate(c) \/ GateUnlimited(c) \/ GateMissing(c) \/ Refuse(c)
         \/ Work(c) \/ FindPeriod(c) \/ FindWindow(c) \/ Provisioned(c) \/ InsertLedgerRow(c)
         \/ Bump(c)
  PROVE  /\ UNCHANGED <<periodVars, ledger>>
         /\ LedgerTypes' /\ CallLocals' /\ \A o \in Calls \ {c} : call'[o] = call[o]
  <1> USE DEF Typed, TypeOK, Ended
  <1>p. PeriodTypes /\ LedgerTypes /\ CallLocals
    OBVIOUS
  <1>s. sub \in Subscriptions /\ clock \in Months
    BY DEF PeriodTypes
  <1>k. ASSUME UNCHANGED <<periodVars, ledger>>, call' \in [Calls -> CallRows],
               \A o \in Calls \ {c} : call'[o] = call[o],
               call'[c].pc \in {"ledger", "bump", "commit"} => call'[c].month \in Months,
               call'[c].pc \in {"provision", "gate_provision"} => call'[c].plan \in Plans
        PROVE  /\ UNCHANGED <<periodVars, ledger>>
               /\ LedgerTypes' /\ CallLocals' /\ \A o \in Calls \ {c} : call'[o] = call[o]
    BY <1>k, <1>p DEF LedgerTypes, CallLocals
  <1>1. CASE Authenticate(c)
    <2>1. ResolvedOps(sub) \in Nat
      BY <1>s, ResolvedType
    <2>2. /\ call' \in [Calls -> CallRows] /\ \A o \in Calls \ {c} : call'[o] = call[o]
          /\ call'[c].pc = "gate"
      <3>1. call' = [call EXCEPT ![c] = [call[c] EXCEPT !.pc = "gate", !.since = clock,
                                                      !.limit = ResolvedOps(sub)]]
        BY <1>1, <1>p DEF Authenticate, LedgerTypes
      <3>2. [call[c] EXCEPT !.pc = "gate", !.since = clock, !.limit = ResolvedOps(sub)] \in CallRows
        BY <1>p, <1>s, <2>1, CallUpdates DEF LedgerTypes
      <3>3. call'[c].pc = "gate"
        BY <3>1, <1>p DEF LedgerTypes, CallRows
      <3> QED BY <1>p, <3>1, <3>2, <3>3 DEF LedgerTypes
    <2> QED BY <1>1, <1>k, <2>2 DEF Authenticate
  <1>2. CASE Gate(c)
    <2>1. CASE Goto(c, "work")
      <3>1. UNCHANGED <<periodVars, ledger>>
        BY <1>2 DEF Gate
      <3> QED BY <1>p, <1>k, <2>1, <3>1, GotoEffect
    <2>2. CASE End(c, "denied")
      BY <1>2, <1>p, <1>k, <2>2, EndEffect DEF Gate
    <2> QED BY <1>2, <2>1, <2>2 DEF Gate
  <1>3. CASE GateUnlimited(c)
    BY <1>3, <1>p, <1>k, GotoEffect DEF GateUnlimited
  <1>4. CASE GateMissing(c)
    <2>1. CASE End(c, "denied")
      BY <1>4, <1>p, <1>k, <2>1, EndEffect DEF GateMissing
    <2>2. CASE ~End(c, "denied")
      <3>1. Windows(sub, clock) \subseteq Months /\ sub.plan \in Plans
        BY <1>s, WindowsType DEF Subscriptions
      <3>2. call' = [call EXCEPT ![c].pc = "gate_provision", ![c].plan = sub.plan,
                                 ![c].now = clock, ![c].todo = Windows(sub, clock)]
        BY <1>4, <2>2 DEF GateMissing
      <3>3. /\ call' \in [Calls -> CallRows] /\ \A o \in Calls \ {c} : call'[o] = call[o]
            /\ call'[c].pc = "gate_provision" /\ call'[c].plan \in Plans
        <4>1. call' = [call EXCEPT ![c] = [call[c] EXCEPT !.pc = "gate_provision",
                                  !.plan = sub.plan, !.now = clock, !.todo = Windows(sub, clock)]]
          BY <1>p, <3>2 DEF LedgerTypes
        <4>2. [call[c] EXCEPT !.pc = "gate_provision", !.plan = sub.plan, !.now = clock,
                              !.todo = Windows(sub, clock)] \in CallRows
          BY <1>p, <1>s, <3>1, CallUpdates DEF LedgerTypes
        <4>3. call'[c].pc = "gate_provision" /\ call'[c].plan = sub.plan
          BY <4>1, <1>p DEF LedgerTypes, CallRows
        <4> QED BY <1>p, <3>1, <4>1, <4>2, <4>3 DEF LedgerTypes
      <3> QED BY <1>4, <1>k, <3>3 DEF GateMissing
    <2> QED BY <2>1, <2>2
  <1>5. CASE Refuse(c)
    BY <1>5, <1>p, <1>k, EndEffect DEF Refuse
  <1>6. CASE Work(c)
    BY <1>6, <1>p, <1>k, GotoEffect DEF Work
  <1>7. CASE FindPeriod(c)
    <2>1. /\ call' \in [Calls -> CallRows] /\ \A o \in Calls \ {c} : call'[o] = call[o]
          /\ call'[c].pc = "ledger" => call'[c].month \in Months
          /\ call'[c].pc \in {"ledger", "window"}
      BY <1>7, <1>p, <1>s DEF FindPeriod, LedgerTypes, CallRows, InTx
    <2> QED BY <1>7, <1>k, <2>1 DEF FindPeriod
  <1>8. CASE FindWindow(c)
    <2>1. CASE End(c, "dropped")
      BY <1>8, <1>p, <1>k, <2>1, EndEffect DEF FindWindow
    <2>2. CASE ~End(c, "dropped")
      <3>1. Windows(sub, call[c].now) \subseteq Months /\ sub.plan \in Plans
        BY <1>s, <1>p, CallRowType, WindowsType DEF Subscriptions
      <3>2. call' = [call EXCEPT ![c].pc = "provision", ![c].plan = sub.plan,
                                 ![c].todo = Windows(sub, call[c].now)]
        BY <1>8, <2>2 DEF FindWindow
      <3>3. /\ call' \in [Calls -> CallRows] /\ \A o \in Calls \ {c} : call'[o] = call[o]
            /\ call'[c].pc = "provision" /\ call'[c].plan \in Plans
        <4>1. call' = [call EXCEPT ![c] = [call[c] EXCEPT !.pc = "provision",
                                      !.plan = sub.plan, !.todo = Windows(sub, call[c].now)]]
          BY <1>p, <3>2 DEF LedgerTypes
        <4>2. [call[c] EXCEPT !.pc = "provision", !.plan = sub.plan,
                              !.todo = Windows(sub, call[c].now)] \in CallRows
          BY <1>p, <1>s, <3>1, CallUpdates DEF LedgerTypes
        <4>3. call'[c].pc = "provision" /\ call'[c].plan = sub.plan
          BY <4>1, <1>p DEF LedgerTypes, CallRows
        <4> QED BY <1>p, <3>1, <4>1, <4>2, <4>3 DEF LedgerTypes
      <3> QED BY <1>8, <1>k, <3>3 DEF FindWindow
    <2> QED BY <2>1, <2>2
  <1>9. CASE Provisioned(c)
    <2>1. /\ call' \in [Calls -> CallRows] /\ \A o \in Calls \ {c} : call'[o] = call[o]
          /\ call'[c].pc = "ledger" /\ call'[c].month \in Months
      BY <1>9, <1>p DEF Provisioned, LedgerTypes, CallRows, InTx
    <2> QED BY <1>9, <1>k, <2>1 DEF Provisioned
  <1>10. CASE InsertLedgerRow(c)
    <2>1. /\ call' \in [Calls -> CallRows] /\ \A o \in Calls \ {c} : call'[o] = call[o]
          /\ call'[c].pc = "bump" /\ call'[c].month = call[c].month
      BY <1>10, <1>p, GotoEffect DEF InsertLedgerRow
    <2>2. call[c].month \in Months
      BY <1>10, <1>p DEF InsertLedgerRow, CallLocals
    <2> QED BY <1>10, <1>k, <2>1, <2>2 DEF InsertLedgerRow
  <1>11. CASE Bump(c)
    <2> DEFINE row == Seen(c)[call[c].month]
               over == OverageOf(row.ops + UnitsOf[c], row, sub)
    <2>1. call[c].month \in Months
      BY <1>11, <1>p DEF Bump, CallLocals
    <2>2. row \in PeriodRows
      BY <1>p, <2>1, SeenType DEF PeriodTypes, Txs
    <2>3. row.ops + UnitsOf[c] \in Nat
      BY <2>2, RowFields
    <2>4. over \in Nat
      BY <1>s, <2>2, <2>3, OverageType
    <2>5. call' = [call EXCEPT ![c].pc = "commit", ![c].over = over]
      BY <1>11 DEF Bump
    <2> HIDE DEF over
    <2>6. /\ call' \in [Calls -> CallRows] /\ \A o \in Calls \ {c} : call'[o] = call[o]
          /\ call'[c].pc = "commit" /\ call'[c].month = call[c].month
      <3>1. call' = [call EXCEPT ![c] = [call[c] EXCEPT !.pc = "commit", !.over = over]]
        BY <1>p, <2>5 DEF LedgerTypes
      <3>2. [call[c] EXCEPT !.pc = "commit", !.over = over] \in CallRows
        BY <1>p, <2>4, CallUpdates DEF LedgerTypes
      <3>3. call'[c].pc = "commit" /\ call'[c].month = call[c].month
        BY <3>1, <1>p DEF LedgerTypes, CallRows
      <3> QED BY <1>p, <3>1, <3>2, <3>3 DEF LedgerTypes
    <2> QED BY <1>11, <1>k, <2>1, <2>6 DEF Bump
  <1> QED BY <1>1, <1>2, <1>3, <1>4, <1>5, <1>6, <1>7, <1>8, <1>9, <1>10, <1>11

\* What a writer may do to a committed row: count, never wipe, re-open or overdraw it.
SameRow(a, b) == /\ b.there = a.there /\ b.plan = a.plan /\ b.granted = a.granted
                 /\ b.ops >= a.ops
                 /\ Unlimited = {} => b.llm <= a.llm \/ b.llm <= b.granted
Published(t) == Forget(t) /\ \A m \in Months : SameRow(Seen(t)[m], period'[m])

\* What one transaction does to the rows in one step.
RowsKeptBy(t) ==
    \/ UNCHANGED <<period, fresh>>
    \/ \E m \in Months, p \in Plans : InsertPeriod(t, m, p) /\ UNCHANGED period
    \/ Forget(t) /\ UNCHANGED period
    \/ Published(t)

LEMMA SameRowRefl == ASSUME NEW row \in PeriodRows PROVE SameRow(row, row)
  BY DEF SameRow, PeriodRows

LEMMA RowUpdates ==
  ASSUME NEW row \in PeriodRows
  PROVE  /\ \A n, o \in Nat : LET new == [row EXCEPT !.ops = @ + n, !.overage = o]
                               IN  new \in PeriodRows /\ SameRow(row, new)
         /\ \A n \in Int : LET new == [row EXCEPT !.llm = @ + n]
                            IN  /\ new \in PeriodRows
                                /\ row.llm + n <= row.granted => SameRow(row, new)
         /\ \A n \in Nat : LET new == [row EXCEPT !.llm = @ - n]
                            IN  new \in PeriodRows /\ SameRow(row, new)
         /\ LET new == [row EXCEPT !.bonus = @ + 1] IN new \in PeriodRows /\ SameRow(row, new)
  <1>1. ASSUME NEW n \in Nat, NEW o \in Nat
        PROVE  LET new == [row EXCEPT !.ops = @ + n, !.overage = o]
               IN  new \in PeriodRows /\ SameRow(row, new)
    <2> DEFINE new == [row EXCEPT !.ops = @ + n, !.overage = o]
    <2>1. row.ops + n \in Nat /\ row.ops + n >= row.ops
      BY RowFields
    <2>2. new \in PeriodRows
      BY <2>1 DEF PeriodRows
    <2>3. /\ new.ops = row.ops + n /\ new.there = row.there /\ new.plan = row.plan
          /\ new.granted = row.granted /\ new.llm = row.llm
      BY DEF PeriodRows
    <2>4. row.llm <= row.llm
      BY RowFields
    <2> QED BY <2>1, <2>2, <2>3, <2>4 DEF SameRow
  <1>2. ASSUME NEW n \in Int
        PROVE  LET new == [row EXCEPT !.llm = @ + n]
               IN  /\ new \in PeriodRows
                   /\ row.llm + n <= row.granted => SameRow(row, new)
    BY DEF PeriodRows, SameRow
  <1>3. ASSUME NEW n \in Nat
        PROVE  LET new == [row EXCEPT !.llm = @ - n]
               IN  new \in PeriodRows /\ SameRow(row, new)
    BY DEF PeriodRows, SameRow
  <1>4. LET new == [row EXCEPT !.bonus = @ + 1] IN new \in PeriodRows /\ SameRow(row, new)
    BY DEF PeriodRows, SameRow
  <1> QED BY <1>1, <1>2, <1>3, <1>4

\* Committing what a transaction has inserted.
LEMMA PublishEffect ==
  ASSUME PeriodTypes, NEW t \in Txs, period' = Seen(t), Forget(t), UNCHANGED <<clock, sub>>
  PROVE  PeriodTypes' /\ Published(t)
  <1>1. Seen(t) \in [Months -> PeriodRows]
    BY SeenType DEF PeriodTypes
  <1>2. \A m \in Months : SameRow(Seen(t)[m], period'[m])
    BY <1>1, SameRowRefl
  <1> QED BY <1>1, <1>2, ForgetEffect DEF PeriodTypes, Published

\* The commit of record_op_usage: the rows it inserted, and its UPDATE on one of them.
LEMMA CommitPublishes ==
  ASSUME Typed, NEW c \in Calls, Commit(c)
  PROVE  PeriodTypes' /\ Published(c)
  <1> DEFINE m == call[c].month
             row == [Seen(c)[m] EXCEPT !.ops = @ + UnitsOf[c], !.overage = call[c].over]
  <1>p. PeriodTypes /\ LedgerTypes /\ CallLocals /\ c \in Txs
    BY DEF Typed, TypeOK, Txs
  <1>1. /\ period' = [Seen(c) EXCEPT ![m].ops = @ + UnitsOf[c], ![m].overage = call[c].over]
        /\ Forget(c) /\ UNCHANGED <<clock, sub>> /\ m \in Months
    BY <1>p DEF Commit, CallLocals
  <1>2. Seen(c) \in [Months -> PeriodRows]
    BY <1>p, SeenType DEF PeriodTypes
  <1>3. period' = [Seen(c) EXCEPT ![m] = row]
    BY <1>1, <1>2
  <1>4. row \in PeriodRows /\ SameRow(Seen(c)[m], row)
    BY <1>p, <1>1, <1>2, RowUpdates, CallRowType
  <1> HIDE DEF row
  <1>5. period' \in [Months -> PeriodRows]
    BY <1>2, <1>3, <1>4
  <1>6. ASSUME NEW k \in Months PROVE SameRow(Seen(c)[k], period'[k])
    BY <1>2, <1>3, <1>4, SameRowRefl
  <1> QED BY <1>p, <1>1, <1>5, <1>6, ForgetEffect DEF PeriodTypes, Published

\* The steps that write rows.
LEMMA CallWriteTypes ==
  ASSUME Typed, NEW c \in Calls,
         \/ \E m \in Months : ProvisionOne(c, m)
         \/ GateProvisioned(c) \/ Duplicate(c) \/ Commit(c) \/ Abort(c)
  PROVE  /\ UNCHANGED <<clock, sub>>
         /\ PeriodTypes' /\ LedgerTypes' /\ CallLocals' /\ \A o \in Calls \ {c} : call'[o] = call[o]
         /\ RowsKeptBy(c)
  <1> USE DEF Typed, TypeOK, RowsKeptBy
  <1>p. PeriodTypes /\ LedgerTypes /\ CallLocals /\ c \in Txs
    BY DEF Txs
  <1>k. ASSUME call' \in [Calls -> CallRows], \A o \in Calls \ {c} : call'[o] = call[o],
               call'[c].pc \notin {"ledger", "bump", "commit"},
               call'[c].pc \in {"provision", "gate_provision"} => call'[c].plan \in Plans
        PROVE  CallLocals'
    BY <1>k, <1>p DEF CallLocals
  <1>1. ASSUME NEW m \in Months, ProvisionOne(c, m)
        PROVE  /\ UNCHANGED <<clock, sub>>
               /\ PeriodTypes' /\ LedgerTypes' /\ CallLocals'
               /\ \A o \in Calls \ {c} : call'[o] = call[o]
               /\ \E p \in Plans : InsertPeriod(c, m, p) /\ UNCHANGED period
    <2>1. call[c].plan \in Plans
      BY <1>1, <1>p DEF ProvisionOne, CallLocals
    <2>2. InsertPeriod(c, m, call[c].plan) /\ UNCHANGED <<clock, sub, period, ledger>>
      BY <1>1 DEF ProvisionOne
    <2>3. PeriodTypes'
      BY <1>p, <2>1, <2>2, InsertEffect DEF PeriodTypes
    <2>4. call' = [call EXCEPT ![c].todo = @ \ {m}] /\ call[c].pc \in {"provision", "gate_provision"}
      BY <1>1 DEF ProvisionOne
    <2>5. /\ call' \in [Calls -> CallRows] /\ \A o \in Calls \ {c} : call'[o] = call[o]
          /\ call'[c].pc = call[c].pc /\ call'[c].plan = call[c].plan
      <3>1. call' = [call EXCEPT ![c] = [call[c] EXCEPT !.todo = @ \ {m}]]
        BY <1>p, <2>4 DEF LedgerTypes
      <3> DEFINE new == [call[c] EXCEPT !.todo = @ \ {m}]
      <3>2. new \in CallRows /\ new.pc = call[c].pc /\ new.plan = call[c].plan
        BY <1>p, <1>1, CallUpdates DEF LedgerTypes
      <3> HIDE DEF new
      <3> QED BY <1>p, <3>1, <3>2 DEF LedgerTypes, new
    <2>6. CallLocals'
      BY <1>k, <2>1, <2>4, <2>5
    <2> QED BY <1>p, <2>1, <2>2, <2>3, <2>5, <2>6 DEF LedgerTypes
  <1>2. CASE GateProvisioned(c)
    <2>1. period' = Seen(c) /\ Forget(c) /\ Goto(c, "regate") /\ UNCHANGED <<clock, sub, ledger>>
      BY <1>2 DEF GateProvisioned
    <2>2. PeriodTypes' /\ Published(c)
      BY <1>p, <2>1, PublishEffect
    <2>3. /\ call' \in [Calls -> CallRows] /\ \A o \in Calls \ {c} : call'[o] = call[o]
          /\ call'[c].pc = "regate"
      BY <1>p, <2>1, GotoEffect
    <2> QED BY <1>p, <1>k, <2>1, <2>2, <2>3 DEF LedgerTypes
  <1>3. CASE Duplicate(c)
    <2>1. /\ period' = Seen(c) /\ Forget(c) /\ End(c, "duplicate") /\ "duplicate" \in Ended
          /\ UNCHANGED <<clock, sub, ledger>>
      BY <1>3 DEF Duplicate, Ended
    <2>2. PeriodTypes' /\ Published(c)
      BY <1>p, <2>1, PublishEffect
    <2>3. /\ call' \in [Calls -> CallRows] /\ \A o \in Calls \ {c} : call'[o] = call[o]
          /\ call'[c].pc = "duplicate"
      BY <1>p, <2>1, EndEffect
    <2> QED BY <1>p, <1>k, <2>1, <2>2, <2>3 DEF LedgerTypes
  <1>4. CASE Commit(c)
    <2>1. /\ Forget(c) /\ End(c, "counted") /\ "counted" \in Ended /\ UNCHANGED <<clock, sub>>
          /\ ledger' = [ledger EXCEPT ![KeyOf[c]] = [month |-> call[c].month, units |-> UnitsOf[c]]]
          /\ call[c].month \in Months
      BY <1>4, <1>p DEF Commit, Ended, CallLocals
    <2>7. PeriodTypes' /\ Published(c)
      BY <1>4, CommitPublishes
    <2>8. /\ call' \in [Calls -> CallRows] /\ \A o \in Calls \ {c} : call'[o] = call[o]
          /\ call'[c].pc = "counted"
      BY <1>p, <2>1, EndEffect
    <2>9. ledger' \in [Keys -> [month : Months \cup {None}, units : Nat]]
      BY <1>p, <2>1 DEF LedgerTypes
    <2>10. CallLocals'
      BY <1>k, <2>8
    <2> QED BY <2>1, <2>7, <2>8, <2>9, <2>10 DEF LedgerTypes
  <1>5. CASE Abort(c)
    <2>1. /\ Forget(c) /\ End(c, "aborted") /\ "aborted" \in Ended
          /\ UNCHANGED <<clock, sub, period, ledger>>
      BY <1>5 DEF Abort, Ended
    <2>2. PeriodTypes'
      BY <1>p, <2>1, ForgetEffect DEF PeriodTypes
    <2>3. /\ call' \in [Calls -> CallRows] /\ \A o \in Calls \ {c} : call'[o] = call[o]
          /\ call'[c].pc = "aborted"
      BY <1>p, <2>1, EndEffect
    <2> QED BY <1>p, <1>k, <2>1, <2>2, <2>3 DEF LedgerTypes
  <1> QED BY <1>1, <1>2, <1>3, <1>4, <1>5

-----------------------------------------------------------------------------
(* Types: the steps of an LLM call *)

LEMMA AskRowType ==
  ASSUME BudgetTypes, NEW a \in Asks
  PROVE  /\ ask[a] \in AskRows
         /\ ask[a].pc \in {"idle", "found", "refused", "held", "answered", "settled", "abandoned"}
         /\ ask[a].month \in Months \cup {None} /\ ask[a].cost \in Nat
  BY DEF BudgetTypes, AskRows

\* An LLM call that moves on keeps its types, if it has a month where it needs one.
LEMMA AskMoves ==
  ASSUME BudgetTypes, AskLocals, NEW a \in Asks, NEW row \in AskRows,
         ask' = [ask EXCEPT ![a] = row],
         row.pc \notin {"idle", "refused"} => row.month \in Months,
         row.cost <= ReserveOf[a]
  PROVE  ask' \in [Asks -> AskRows] /\ AskLocals'
  BY DEF BudgetTypes, AskLocals

LEMMA AskToEffect ==
  ASSUME BudgetTypes, AskLocals, NEW a \in Asks,
         NEW s \in {"refused", "held", "settled", "abandoned"},
         s # "refused" => ask[a].pc \notin {"idle", "refused"}, AskTo(a, s)
  PROVE  ask' \in [Asks -> AskRows] /\ AskLocals'
  <1>1. ask' = [ask EXCEPT ![a] = [ask[a] EXCEPT !.pc = s]]
    BY DEF AskTo, BudgetTypes
  <1>2. /\ [ask[a] EXCEPT !.pc = s] \in AskRows
        /\ [ask[a] EXCEPT !.pc = s].pc = s
        /\ [ask[a] EXCEPT !.pc = s].month = ask[a].month
        /\ [ask[a] EXCEPT !.pc = s].cost = ask[a].cost
    BY AskRowType DEF AskRows
  <1>3. /\ ask[a].cost <= ReserveOf[a]
        /\ s # "refused" => ask[a].month \in Months
    BY DEF AskLocals
  <1> QED BY <1>1, <1>2, <1>3, AskMoves

\* One conditional UPDATE of a committed row.
LEMMA UpdateEffect ==
  ASSUME PeriodTypes, NEW m \in Months, NEW row \in PeriodRows, SameRow(period[m], row),
         period' = [period EXCEPT ![m] = row]
  PROVE  /\ period' \in [Months -> PeriodRows]
         /\ \A k \in Months : SameRow(period[k], period'[k])
  BY SameRowRefl DEF PeriodTypes

LEMMA AskStepTypes ==
  ASSUME Typed, NEW a \in Asks, AskStep(a)
  PROVE  /\ UNCHANGED <<clock, sub, fresh>>
         /\ period' \in [Months -> PeriodRows]
         /\ \A k \in Months : SameRow(period[k], period'[k])
         /\ BudgetTypes' /\ AskLocals'
  <1>p. PeriodTypes /\ BudgetTypes /\ AskLocals /\ clock \in Months /\ ReserveOf[a] \in Nat
        /\ AskKeyOf[a] \in AskKeys
    BY DEF Typed, TypeOK, PeriodTypes, AskKeys
  <1>q. period \in [Months -> PeriodRows] /\ \A k \in Months : SameRow(period[k], period[k])
    BY <1>p, SameRowRefl DEF PeriodTypes
  <1>1. CASE FindBudget(a)
    <2> DEFINE next == IF (RequestCap # None /\ ReserveOf[a] > RequestCap) \/ ~period[clock].there
                       THEN "refused" ELSE "found"
               row == [ask[a] EXCEPT !.pc = next, !.month = clock]
    <2>1. ask' = [ask EXCEPT ![a].pc = next, ![a].month = clock]
          /\ UNCHANGED <<periodVars, reserved, settled>>
      BY <1>1 DEF FindBudget
    <2>2. next \in {"refused", "found"}
      OBVIOUS
    <2> HIDE DEF next
    <2>3. ask' = [ask EXCEPT ![a] = row]
      BY <1>p, <2>1 DEF BudgetTypes
    <2>4. row \in AskRows /\ row.month = clock /\ row.cost = ask[a].cost
      BY <1>p, <2>2, AskRowType DEF AskRows
    <2> HIDE DEF row
    <2>5. ask[a].cost <= ReserveOf[a]
      BY <1>p DEF AskLocals
    <2>6. ask' \in [Asks -> AskRows] /\ AskLocals'
      BY <1>p, <2>3, <2>4, <2>5, AskMoves
    <2> QED BY <1>p, <1>q, <2>1, <2>6 DEF BudgetTypes, periodVars
  <1>2. CASE Reserve(a)
    <2> DEFINE m == ask[a].month
               row == [period[m] EXCEPT !.llm = @ + ReserveOf[a]]
    <2>1. m \in Months
      BY <1>2, <1>p DEF Reserve, AskLocals
    <2>2. period[m] \in PeriodRows /\ period[m].llm \in Int /\ period[m].granted \in Nat
      BY <1>q, <2>1, RowFields
    <2>a. ReserveOf[a] \in Int
      BY <1>p
    <2>3. /\ row \in PeriodRows
          /\ period[m].llm + ReserveOf[a] <= period[m].granted => SameRow(period[m], row)
      BY ONLY <2>a, <2>2, RowUpdates
    <2>4. SameRow(period[m], row)
      <3>1. period[m].llm + ReserveOf[a] <= period[m].granted => SameRow(period[m], row)
        BY <2>3
      <3>2. Unlimited = {} => period[m].llm + ReserveOf[a] <= period[m].granted
        BY <1>2, <1>p, <2>2 DEF Reserve, Overdraws
      <3>3. Unlimited # {} => SameRow(period[m], row)
        BY <2>2 DEF SameRow, PeriodRows
      <3> QED BY <3>1, <3>2, <3>3
    <2>5. period' = [period EXCEPT ![m] = row] /\ UNCHANGED <<clock, sub, fresh, settled>>
      BY <1>2, <1>q DEF Reserve, AddCost
    <2> HIDE DEF row
    <2>6. ask' \in [Asks -> AskRows] /\ AskLocals'
      BY <1>2, <1>p, AskToEffect DEF Reserve
    <2>7. reserved' \in [AskKeys -> [month : Months \cup {None}, cents : Nat]]
      BY <1>2, <1>p, <2>1 DEF Reserve, BudgetTypes
    <2>8. /\ period' \in [Months -> PeriodRows]
          /\ \A k \in Months : SameRow(period[k], period'[k])
      BY <1>p, <2>1, <2>3, <2>4, <2>5, UpdateEffect
    <2> QED BY <1>p, <2>5, <2>6, <2>7, <2>8 DEF BudgetTypes
  <1>3. CASE RefuseReserve(a)
    <2>1. ask' \in [Asks -> AskRows] /\ AskLocals'
      BY <1>3, <1>p, AskToEffect DEF RefuseReserve
    <2> QED BY <1>3, <1>p, <1>q, <2>1 DEF RefuseReserve, BudgetTypes, periodVars
  <1>4. CASE Answer(a)
    <2>1. PICK cost \in 0..ReserveOf[a] : ask' = [ask EXCEPT ![a].pc = "answered", ![a].cost = cost]
      BY <1>4 DEF Answer
    <2> DEFINE row == [ask[a] EXCEPT !.pc = "answered", !.cost = cost]
    <2>2. ask' = [ask EXCEPT ![a] = row]
      BY <1>p, <2>1 DEF BudgetTypes
    <2>3. cost \in Nat /\ cost <= ReserveOf[a]
      BY <1>p
    <2>4. row \in AskRows /\ row.month = ask[a].month /\ row.cost = cost
      BY <1>p, <2>3, AskRowType DEF AskRows
    <2> HIDE DEF row
    <2>5. ask[a].month \in Months
      BY <1>4, <1>p DEF Answer, AskLocals
    <2>6. ask' \in [Asks -> AskRows] /\ AskLocals'
      BY <1>p, <2>2, <2>3, <2>4, <2>5, AskMoves
    <2> QED BY <1>4, <1>p, <1>q, <2>6 DEF Answer, BudgetTypes, periodVars
  <1>5. CASE AbandonHold(a)
    <2>1. ask' \in [Asks -> AskRows] /\ AskLocals'
      BY <1>5, <1>p, AskToEffect DEF AbandonHold
    <2> QED BY <1>5, <1>p, <1>q, <2>1 DEF AbandonHold, BudgetTypes, periodVars
  <1>6. CASE Settle(a)
    <2> DEFINE m == ask[a].month
               unspent == ReserveOf[a] - ask[a].cost
               row == [period[m] EXCEPT !.llm = @ - unspent]
    <2>1. ask' \in [Asks -> AskRows] /\ AskLocals'
      BY <1>6, <1>p, AskToEffect DEF Settle
    <2>2. CASE unspent = 0 \/ settled[AskKeyOf[a]] # NoHold
      BY <1>6, <1>p, <1>q, <2>1, <2>2 DEF Settle, BudgetTypes
    <2>3. CASE ~(unspent = 0 \/ settled[AskKeyOf[a]] # NoHold)
      <3>1. m \in Months /\ ask[a].cost <= ReserveOf[a] /\ ask[a].cost \in Nat
        BY <1>6, <1>p, AskRowType DEF Settle, AskLocals
      <3>2. unspent \in Nat
        BY <1>p, <3>1
      <3>3. /\ settled' = [settled EXCEPT ![AskKeyOf[a]] = [month |-> m, cents |-> unspent]]
            /\ period' = [period EXCEPT ![m].llm = @ - unspent]
            /\ UNCHANGED <<clock, sub, fresh, reserved>>
        BY <1>6, <2>3 DEF Settle, Release
      <3> HIDE DEF unspent
      <3>4. period[m] \in PeriodRows
        BY <1>q, <3>1
      <3>5. row \in PeriodRows /\ SameRow(period[m], row)
        BY <3>2, <3>4, RowUpdates
      <3>6. period' = [period EXCEPT ![m] = row]
        BY <1>q, <3>1, <3>3
      <3> HIDE DEF row
      <3>7. /\ period' \in [Months -> PeriodRows]
            /\ \A k \in Months : SameRow(period[k], period'[k])
        BY <1>p, <3>1, <3>5, <3>6, UpdateEffect
      <3>8. settled' \in [AskKeys -> [month : Months \cup {None}, cents : Nat]]
        BY <1>p, <3>1, <3>2, <3>3 DEF BudgetTypes
      <3> QED BY <1>p, <2>1, <3>3, <3>7, <3>8 DEF BudgetTypes
    <2> QED BY <2>2, <2>3
  <1> QED BY <1>1, <1>2, <1>3, <1>4, <1>5, <1>6 DEF AskStep

-----------------------------------------------------------------------------
(* Types: the steps of a rotation, and the backend's *)

LEMMA SubFields ==
  ASSUME NEW s \in Subscriptions
  PROVE  /\ s.start \in Months /\ s.plan \in Plans /\ s.pending \in Plans \cup {None}
         /\ s.eff \in Nat /\ s.active \in BOOLEAN
  BY DEF Subscriptions

LEMMA NextSubType ==
  ASSUME NEW s \in Subscriptions, s.start + 1 \in Months
  PROVE  /\ NextSub(s) \in Subscriptions /\ NextSub(s).start = s.start + 1
         /\ NextSub(s).plan \in Plans
  <1>1. CASE s.pending = None
    BY <1>1 DEF NextSub, Subscriptions
  <1>2. CASE s.pending # None
    <2> DEFINE limit == IF OverrideOps # None THEN OverrideOps ELSE PlanOps[s.pending]
    <2>1. s.pending \in Plans /\ limit \in Nat
      BY <1>2, SubFields
    <2>2. NextSub(s) = [s EXCEPT !.start = @ + 1, !.plan = s.pending, !.pending = None,
                                 !.eff = limit]
      BY <1>2 DEF NextSub
    <2> HIDE DEF limit
    <2>3. NextSub(s) = [start |-> s.start + 1, plan |-> s.pending, pending |-> None,
                        eff |-> limit, active |-> s.active]
      BY <2>2 DEF Subscriptions
    <2> QED BY <2>1, <2>3, SubFields DEF Subscriptions
  <1> QED BY <1>1, <1>2

LEMMA IdleRotatorType == IdleRotator \in RotRows /\ IdleRotator.pc = "idle"
  BY DEF IdleRotator, RotRows, RotSteps, Months

LEMMA RotFields ==
  ASSUME RotationTypes, NEW r \in Rotators
  PROVE  /\ rot[r] \in RotRows /\ rot[r].pc \in RotSteps /\ rot[r].now \in Months
         /\ rot[r].steps \in Nat /\ rot[r].marks \subseteq Months
         /\ rot[r].sub \in Subscriptions \cup {None}
  BY DEF RotationTypes, RotRows

\* A rotator that moves on keeps its types, if it has a subscription where it needs one.
LEMMA RotMoves ==
  ASSUME RotationTypes, RotLocals, NEW r \in Rotators, NEW row \in RotRows,
         rot' = [rot EXCEPT ![r] = row],
         row.pc # "idle" => row.sub \in Subscriptions,
         row.pc \in {"capture", "advance"} => row.sub.start < row.now
  PROVE  /\ rot' \in [Rotators -> RotRows] /\ RotLocals'
         /\ rot'[r] = row /\ \A q \in Rotators \ {r} : rot'[q] = rot[q]
  BY DEF RotationTypes, RotLocals, Busy

LEMMA RotationStepTypes ==
  ASSUME Typed, NEW r \in Rotators, RotateStep(r) \/ CrashRotation(r)
  PROVE  /\ UNCHANGED clock /\ RowsKeptBy(r)
         /\ PeriodTypes' /\ RotationTypes' /\ RotLocals'
         /\ \A q \in Rotators \ {r} : rot'[q] = rot[q]
  <1>p. /\ PeriodTypes /\ RotationTypes /\ RotLocals /\ clock \in Months /\ sub \in Subscriptions
        /\ r \in Txs
    BY DEF Typed, TypeOK, PeriodTypes, Txs
  <1>a. paid \in [Months -> [times : Nat, ops : Nat]] /\ crashes \in Nat /\ edits \in Nat
        /\ marker \subseteq Months
    BY <1>p DEF RotationTypes
  <1>k. ASSUME UNCHANGED periodVars
        PROVE  UNCHANGED clock /\ RowsKeptBy(r) /\ PeriodTypes'
    BY <1>p, <1>k DEF periodVars, RowsKeptBy, PeriodTypes
  <1>i. ASSUME rot' = [rot EXCEPT ![r] = IdleRotator]
        PROVE  rot' \in [Rotators -> RotRows] /\ RotLocals' /\ \A q \in Rotators \ {r} : rot'[q] = rot[q]
    BY <1>p, <1>i, IdleRotatorType, RotMoves
  <1>b. ASSUME rot[r].pc # "idle"
        PROVE  rot[r].sub \in Subscriptions /\ rot[r].sub.start \in Months
    BY <1>p, <1>b, SubFields DEF RotLocals, Busy
  <1>1. CASE StartRotation(r)
    <2> DEFINE row == [pc |-> "capture", now |-> clock, steps |-> 0, marks |-> {}, sub |-> sub]
    <2>1. /\ rot' = [rot EXCEPT ![r] = row] /\ sub.start < clock
          /\ UNCHANGED <<periodVars, marker, paid, crashes, edits>>
      BY <1>1 DEF StartRotation, Overdue
    <2>2. row \in RotRows /\ row.sub = sub /\ row.now = clock
      BY <1>p DEF RotRows, RotSteps
    <2> HIDE DEF row
    <2>3. rot' \in [Rotators -> RotRows] /\ RotLocals' /\ \A q \in Rotators \ {r} : rot'[q] = rot[q]
      BY <1>p, <2>1, <2>2, RotMoves
    <2> QED BY <1>a, <1>k, <2>1, <2>3 DEF RotationTypes
  <1>m. ASSUME rot[r].pc = "capture", NEW M \in SUBSET Months,
               rot' = [rot EXCEPT ![r] = [rot[r] EXCEPT !.pc = "advance", !.marks = M]]
        PROVE  rot' \in [Rotators -> RotRows] /\ RotLocals' /\ \A q \in Rotators \ {r} : rot'[q] = rot[q]
    <2> DEFINE row == [rot[r] EXCEPT !.pc = "advance", !.marks = M]
    <2>1. row \in RotRows /\ row.sub = rot[r].sub /\ row.now = rot[r].now
      BY <1>p, RotFields DEF RotRows, RotSteps
    <2>2. rot[r].sub \in Subscriptions /\ rot[r].sub.start < rot[r].now
      BY <1>p, <1>m DEF RotLocals, Busy
    <2>3. rot' = [rot EXCEPT ![r] = row]
      BY <1>m
    <2> HIDE DEF row
    <2> QED BY <1>p, <2>1, <2>2, <2>3, RotMoves
  <1>n. ASSUME rot[r].pc = "capture", rot' = [rot EXCEPT ![r].pc = "advance"]
        PROVE  rot' \in [Rotators -> RotRows] /\ RotLocals' /\ \A q \in Rotators \ {r} : rot'[q] = rot[q]
    <2>1. rot' = [rot EXCEPT ![r] = [rot[r] EXCEPT !.pc = "advance"]]
      BY <1>p, <1>n DEF RotationTypes
    <2>2. [rot[r] EXCEPT !.pc = "advance"] = [rot[r] EXCEPT !.pc = "advance", !.marks = rot[r].marks]
      BY <1>p, RotFields DEF RotRows
    <2>3. rot' = [rot EXCEPT ![r] = [rot[r] EXCEPT !.pc = "advance", !.marks = rot[r].marks]]
      BY <2>1, <2>2
    <2>4. rot[r].marks \in SUBSET Months
      BY <1>p, RotFields
    <2> QED BY <1>m, <1>n, <2>3, <2>4
  <1>2. CASE Capture(r)
    <2> DEFINE m == rot[r].sub.start
    <2>1. rot[r].pc = "capture" /\ Chargeable(r) /\ UNCHANGED <<periodVars, marker, crashes, edits>>
      BY <1>2 DEF Capture
    <2>2. m \in Months
      BY <1>b, <2>1
    <2>3. ASSUME Charge(r, m) PROVE paid' \in [Months -> [times : Nat, ops : Nat]]
      <3>1. Seen(r)[m].overage \in Nat
        BY <1>p, <2>2, SeenType, RowFields DEF PeriodTypes
      <3>2. paid[m].times + 1 \in Nat /\ paid[m].ops + Seen(r)[m].overage \in Nat
        BY <1>a, <2>2, <3>1
      <3> QED BY <1>a, <2>2, <2>3, <3>2 DEF Charge
    <2>4. paid' \in [Months -> [times : Nat, ops : Nat]]
      BY <1>2, <1>a, <2>3 DEF Capture
    <2>5. rot' \in [Rotators -> RotRows] /\ RotLocals' /\ \A q \in Rotators \ {r} : rot'[q] = rot[q]
      <3>1. CASE rot' = [rot EXCEPT ![r].pc = "advance", ![r].marks = @ \cup {m}]
        <4>1. rot' = [rot EXCEPT ![r] = [rot[r] EXCEPT !.pc = "advance",
                                                  !.marks = rot[r].marks \cup {m}]]
          BY <1>p, <3>1 DEF RotationTypes
        <4>2. rot[r].marks \cup {m} \in SUBSET Months
          BY <1>p, <2>2, RotFields
        <4> QED BY <1>m, <2>1, <4>1, <4>2
      <3>2. CASE rot' = [rot EXCEPT ![r].pc = "advance"]
        BY <1>n, <2>1, <3>2
      <3> QED BY <1>2, <3>1, <3>2 DEF Capture
    <2> QED BY <1>a, <1>k, <2>1, <2>4, <2>5 DEF RotationTypes
  <1>3. CASE CaptureNothing(r)
    BY <1>3, <1>a, <1>k, <1>n DEF CaptureNothing, RotationTypes
  <1>4. CASE Advance(r)
    <2> DEFINE next == NextSub(rot[r].sub)
               steps == rot[r].steps + 1
               step == IF next.start < rot[r].now /\ steps < MaxCatchup THEN "capture" ELSE "commit"
               row == [rot[r] EXCEPT !.sub = next, !.steps = steps, !.pc = step]
    <2>1. /\ rot[r].pc = "advance" /\ InsertPeriod(r, next.start, next.plan)
          /\ rot' = [rot EXCEPT ![r].sub = next, ![r].steps = steps, ![r].pc = step]
          /\ UNCHANGED <<clock, sub, period, marker, paid, crashes, edits>>
      BY <1>4 DEF Advance
    <2>2. rot[r].sub.start \in Months /\ rot[r].sub.start < rot[r].now /\ rot[r].now \in Months
          /\ rot[r].sub \in Subscriptions
      BY <1>p, <1>b, <2>1, RotFields DEF RotLocals
    <2>3. rot[r].sub.start + 1 \in Months
      BY <2>2 DEF Months
    <2>4. next \in Subscriptions /\ next.start \in Months /\ next.plan \in Plans
      BY <2>2, <2>3, NextSubType
    <2>5. steps \in Nat /\ step \in RotSteps /\ step # "advance"
          /\ (step = "capture" => next.start < rot[r].now)
      BY <1>p, RotFields DEF RotSteps
    <2> HIDE DEF next, steps, step
    <2>6. rot' = [rot EXCEPT ![r] = row]
      BY <1>p, <2>1 DEF RotationTypes
    <2>7. row \in RotRows /\ row.sub = next /\ row.now = rot[r].now /\ row.pc = step
      BY <1>p, <2>4, <2>5, RotFields DEF RotRows
    <2> HIDE DEF row
    <2>8. rot' \in [Rotators -> RotRows] /\ RotLocals' /\ \A q \in Rotators \ {r} : rot'[q] = rot[q]
      BY <1>p, <2>4, <2>5, <2>6, <2>7, RotMoves
    <2>9. PeriodTypes'
      BY <1>p, <2>1, <2>4, InsertEffect DEF PeriodTypes
    <2> QED BY <1>a, <2>1, <2>4, <2>8, <2>9 DEF RotationTypes, RowsKeptBy
  <1>5. CASE CommitRotation(r)
    <2>1. /\ rot[r].pc # "idle" /\ period' = Seen(r) /\ Forget(r) /\ sub' = rot[r].sub
          /\ marker' = marker \cup rot[r].marks /\ rot' = [rot EXCEPT ![r] = IdleRotator]
          /\ UNCHANGED <<clock, paid, crashes, edits>>
      BY <1>5 DEF CommitRotation
    <2>2. sub' \in Subscriptions /\ rot[r].marks \subseteq Months
      BY <1>p, <1>b, <2>1, RotFields
    <2>3. Seen(r) \in [Months -> PeriodRows]
      BY <1>p, SeenType DEF PeriodTypes
    <2>4. \A m \in Months : SameRow(Seen(r)[m], period'[m])
      BY <2>1, <2>3, SameRowRefl
    <2>5. PeriodTypes'
      BY <1>p, <2>1, <2>2, <2>3, ForgetEffect DEF PeriodTypes
    <2> QED BY <1>a, <1>i, <2>1, <2>2, <2>4, <2>5 DEF RotationTypes, RowsKeptBy, Published
  <1>6. CASE CrashRotation(r)
    <2>1. /\ Forget(r) /\ rot' = [rot EXCEPT ![r] = IdleRotator] /\ crashes' = crashes + 1
          /\ UNCHANGED <<clock, sub, period, marker, paid, edits>>
      BY <1>6 DEF CrashRotation
    <2>2. PeriodTypes'
      BY <1>p, <2>1, ForgetEffect DEF PeriodTypes
    <2> QED BY <1>a, <1>i, <2>1, <2>2 DEF RotationTypes, RowsKeptBy
  <1> QED BY <1>1, <1>2, <1>3, <1>4, <1>5, <1>6 DEF RotateStep

LEMMA BackendStepTypes ==
  ASSUME Typed, SchedulePlan \/ ChangeStatus \/ GrantBonus
  PROVE  /\ UNCHANGED <<clock, fresh, rot, marker, paid, crashes>>
         /\ \A m \in Months : SameRow(period[m], period'[m])
         /\ PeriodTypes' /\ RotationTypes' /\ RotLocals' /\ sub'.start = sub.start
         /\ GrantBonus => sub' = sub
  <1>p. /\ PeriodTypes /\ RotationTypes /\ RotLocals /\ clock \in Months /\ sub \in Subscriptions
        /\ period \in [Months -> PeriodRows] /\ edits \in Nat
    BY DEF Typed, TypeOK, PeriodTypes, RotationTypes
  <1>q. \A m \in Months : SameRow(period[m], period[m])
    BY <1>p, SameRowRefl
  <1>1. UNCHANGED <<clock, fresh, rot, marker, paid, crashes>> /\ edits' = edits + 1
    BY DEF SchedulePlan, ChangeStatus, GrantBonus, Edit
  <1>2. RotationTypes' /\ RotLocals'
    BY <1>p, <1>1 DEF RotationTypes, RotLocals, Busy
  <1>3. CASE SchedulePlan
    <2>1. PICK p \in Plans : sub' = [sub EXCEPT !.pending = p]
      BY <1>3 DEF SchedulePlan
    <2>2. sub' \in Subscriptions /\ sub'.start = sub.start /\ period' = period
      BY <1>3, <1>p, <2>1 DEF SchedulePlan, Subscriptions
    <2>3. ~GrantBonus \/ sub' = sub
      BY DEF GrantBonus
    <2> QED BY <1>p, <1>q, <1>1, <1>2, <2>2, <2>3 DEF PeriodTypes
  <1>4. CASE ChangeStatus
    <2>1. sub' = [sub EXCEPT !.active = ~@] /\ period' = period
      BY <1>4 DEF ChangeStatus
    <2>2. sub' \in Subscriptions /\ sub'.start = sub.start
      BY <1>p, <2>1 DEF Subscriptions
    <2>3. ~GrantBonus \/ sub' = sub
      BY DEF GrantBonus
    <2> QED BY <1>p, <1>q, <1>1, <1>2, <2>1, <2>2, <2>3 DEF PeriodTypes
  <1>5. CASE GrantBonus
    <2> DEFINE row == [period[clock] EXCEPT !.bonus = @ + 1]
    <2>1. row \in PeriodRows /\ SameRow(period[clock], row)
      BY <1>p, RowUpdates
    <2>2. period' = [period EXCEPT ![clock] = row] /\ sub' = sub
      BY <1>5, <1>p DEF GrantBonus
    <2> HIDE DEF row
    <2>3. period' \in [Months -> PeriodRows] /\ \A m \in Months : SameRow(period[m], period'[m])
      BY <1>p, <2>1, <2>2, UpdateEffect
    <2> QED BY <1>p, <1>1, <1>2, <2>2, <2>3 DEF PeriodTypes
  <1> QED BY <1>3, <1>4, <1>5

-----------------------------------------------------------------------------
(* Type correctness *)

LEMMA InitTyped == Init => Typed
  <1> SUFFICES ASSUME Init PROVE Typed
    OBVIOUS
  <1> USE DEF Init
  <1>1. 0 \in Months
    BY DEF Months
  <1>2. sub \in Subscriptions
    <2> DEFINE effs == {0} \cup {PlanOps[p] : p \in Plans}
    <2>1. effs \subseteq Nat
      OBVIOUS
    <2>2. sub \in [start : Months \cap {0, 1}, plan : Plans, pending : {None}, eff : effs,
                   active : {TRUE}]
      BY DEF InitPeriods
    <2> HIDE DEF effs
    <2> QED BY <2>1, <2>2 DEF Subscriptions
  <1>3. period \in [Months -> PeriodRows]
    <2>1. CASE period = NoRows
      BY <2>1, NoRowsType
    <2>2. CASE period = [NoRows EXCEPT ![sub.start] = OpenRow(NoRows, sub.start, sub.plan)]
      BY <1>2, <2>2, NoRowsType, SubFields, OpenRowType
    <2> QED BY <2>1, <2>2 DEF InitPeriods
  <1>4. fresh \in [Txs -> [Months -> PeriodRows]]
    BY NoRowsType DEF InitPeriods
  <1>5. PeriodTypes
    BY <1>1, <1>2, <1>3, <1>4 DEF InitPeriods, PeriodTypes
  <1>6. LedgerTypes
    BY IdleCallType DEF InitLedger, LedgerTypes, NoEntry
  <1>7. CallLocals
    BY IdleCallType DEF InitLedger, CallLocals
  <1>8. BudgetTypes
    BY DEF InitBudget, BudgetTypes, AskRows, IdleAsk, NoHold
  <1>9. AskLocals
    <2>1. \A a \in Asks : ask[a].pc = "idle" /\ ask[a].cost = 0 /\ ReserveOf[a] \in Nat
      BY DEF InitBudget, IdleAsk
    <2> QED BY <2>1 DEF AskLocals
  <1>10. RotationTypes
    BY <1>1, IdleRotatorType DEF InitRotation, RotationTypes
  <1>11. RotLocals
    <2>1. \A r \in Rotators : rot[r].pc = "idle"
      BY IdleRotatorType DEF InitRotation
    <2> QED BY <2>1 DEF RotLocals, Busy
  <1> QED BY <1>5, <1>6, <1>7, <1>8, <1>9, <1>10, <1>11 DEF Typed, TypeOK

\* Every step of the system, by who takes it: what it leaves alone and what it writes.
LEMMA CallStepEffect ==
  ASSUME Typed, NEW c \in Calls, Authenticate(c) \/ CallStep(c) \/ Abort(c)
  PROVE  /\ UNCHANGED <<clock, sub>> /\ RowsKeptBy(c)
         /\ PeriodTypes' /\ LedgerTypes' /\ CallLocals'
         /\ \A o \in Calls \ {c} : call'[o] = call[o]
  <1>1. CASE \/ Authenticate(c) \/ Gate(c) \/ GateUnlimited(c) \/ GateMissing(c) \/ Refuse(c)
             \/ Work(c) \/ FindPeriod(c) \/ FindWindow(c) \/ Provisioned(c) \/ InsertLedgerRow(c)
             \/ Bump(c)
    <2>1. /\ UNCHANGED <<clock, sub, period, fresh>> /\ LedgerTypes' /\ CallLocals'
          /\ \A o \in Calls \ {c} : call'[o] = call[o]
      BY <1>1, CallStepTypes DEF periodVars
    <2> QED BY <2>1 DEF RowsKeptBy, Typed, TypeOK, PeriodTypes
  <1>2. CASE \/ \E m \in Months : ProvisionOne(c, m)
             \/ GateProvisioned(c) \/ Duplicate(c) \/ Commit(c) \/ Abort(c)
    BY <1>2, CallWriteTypes
  <1> QED BY <1>1, <1>2 DEF CallStep

\* What any step does to the rows: one transaction's work, or an UPDATE of committed rows.
RowsStep ==
    \/ \E t \in Txs : RowsKeptBy(t)
    \/ UNCHANGED fresh /\ \A m \in Months : SameRow(period[m], period'[m])

LEMMA StepTyped ==
  ASSUME Typed, [Next]_vars
  PROVE  Typed' /\ RowsStep
  <1>p. PeriodTypes /\ LedgerTypes /\ BudgetTypes /\ RotationTypes /\ CallLocals /\ AskLocals
        /\ RotLocals
    BY DEF Typed, TypeOK
  <1>l. ASSUME UNCHANGED ledgerVars PROVE LedgerTypes' /\ CallLocals'
    BY <1>p, <1>l DEF ledgerVars, LedgerTypes, CallLocals
  <1>b. ASSUME UNCHANGED budgetVars PROVE BudgetTypes' /\ AskLocals'
    BY <1>p, <1>b DEF budgetVars, BudgetTypes, AskLocals
  <1>r. ASSUME UNCHANGED rotationVars PROVE RotationTypes' /\ RotLocals'
    BY <1>p, <1>r DEF rotationVars, RotationTypes, RotLocals, Busy
  <1>q. period \in [Months -> PeriodRows] /\ \A m \in Months : SameRow(period[m], period[m])
    BY <1>p, SameRowRefl DEF PeriodTypes
  <1>1. CASE Tick /\ UNCHANGED <<ledgerVars, budgetVars, rotationVars>>
    <2>1. clock' \in Months /\ UNCHANGED <<sub, period, fresh>>
      BY <1>1, <1>p DEF Tick, PeriodTypes, Months
    <2>2. PeriodTypes' /\ RowsStep
      BY <1>p, <1>q, <2>1 DEF PeriodTypes, RowsStep
    <2> QED BY <1>1, <1>l, <1>b, <1>r, <2>2 DEF Typed, TypeOK
  <1>2. ASSUME NEW c \in Calls, Authenticate(c) \/ CallStep(c) \/ Abort(c),
               UNCHANGED <<budgetVars, rotationVars>>
        PROVE  Typed' /\ RowsStep
    <2>1. RowsKeptBy(c) /\ PeriodTypes' /\ LedgerTypes' /\ CallLocals' /\ c \in Txs
      BY <1>2, CallStepEffect DEF Txs
    <2> QED BY <1>2, <1>b, <1>r, <2>1 DEF Typed, TypeOK, RowsStep
  <1>3. ASSUME NEW a \in Asks, AskStep(a), UNCHANGED <<ledgerVars, rotationVars>>
        PROVE  Typed' /\ RowsStep
    <2>1. /\ UNCHANGED <<clock, sub, fresh>> /\ period' \in [Months -> PeriodRows]
          /\ \A k \in Months : SameRow(period[k], period'[k])
          /\ BudgetTypes' /\ AskLocals'
      BY <1>3, AskStepTypes
    <2>2. PeriodTypes'
      BY <1>p, <2>1 DEF PeriodTypes
    <2> QED BY <1>3, <1>l, <1>r, <2>1, <2>2 DEF Typed, TypeOK, RowsStep
  <1>4. ASSUME NEW r \in Rotators, RotateStep(r) \/ CrashRotation(r),
               UNCHANGED <<ledgerVars, budgetVars>>
        PROVE  Typed' /\ RowsStep
    <2>1. RowsKeptBy(r) /\ PeriodTypes' /\ RotationTypes' /\ RotLocals' /\ r \in Txs
      BY <1>4, RotationStepTypes DEF Txs
    <2> QED BY <1>4, <1>l, <1>b, <2>1 DEF Typed, TypeOK, RowsStep
  <1>5. CASE (SchedulePlan \/ ChangeStatus \/ GrantBonus) /\ UNCHANGED <<ledgerVars, budgetVars>>
    <2>1. /\ UNCHANGED fresh /\ \A m \in Months : SameRow(period[m], period'[m])
          /\ PeriodTypes' /\ RotationTypes' /\ RotLocals'
      BY <1>5, BackendStepTypes
    <2> QED BY <1>5, <1>l, <1>b, <2>1 DEF Typed, TypeOK, RowsStep
  <1>6. CASE UNCHANGED vars
    <2>1. UNCHANGED periodVars /\ UNCHANGED ledgerVars /\ UNCHANGED budgetVars
          /\ UNCHANGED rotationVars
      BY <1>6 DEF vars
    <2>2. PeriodTypes' /\ RowsStep
      BY <1>p, <1>q, <2>1 DEF PeriodTypes, periodVars, RowsStep
    <2> QED BY <1>l, <1>b, <1>r, <2>1, <2>2 DEF Typed, TypeOK
  <1> QED BY <1>1, <1>2, <1>3, <1>4, <1>5, <1>6 DEF Next, LedgerNext, BudgetNext, RotationNext

\* Every row and every local keeps the type its column or variable declares, whatever
\* operations, LLM calls and rotations race.
THEOREM TypeCorrect == Spec => []TypeOK
  <1>1. Init => Typed
    BY InitTyped
  <1>2. Typed /\ [Next]_vars => Typed'
    BY StepTyped
  <1>3. Typed => TypeOK
    BY DEF Typed
  <1> QED BY <1>1, <1>2, <1>3, PTL DEF Spec

-----------------------------------------------------------------------------
(* Rows are inserted once and kept *)

\* Once committed, a row is there, with its plan and grant, and counts upwards.
Kept(m) == period[m].there => SameRow(period[m], period'[m])

LEMMA RowsStepEffect ==
  ASSUME Typed, Typed', RowsExclusive, RowsStep
  PROVE  /\ RowsExclusive'
         /\ \A m \in Months : Kept(m)
         /\ GrantsCover => GrantsCover'
  <1>p. /\ PeriodTypes /\ period \in [Months -> PeriodRows]
        /\ fresh \in [Txs -> [Months -> PeriodRows]]
        /\ period' \in [Months -> PeriodRows] /\ fresh' \in [Txs -> [Months -> PeriodRows]]
    BY DEF Typed, TypeOK, PeriodTypes
  <1>q. \A m \in Months : SameRow(period[m], period[m])
    BY <1>p, SameRowRefl
  <1>f. \A m \in Months : /\ period[m].llm \in Int /\ period[m].granted \in Nat
                          /\ period'[m].llm \in Int /\ period'[m].granted \in Nat
    BY <1>p, RowFields
  <1>1. CASE UNCHANGED <<period, fresh>>
    BY <1>1, <1>q DEF RowsExclusive, Kept, GrantsCover
  <1>2. ASSUME NEW t \in Txs, NEW m \in Months, NEW p \in Plans,
               InsertPeriod(t, m, p), UNCHANGED period
        PROVE  RowsExclusive' /\ (\A k \in Months : Kept(k)) /\ (GrantsCover => GrantsCover')
    <2>1. /\ \A u \in Txs, k \in Months : u # t \/ k # m => fresh'[u][k] = fresh[u][k]
          /\ \A o \in Txs \ {t} : ~fresh[o][m].there
          /\ \/ fresh' = fresh
             \/ /\ ~period[m].there /\ ~fresh[t][m].there
                /\ fresh'[t][m].there /\ fresh'[t][m].llm <= fresh'[t][m].granted
      BY <1>p, <1>2, InsertEffect
    <2>2. RowsExclusive'
      <3> SUFFICES ASSUME NEW u \in Txs, NEW k \in Months, fresh'[u][k].there
                   PROVE  ~period'[k].there /\ \A v \in Txs \ {u} : ~fresh'[v][k].there
        BY DEF RowsExclusive
      <3>1. CASE k = m
        BY <1>2, <2>1, <3>1 DEF RowsExclusive
      <3>2. CASE k # m
        BY <1>2, <2>1, <3>2 DEF RowsExclusive
      <3> QED BY <3>1, <3>2
    <2>3. ASSUME GrantsCover PROVE GrantsCover'
      <3> SUFFICES ASSUME Unlimited = {}, NEW k \in Months, NEW u \in Txs
                   PROVE  /\ period'[k].llm <= period'[k].granted
                          /\ fresh'[u][k].llm <= fresh'[u][k].granted
        BY DEF GrantsCover
      <3> QED BY <1>2, <2>1, <2>3 DEF GrantsCover
    <2> QED BY <1>2, <1>q, <2>2, <2>3 DEF Kept
  <1>3. ASSUME NEW t \in Txs, Forget(t),
               UNCHANGED period \/ \A m \in Months : SameRow(Seen(t)[m], period'[m])
        PROVE  RowsExclusive' /\ (\A k \in Months : Kept(k)) /\ (GrantsCover => GrantsCover')
    <2>1. /\ \A u \in Txs \ {t} : fresh'[u] = fresh[u]
          /\ \A m \in Months : fresh'[t][m] = NoPeriod
      BY <1>p, <1>3, ForgetEffect
    <2>2. ASSUME NEW m \in Months
          PROVE  Seen(t)[m] = IF fresh[t][m].there THEN fresh[t][m] ELSE period[m]
      BY DEF Seen
    <2>3. ASSUME NEW m \in Months
          PROVE  UNCHANGED period \/ SameRow(Seen(t)[m], period'[m])
      BY <1>3
    <2>4. ASSUME NEW m \in Months, period'[m].there
          PROVE  period[m].there \/ fresh[t][m].there
      BY <2>2, <2>3, <2>4 DEF SameRow
    <2>5. RowsExclusive'
      <3> SUFFICES ASSUME NEW u \in Txs, NEW k \in Months, fresh'[u][k].there
                   PROVE  ~period'[k].there /\ \A v \in Txs \ {u} : ~fresh'[v][k].there
        BY DEF RowsExclusive
      <3>1. u # t /\ fresh[u][k].there
        BY <2>1, NoPeriodType
      <3>2. ~period[k].there /\ \A v \in Txs \ {u} : ~fresh[v][k].there
        BY <3>1 DEF RowsExclusive
      <3>3. \A v \in Txs \ {u} : ~fresh'[v][k].there
        BY <2>1, <3>2, NoPeriodType
      <3> QED BY <2>4, <3>1, <3>2, <3>3
    <2>6. ASSUME NEW k \in Months PROVE Kept(k)
      BY <1>q, <2>2, <2>3 DEF Kept, RowsExclusive
    <2>7. ASSUME GrantsCover PROVE GrantsCover'
      <3> SUFFICES ASSUME Unlimited = {}, NEW k \in Months, NEW u \in Txs
                   PROVE  /\ period'[k].llm <= period'[k].granted
                          /\ fresh'[u][k].llm <= fresh'[u][k].granted
        BY DEF GrantsCover
      <3>1. fresh'[u][k].llm <= fresh'[u][k].granted
        BY <2>1, <2>7, NoPeriodType DEF GrantsCover
      <3>2. Seen(t)[k].llm <= Seen(t)[k].granted /\ period[k].llm <= period[k].granted
        BY <2>2, <2>7 DEF GrantsCover
      <3>3. Seen(t)[k].llm \in Int /\ Seen(t)[k].granted \in Nat
        BY <1>p, SeenType, RowFields
      <3>4. ASSUME SameRow(Seen(t)[k], period'[k]) PROVE period'[k].llm <= period'[k].granted
        BY <1>f, <3>2, <3>3, <3>4 DEF SameRow
      <3> QED BY <2>3, <3>1, <3>2, <3>4
    <2> QED BY <2>5, <2>6, <2>7
  <1>4. CASE UNCHANGED fresh /\ \A m \in Months : SameRow(period[m], period'[m])
    <2>1. RowsExclusive' /\ \A m \in Months : Kept(m)
      BY <1>4 DEF RowsExclusive, Kept, SameRow
    <2>2. ASSUME GrantsCover PROVE GrantsCover'
      <3> SUFFICES ASSUME Unlimited = {}, NEW k \in Months
                   PROVE  /\ period'[k].llm <= period'[k].granted
                          /\ \A u \in Txs : fresh'[u][k].llm <= fresh'[u][k].granted
        BY DEF GrantsCover
      <3>1. /\ \A u \in Txs : fresh'[u][k].llm <= fresh'[u][k].granted
            /\ period[k].llm <= period[k].granted
        BY <1>4, <2>2 DEF GrantsCover
      <3>2. SameRow(period[k], period'[k])
        BY <1>4
      <3> QED BY <1>f, <3>1, <3>2 DEF SameRow
    <2> QED BY <2>1, <2>2
  <1> QED BY <1>1, <1>2, <1>3, <1>4 DEF RowsStep, RowsKeptBy, Published

LEMMA InitRows == Init => RowsExclusive /\ GrantsCover
  <1> SUFFICES ASSUME Init PROVE RowsExclusive /\ GrantsCover
    OBVIOUS
  <1>1. \A t \in Txs, m \in Months : fresh[t][m] = NoPeriod
    BY NoRowsType DEF Init, InitPeriods
  <1>2. ASSUME NEW m \in Months PROVE period[m].llm <= period[m].granted
    <2>1. CASE period = NoRows
      BY <2>1, NoRowsType, NoPeriodType
    <2>2. CASE period = [NoRows EXCEPT ![sub.start] = OpenRow(NoRows, sub.start, sub.plan)]
      <3>1. sub.start \in Months /\ sub.plan \in Plans
        BY InitTyped, SubFields DEF Init, Typed, TypeOK, PeriodTypes
      <3>2. OpenRow(NoRows, sub.start, sub.plan).llm <= OpenRow(NoRows, sub.start, sub.plan).granted
        BY <3>1, NoRowsType, OpenRowType
      <3> QED BY <2>2, <3>1, <3>2, NoRowsType, NoPeriodType
    <2> QED BY <2>1, <2>2 DEF Init, InitPeriods
  <1> QED BY <1>1, <1>2, NoPeriodType DEF RowsExclusive, GrantsCover

LEMMA RowsInductive == Spec => [](Typed /\ RowsExclusive /\ GrantsCover)
  <1>1. Init => Typed /\ RowsExclusive /\ GrantsCover
    BY InitTyped, InitRows
  <1>2. Typed /\ RowsExclusive /\ GrantsCover /\ [Next]_vars
           => (Typed /\ RowsExclusive /\ GrantsCover)'
    BY StepTyped, RowsStepEffect
  <1> QED BY <1>1, <1>2, PTL DEF Spec

\* RowsKept: provisioning by the ledger, by the gate and by rotators at the same boundary
\* never wipes, re-opens or sets back a committed usage period.
THEOREM RowsKeptAlways == Spec => RowsKept
  <1>1. Typed /\ RowsExclusive /\ [Next]_vars =>
           [\A m \in Months : period[m].there =>
              /\ period'[m].there
              /\ period'[m].ops >= period[m].ops
              /\ period'[m].granted = period[m].granted
              /\ period'[m].plan = period[m].plan]_vars
    <2> SUFFICES ASSUME Typed, RowsExclusive, [Next]_vars, NEW m \in Months, period[m].there
                 PROVE  /\ period'[m].there
                        /\ period'[m].ops >= period[m].ops
                        /\ period'[m].granted = period[m].granted
                        /\ period'[m].plan = period[m].plan
      OBVIOUS
    <2>1. Kept(m)
      BY StepTyped, RowsStepEffect
    <2> QED BY <2>1 DEF Kept, SameRow
  <1> QED BY <1>1, RowsInductive, PTL DEF Spec, RowsKept

\* WithinGrant: for any number of concurrent reservations and any rollover, a period's
\* llm_cost_cents stays within the credits it was granted.
THEOREM CreditsNeverExceeded == Spec => []WithinGrant
  <1>1. GrantsCover => WithinGrant
    BY DEF GrantsCover, WithinGrant
  <1> QED BY <1>1, RowsInductive, PTL

-----------------------------------------------------------------------------
(* Two rotators never charge the same month twice *)

\* What a step of a rotation does to its own locals, the subscription and the money.
Started(r) ==
    /\ \A q \in Rotators : ~Busy(q)
    /\ rot'[r].pc = "capture" /\ rot'[r].sub = sub /\ rot'[r].now = clock /\ sub.start < clock
    /\ UNCHANGED <<sub, period, fresh, paid, crashes>>
Captured(r) ==
    /\ rot[r].pc = "capture" /\ rot'[r].pc = "advance"
    /\ rot'[r].sub = rot[r].sub /\ rot'[r].now = rot[r].now
    /\ paid' = paid \/ Charge(r, rot[r].sub.start)
    /\ UNCHANGED <<sub, period, fresh, crashes>>
Advanced(r) ==
    /\ rot[r].pc = "advance" /\ rot'[r].pc \in {"capture", "commit"}
    /\ rot[r].sub.start < rot[r].now
    /\ rot'[r].sub.start = rot[r].sub.start + 1 /\ rot'[r].now = rot[r].now
    /\ \E p \in Plans : InsertPeriod(r, rot[r].sub.start + 1, p)
    /\ UNCHANGED <<sub, period, paid, crashes>>
Committed(r) ==
    /\ rot[r].pc = "commit" /\ rot'[r].pc = "idle"
    /\ sub' = rot[r].sub /\ period' = Seen(r) /\ Forget(r)
    /\ UNCHANGED <<paid, crashes>>
Crashed(r) ==
    /\ Busy(r) /\ rot'[r].pc = "idle" /\ Forget(r)
    /\ crashes' = crashes + 1 /\ UNCHANGED <<sub, period, paid>>

LEMMA RotStepShape ==
  ASSUME Typed, NEW r \in Rotators, RotateStep(r) \/ CrashRotation(r)
  PROVE  Started(r) \/ Captured(r) \/ Advanced(r) \/ Committed(r) \/ Crashed(r)
  <1>p. /\ RotationTypes /\ RotLocals /\ rot \in [Rotators -> RotRows] /\ rot[r] \in RotRows
    BY RotFields DEF Typed, TypeOK, RotationTypes
  <1>1. CASE StartRotation(r)
    <2>1. \A q \in Rotators : ~Busy(q)
      BY <1>1 DEF StartRotation, SubLocked, Busy
    <2>2. rot'[r] = [pc |-> "capture", now |-> clock, steps |-> 0, marks |-> {}, sub |-> sub]
      BY <1>1, <1>p DEF StartRotation
    <2> QED BY <1>1, <2>1, <2>2 DEF StartRotation, Started, Overdue, periodVars
  <1>2. CASE Capture(r)
    <2>1. \/ rot' = [rot EXCEPT ![r].pc = "advance", ![r].marks = @ \cup {rot[r].sub.start}]
          \/ rot' = [rot EXCEPT ![r].pc = "advance"]
      BY <1>2 DEF Capture
    <2>2. \/ rot'[r] = [rot[r] EXCEPT !.pc = "advance",
                                      !.marks = rot[r].marks \cup {rot[r].sub.start}]
          \/ rot'[r] = [rot[r] EXCEPT !.pc = "advance"]
      BY <1>p, <2>1
    <2>3. rot'[r].pc = "advance" /\ rot'[r].sub = rot[r].sub /\ rot'[r].now = rot[r].now
      BY ONLY <1>p, <2>2 DEF RotRows
    <2> QED BY <1>2, <2>3 DEF Capture, Captured, periodVars
  <1>3. CASE CaptureNothing(r)
    <2>1. rot' = [rot EXCEPT ![r].pc = "advance"]
      BY <1>3 DEF CaptureNothing
    <2>2. rot'[r].pc = "advance" /\ rot'[r].sub = rot[r].sub /\ rot'[r].now = rot[r].now
      BY ONLY <1>p, <2>1, r \in Rotators DEF RotRows
    <2> QED BY <1>3, <2>2 DEF CaptureNothing, Captured, periodVars
  <1>4. CASE Advance(r)
    <2> DEFINE next == NextSub(rot[r].sub)
               steps == rot[r].steps + 1
               step == IF next.start < rot[r].now /\ steps < MaxCatchup THEN "capture" ELSE "commit"
    <2>1. /\ rot[r].pc = "advance" /\ InsertPeriod(r, next.start, next.plan)
          /\ rot' = [rot EXCEPT ![r].sub = next, ![r].steps = steps, ![r].pc = step]
          /\ UNCHANGED <<clock, sub, period, marker, paid, crashes, edits>>
      BY <1>4 DEF Advance
    <2>2. rot[r].sub \in Subscriptions /\ rot[r].sub.start < rot[r].now
      BY <1>p, <2>1 DEF RotLocals, Busy
    <2>3. rot[r].sub.start + 1 \in Months
      BY <1>p, <2>2, SubFields, RotFields DEF Months
    <2>4. next.start = rot[r].sub.start + 1 /\ next.plan \in Plans
      BY <2>2, <2>3, NextSubType
    <2>5. step \in {"capture", "commit"}
      OBVIOUS
    <2> HIDE DEF next, steps, step
    <2>6. rot' = [rot EXCEPT ![r] = [rot[r] EXCEPT !.sub = next, !.steps = steps, !.pc = step]]
      BY <1>p, <2>1
    <2>7. rot'[r] = [rot[r] EXCEPT !.sub = next, !.steps = steps, !.pc = step]
      BY <1>p, <2>6
    <2>8. rot'[r].pc = step /\ rot'[r].sub = next /\ rot'[r].now = rot[r].now
      BY ONLY <1>p, <2>7 DEF RotRows
    <2> QED BY <2>1, <2>2, <2>4, <2>5, <2>8 DEF Advanced
  <1>5. CASE CommitRotation(r)
    <2>1. rot'[r].pc = "idle"
      BY <1>5, <1>p, IdleRotatorType DEF CommitRotation
    <2> QED BY <1>5, <2>1 DEF CommitRotation, Committed
  <1>6. CASE CrashRotation(r)
    <2>1. rot'[r].pc = "idle"
      BY <1>6, <1>p, IdleRotatorType DEF CrashRotation
    <2> QED BY <1>6, <2>1 DEF CrashRotation, Crashed, Busy
  <1> QED BY <1>1, <1>2, <1>3, <1>4, <1>5, <1>6 DEF RotateStep

\* Steps of everyone else: the subscription's window and every rotation stay as they are.
LEMMA OthersKeepRotations ==
  ASSUME Typed, [Next]_vars,
         ~\E r \in Rotators : (RotateStep(r) \/ CrashRotation(r)) /\ UNCHANGED <<ledgerVars, budgetVars>>
  PROVE  /\ UNCHANGED <<rot, paid, crashes>> /\ sub'.start = sub.start
         /\ clock' = clock \/ clock' = clock + 1
  <1>1. CASE Tick /\ UNCHANGED <<ledgerVars, budgetVars, rotationVars>>
    BY <1>1 DEF Tick, rotationVars
  <1>2. ASSUME NEW c \in Calls, Authenticate(c) \/ CallStep(c) \/ Abort(c), UNCHANGED rotationVars
        PROVE  UNCHANGED <<clock, sub, rot, paid, crashes>>
    BY <1>2, CallStepEffect DEF rotationVars
  <1>3. ASSUME NEW a \in Asks, AskStep(a), UNCHANGED rotationVars
        PROVE  UNCHANGED <<clock, sub, rot, paid, crashes>>
    BY <1>3, AskStepTypes DEF rotationVars
  <1>4. CASE SchedulePlan \/ ChangeStatus \/ GrantBonus
    BY <1>4, BackendStepTypes
  <1>5. CASE UNCHANGED vars
    BY <1>5 DEF vars, periodVars, rotationVars
  <1> QED BY <1>1, <1>2, <1>3, <1>4, <1>5 DEF Next, LedgerNext, BudgetNext, RotationNext

LEMMA OneRotatorStep ==
  ASSUME Typed, Typed', OneRotator, [Next]_vars
  PROVE  OneRotator'
  <1>m. /\ sub.start \in Int /\ clock \in Int
        /\ \A r \in Rotators : Busy(r) => rot[r].sub.start \in Int /\ rot[r].now \in Int
    BY SubFields, RotFields DEF Typed, TypeOK, PeriodTypes, RotLocals, Months
  <1>1. ASSUME NEW r \in Rotators, RotateStep(r) \/ CrashRotation(r)
        PROVE  OneRotator'
    <2>1. UNCHANGED clock /\ \A q \in Rotators \ {r} : rot'[q] = rot[q]
      BY <1>1, RotationStepTypes
    <2>2. CASE Started(r)
      BY <1>m, <2>1, <2>2 DEF OneRotator, Started, Busy
    <2>3. CASE Captured(r)
      BY <1>m, <2>1, <2>3 DEF OneRotator, Captured, Busy
    <2>4. CASE Advanced(r)
      BY <1>m, <2>1, <2>4 DEF OneRotator, Advanced, Busy
    <2>5. CASE Committed(r) \/ Crashed(r)
      BY <1>m, <2>1, <2>5 DEF OneRotator, Committed, Crashed, Busy
    <2> QED BY <1>1, <2>2, <2>3, <2>4, <2>5, RotStepShape
  <1>2. CASE ~\E r \in Rotators :
               (RotateStep(r) \/ CrashRotation(r)) /\ UNCHANGED <<ledgerVars, budgetVars>>
    <2>1. /\ UNCHANGED <<rot, paid, crashes>> /\ sub'.start = sub.start
          /\ clock' = clock \/ clock' = clock + 1
      BY <1>2, OthersKeepRotations
    <2> QED BY <1>m, <2>1 DEF OneRotator, Busy
  <1> QED BY <1>1, <1>2

LEMMA ChargesStep ==
  ASSUME Typed, OneRotator, ChargesAccounted, [Next]_vars
  PROVE  ChargesAccounted'
  <1>m. /\ sub.start \in Int /\ crashes \in Nat
        /\ \A r \in Rotators : Busy(r) => rot[r].sub.start \in Months
        /\ \A m \in Months : m \in Int /\ paid[m].times \in Nat
        /\ paid \in [Months -> [times : Nat, ops : Nat]]
    BY SubFields DEF Typed, TypeOK, PeriodTypes, RotLocals, RotationTypes, Months
  <1>k. ASSUME \A m \in Months : MayBeCharged(m) => MayBeCharged(m)', UNCHANGED <<paid, crashes>>
        PROVE  ChargesAccounted'
    BY <1>m, <1>k DEF ChargesAccounted
  <1>1. ASSUME NEW r \in Rotators, RotateStep(r) \/ CrashRotation(r)
        PROVE  ChargesAccounted'
    <2>1. \A q \in Rotators \ {r} : rot'[q] = rot[q]
      BY <1>1, RotationStepTypes
    <2>2. CASE Started(r)
      BY <1>k, <2>1, <2>2 DEF Started, MayBeCharged, Busy
    <2>3. CASE Captured(r)
      <3> DEFINE start == rot[r].sub.start
      <3>1. \A m \in Months : MayBeCharged(m) => MayBeCharged(m)'
        BY <2>1, <2>3 DEF Captured, MayBeCharged, Busy
      <3>2. start \in Months /\ ~MayBeCharged(start) /\ MayBeCharged(start)'
        BY <1>m, <2>3 DEF Captured, MayBeCharged, OneRotator, Busy
      <3>3. CASE paid' = paid
        BY <1>k, <2>3, <3>1, <3>3 DEF Captured
      <3>4. CASE Charge(r, start)
        <4>1. /\ paid'[start].times = paid[start].times + 1
              /\ \A m \in Months \ {start} : paid'[m] = paid[m]
          BY <1>m, <3>2, <3>4 DEF Charge
        <4> QED BY <1>m, <2>3, <3>1, <3>2, <4>1 DEF ChargesAccounted, Captured
      <3> QED BY <2>3, <3>3, <3>4 DEF Captured
    <2>4. CASE Advanced(r)
      <3>1. \A m \in Months : MayBeCharged(m) => MayBeCharged(m)'
        BY <1>m, <2>1, <2>4 DEF Advanced, MayBeCharged, Busy
      <3> QED BY <1>k, <2>4, <3>1 DEF Advanced
    <2>5. CASE Committed(r)
      <3>1. \A m \in Months : MayBeCharged(m) => MayBeCharged(m)'
        BY <1>m, <2>1, <2>5 DEF Committed, MayBeCharged, OneRotator, Busy
      <3> QED BY <1>k, <2>5, <3>1 DEF Committed
    <2>6. CASE Crashed(r)
      BY <1>m, <2>6 DEF Crashed, ChargesAccounted
    <2> QED BY <1>1, <2>2, <2>3, <2>4, <2>5, <2>6, RotStepShape
  <1>2. CASE ~\E r \in Rotators :
               (RotateStep(r) \/ CrashRotation(r)) /\ UNCHANGED <<ledgerVars, budgetVars>>
    <2>1. UNCHANGED <<rot, paid, crashes>> /\ sub'.start = sub.start
      BY <1>2, OthersKeepRotations
    <2> QED BY <1>k, <2>1 DEF MayBeCharged, Busy
  <1> QED BY <1>1, <1>2

LEMMA RotationsInductive == Spec => [](Typed /\ OneRotator /\ ChargesAccounted)
  <1>1. Init => Typed /\ OneRotator /\ ChargesAccounted
    <2> SUFFICES ASSUME Init PROVE Typed /\ OneRotator /\ ChargesAccounted
      OBVIOUS
    <2>1. /\ \A r \in Rotators : ~Busy(r)
          /\ \A m \in Months : paid[m].times = 0 /\ crashes = 0
      BY IdleRotatorType DEF Init, InitRotation, Busy
    <2> QED BY <2>1, InitTyped DEF OneRotator, ChargesAccounted
  <1>2. Typed /\ OneRotator /\ ChargesAccounted /\ [Next]_vars
           => (Typed /\ OneRotator /\ ChargesAccounted)'
    BY StepTyped, OneRotatorStep, ChargesStep
  <1> QED BY <1>1, <1>2, PTL DEF Spec

\* CapturedOnce: a month's overage is taken at most once, however many pollers and
\* endpoint calls rotate the subscription, and once more per rotation that died.
THEOREM MonthsCapturedOnce == Spec => []CapturedOnce
  <1>1. Typed /\ ChargesAccounted => CapturedOnce
    <2> SUFFICES ASSUME Typed, ChargesAccounted, NEW m \in Months
                 PROVE  paid[m].times <= 1 + crashes
      BY DEF CapturedOnce
    <2>1. paid[m].times \in Nat /\ crashes \in Nat
      BY DEF Typed, TypeOK, RotationTypes
    <2>2. paid[m].times <= crashes + (IF MayBeCharged(m) THEN 1 ELSE 0)
      BY DEF ChargesAccounted
    <2> QED BY <2>1, <2>2
  <1> QED BY <1>1, RotationsInductive, PTL

-----------------------------------------------------------------------------
(* What a step of an operation does to its own locals and to the rows *)

Open == InTx \cup {"gate_provision"}
SameRequest(c) == call'[c].since = call[c].since /\ call'[c].limit = call[c].limit

\* in order: it is authenticated, passes the gate, works, finds no period, ends without
\* a transaction, opens one, finds its period, provisions a month, goes on, commits, aborts
Entered(c) ==
    /\ call[c].pc \notin Open /\ call'[c].pc = "gate" /\ call'[c].since = clock
    /\ UNCHANGED <<period, fresh>>
Passed(c) ==
    /\ call[c].pc \notin Open /\ call'[c].pc = "work" /\ SameRequest(c)
    /\ call[c].pc \in {"gate", "regate"} /\ (call[c].limit = 0 \/ period[clock].there)
    /\ UNCHANGED <<period, fresh>>
Worked(c) ==
    /\ call[c].pc = "work" /\ call'[c].pc = "record" /\ SameRequest(c)
    /\ UNCHANGED <<period, fresh>>
FoundNone(c) ==
    /\ call[c].pc = "record" /\ call'[c].pc = "window" /\ SameRequest(c)
    /\ call'[c].now = clock /\ ~period[clock].there
    /\ UNCHANGED <<period, fresh>>
EndedOutside(c) ==
    /\ call[c].pc \notin Open /\ call'[c].pc \in Ended
    /\ call[c].pc = "window" => Windows(sub, call[c].now) = {}
    /\ UNCHANGED <<period, fresh>>
Opened(c) ==
    /\ call[c].pc \in {"gate", "window"} /\ call'[c].pc \in {"provision", "gate_provision"}
    /\ SameRequest(c)
    /\ call'[c].todo = Windows(sub, call'[c].now) /\ Windows(sub, call'[c].now) # {}
    /\ UNCHANGED <<period, fresh>>
Found(c) ==
    /\ call[c].pc = "record" /\ call'[c].pc = "ledger" /\ SameRequest(c)
    /\ call'[c].now = clock /\ period[clock].there
    /\ UNCHANGED <<period, fresh>>
Provisions(c, m) ==
    /\ call[c].pc \in {"provision", "gate_provision"} /\ call'[c].pc = call[c].pc
    /\ SameRequest(c) /\ call'[c].now = call[c].now
    /\ m \in call[c].todo /\ call'[c].todo = call[c].todo \ {m}
    /\ (\E p \in Plans : InsertPeriod(c, m, p)) /\ UNCHANGED period
GoesOn(c) ==
    /\ call[c].pc \in InTx /\ call'[c].pc \in {"ledger", "bump", "commit"}
    /\ SameRequest(c) /\ call'[c].now = call[c].now
    /\ call[c].pc = "provision" => call[c].todo = {}
    /\ UNCHANGED <<period, fresh>>
Closed(c) ==
    /\ call[c].pc \in {"gate_provision", "ledger", "commit"}
    /\ call[c].pc = "gate_provision" => call[c].todo = {}
    /\ call'[c].pc \in Ended \/ (call'[c].pc = "regate" /\ SameRequest(c))
    /\ Published(c)
Aborted(c) ==
    /\ call[c].pc # "window" /\ call'[c].pc \in Ended /\ Forget(c) /\ UNCHANGED period

LEMMA CallStepShape ==
  ASSUME Typed, NEW c \in Calls, Authenticate(c) \/ CallStep(c) \/ Abort(c)
  PROVE  \/ Entered(c) \/ Passed(c) \/ Worked(c) \/ FoundNone(c) \/ EndedOutside(c)
         \/ Opened(c) \/ Found(c) \/ (\E m \in Months : Provisions(c, m))
         \/ GoesOn(c) \/ Closed(c) \/ Aborted(c)
  <1>p. /\ PeriodTypes /\ LedgerTypes /\ CallLocals /\ c \in Txs
        /\ call \in [Calls -> CallRows] /\ call[c] \in CallRows
    BY DEF Typed, TypeOK, LedgerTypes, Txs
  <1>g. ASSUME NEW s, Goto(c, s)
        PROVE  /\ call'[c].pc = s /\ SameRequest(c) /\ call'[c].now = call[c].now
               /\ call'[c].todo = call[c].todo
    <2>1. call'[c] = [call[c] EXCEPT !.pc = s]
      BY <1>p, <1>g DEF Goto
    <2> QED BY ONLY <1>p, <2>1 DEF CallRows, SameRequest
  <1>e. ASSUME NEW s \in Ended, End(c, s) PROVE call'[c].pc \in Ended
    BY <1>p, <1>e, EndEffect
  <1>d. "denied" \in Ended /\ "dropped" \in Ended /\ "duplicate" \in Ended /\ "counted" \in Ended
        /\ "aborted" \in Ended
    BY DEF Ended
  <1>1. CASE Authenticate(c)
    <2>1. call'[c] = [call[c] EXCEPT !.pc = "gate", !.since = clock, !.limit = ResolvedOps(sub)]
      BY <1>1, <1>p DEF Authenticate
    <2>2. call'[c].pc = "gate" /\ call'[c].since = clock
      BY ONLY <1>p, <2>1 DEF CallRows
    <2> QED BY <1>1, <2>2 DEF Authenticate, Entered, Open, InTx, periodVars
  <1>2. CASE Gate(c)
    <2>1. CASE Goto(c, "work")
      BY <1>2, <1>g, <2>1 DEF Gate, Passed, Open, InTx, periodVars
    <2>2. CASE End(c, "denied")
      BY <1>2, <1>d, <1>e, <2>2 DEF Gate, EndedOutside, Open, InTx, periodVars
    <2> QED BY <1>2, <2>1, <2>2 DEF Gate
  <1>3. CASE GateUnlimited(c)
    BY <1>3, <1>g DEF GateUnlimited, Passed, Open, InTx, periodVars
  <1>4. CASE GateMissing(c)
    <2>1. CASE Windows(sub, clock) = {}
      BY <1>4, <1>d, <1>e, <2>1 DEF GateMissing, EndedOutside, Open, InTx, periodVars
    <2>2. CASE Windows(sub, clock) # {}
      <3>1. call' = [call EXCEPT ![c].pc = "gate_provision", ![c].plan = sub.plan,
                                 ![c].now = clock, ![c].todo = Windows(sub, clock)]
        BY <1>4, <2>2 DEF GateMissing
      <3>2. call'[c] = [call[c] EXCEPT !.pc = "gate_provision", !.plan = sub.plan,
                                       !.now = clock, !.todo = Windows(sub, clock)]
        BY <1>p, <3>1
      <3>3. /\ call'[c].pc = "gate_provision" /\ SameRequest(c) /\ call'[c].now = clock
            /\ call'[c].todo = Windows(sub, clock)
        BY ONLY <1>p, <3>2 DEF CallRows, SameRequest
      <3> QED BY <1>4, <2>2, <3>3 DEF GateMissing, Opened, periodVars
    <2> QED BY <2>1, <2>2
  <1>5. CASE Refuse(c)
    BY <1>5, <1>d, <1>e DEF Refuse, EndedOutside, Open, InTx, periodVars
  <1>6. CASE Work(c)
    BY <1>6, <1>g DEF Work, Worked, periodVars
  <1>7. CASE FindPeriod(c)
    <2> DEFINE month == IF period[clock].there THEN clock ELSE None
               step == IF period[clock].there THEN "ledger" ELSE "window"
    <2>1. /\ call[c].pc = "record" /\ UNCHANGED <<periodVars, ledger>>
          /\ call' = [call EXCEPT ![c].now = clock, ![c].month = month, ![c].pc = step]
      BY <1>7 DEF FindPeriod
    <2>2. (step = "ledger" /\ period[clock].there) \/ (step = "window" /\ ~period[clock].there)
      OBVIOUS
    <2> HIDE DEF month, step
    <2>3. call'[c] = [call[c] EXCEPT !.now = clock, !.month = month, !.pc = step]
      BY <1>p, <2>1
    <2>4. call'[c].pc = step /\ SameRequest(c) /\ call'[c].now = clock
      BY ONLY <1>p, <2>3 DEF CallRows, SameRequest
    <2> QED BY <2>1, <2>2, <2>4 DEF Found, FoundNone, periodVars
  <1>8. CASE FindWindow(c)
    <2>1. CASE Windows(sub, call[c].now) = {}
      BY <1>8, <1>d, <1>e, <2>1 DEF FindWindow, EndedOutside, Open, InTx, periodVars
    <2>2. CASE Windows(sub, call[c].now) # {}
      <3>1. call' = [call EXCEPT ![c].pc = "provision", ![c].plan = sub.plan,
                                 ![c].todo = Windows(sub, call[c].now)]
        BY <1>8, <2>2 DEF FindWindow
      <3>2. call'[c] = [call[c] EXCEPT !.pc = "provision", !.plan = sub.plan,
                                       !.todo = Windows(sub, call[c].now)]
        BY <1>p, <3>1
      <3>3. /\ call'[c].pc = "provision" /\ SameRequest(c) /\ call'[c].now = call[c].now
            /\ call'[c].todo = Windows(sub, call[c].now)
        BY ONLY <1>p, <3>2 DEF CallRows, SameRequest
      <3> QED BY <1>8, <2>2, <3>3 DEF FindWindow, Opened, periodVars
    <2> QED BY <2>1, <2>2
  <1>9. ASSUME NEW m \in Months, ProvisionOne(c, m) PROVE Provisions(c, m)
    <2>1. /\ call[c].pc \in {"provision", "gate_provision"} /\ m \in call[c].todo
          /\ InsertPeriod(c, m, call[c].plan) /\ UNCHANGED period
          /\ call' = [call EXCEPT ![c].todo = @ \ {m}]
      BY <1>9 DEF ProvisionOne
    <2>2. call[c].plan \in Plans
      BY <1>p, <2>1 DEF CallLocals
    <2>3. call'[c] = [call[c] EXCEPT !.todo = @ \ {m}]
      BY <1>p, <2>1
    <2>4. /\ call'[c].pc = call[c].pc /\ SameRequest(c) /\ call'[c].now = call[c].now
          /\ call'[c].todo = call[c].todo \ {m}
      BY ONLY <1>p, <2>3 DEF CallRows, SameRequest
    <2> QED BY <2>1, <2>2, <2>4 DEF Provisions
  <1>10. CASE Provisioned(c)
    <2>1. call' = [call EXCEPT ![c].month = call[c].now, ![c].pc = "ledger"]
      BY <1>10 DEF Provisioned
    <2>2. call'[c] = [call[c] EXCEPT !.month = call[c].now, !.pc = "ledger"]
      BY <1>p, <2>1
    <2>3. call'[c].pc = "ledger" /\ SameRequest(c) /\ call'[c].now = call[c].now
      BY ONLY <1>p, <2>2 DEF CallRows, SameRequest
    <2> QED BY <1>10, <2>3 DEF Provisioned, GoesOn, InTx, periodVars
  <1>11. CASE GateProvisioned(c)
    <2>1. Published(c)
      BY <1>11, <1>p, PublishEffect DEF GateProvisioned
    <2> QED BY <1>11, <1>g, <2>1 DEF GateProvisioned, Closed
  <1>12. CASE Duplicate(c)
    <2>1. Published(c)
      BY <1>12, <1>p, PublishEffect DEF Duplicate
    <2>2. call[c].pc = "ledger" /\ End(c, "duplicate")
      BY <1>12 DEF Duplicate
    <2>3. call'[c].pc \in Ended
      BY <1>d, <1>e, <2>2
    <2> QED BY <2>1, <2>2, <2>3 DEF Closed
  <1>13. CASE InsertLedgerRow(c)
    BY <1>13, <1>g DEF InsertLedgerRow, GoesOn, InTx, periodVars
  <1>14. CASE Bump(c)
    <2> DEFINE row == Seen(c)[call[c].month]
               over == OverageOf(row.ops + UnitsOf[c], row, sub)
    <2>1. /\ call[c].pc = "bump" /\ UNCHANGED <<periodVars, ledger>>
          /\ call' = [call EXCEPT ![c].pc = "commit", ![c].over = over]
      BY <1>14 DEF Bump
    <2> HIDE DEF over
    <2>2. call'[c] = [call[c] EXCEPT !.pc = "commit", !.over = over]
      BY <1>p, <2>1
    <2>3. call'[c].pc = "commit" /\ SameRequest(c) /\ call'[c].now = call[c].now
      BY ONLY <1>p, <2>2 DEF CallRows, SameRequest
    <2> QED BY <2>1, <2>3 DEF GoesOn, InTx, periodVars
  <1>15. CASE Commit(c)
    <2>1. Published(c)
      BY <1>15, CommitPublishes
    <2>2. call[c].pc = "commit" /\ End(c, "counted")
      BY <1>15 DEF Commit
    <2>3. call'[c].pc \in Ended
      BY <1>d, <1>e, <2>2
    <2> QED BY <2>1, <2>2, <2>3 DEF Closed
  <1>16. CASE Abort(c)
    BY <1>16, <1>d, <1>e DEF Abort, Aborted, InTx
  <1> QED
    BY <1>1, <1>2, <1>3, <1>4, <1>5, <1>6, <1>7, <1>8, <1>9, <1>10, <1>11, <1>12, <1>13,
       <1>14, <1>15, <1>16 DEF CallStep

-----------------------------------------------------------------------------
(* No hole in the sequence of periods *)

LEMMA SeenThere ==
  ASSUME NEW t \in Txs, NEW k \in Months
  PROVE  Seen(t)[k].there <=> fresh[t][k].there \/ period[k].there
  BY DEF Seen

\* A step writes the uncommitted rows of its own transaction only.
LEMMA TxOwnRows ==
  ASSUME PeriodTypes, NEW t \in Txs, RowsKeptBy(t)
  PROVE  \A u \in Txs \ {t}, m \in Months : fresh'[u][m] = fresh[u][m]
  <1>1. CASE UNCHANGED <<period, fresh>>
    BY <1>1
  <1>2. CASE \E m \in Months, p \in Plans : InsertPeriod(t, m, p) /\ UNCHANGED period
    BY <1>2, InsertEffect
  <1>3. CASE Forget(t)
    BY <1>3, ForgetEffect
  <1> QED BY <1>1, <1>2, <1>3 DEF RowsKeptBy, Published

Grows == \A m \in Months : period[m].there => period'[m].there
SameFresh(t) == \A m \in Months : fresh'[t][m].there = fresh[t][m].there

LEMMA RotatorFillsKept ==
  ASSUME NEW r \in Rotators, RotatorFills(r), Grows, SameFresh(r),
         rot'[r] = rot[r], sub'.start = sub.start
  PROVE  RotatorFills(r)'
  <1>1. ASSUME NEW k \in Months, Seen(r)[k].there PROVE Seen(r)'[k].there
    BY <1>1 DEF Seen, Grows, SameFresh, Txs
  <1> QED BY <1>1 DEF RotatorFills, SameFresh, Busy

\* The subscription's window may move on over months that have a period.
LEMMA CallFillsKept ==
  ASSUME NEW c \in Calls, CallFills(c), Grows, SameFresh(c), call'[c] = call[c],
         sub.start \in Int, sub'.start \in Int, sub.start <= sub'.start,
         \A k \in Months : sub.start < k /\ k <= sub'.start => period'[k].there,
         call[c].todo \subseteq Months
  PROVE  CallFills(c)'
  <1>1. ASSUME NEW k \in Months, Seen(c)[k].there PROVE Seen(c)'[k].there
    BY <1>1 DEF Seen, Grows, SameFresh, Txs
  <1>2. ASSUME NEW m \in Months, \A k \in Months : m < k /\ k <= sub.start => period[k].there
        PROVE  \A k \in Months : m < k /\ k <= sub'.start => period'[k].there
    BY <1>2 DEF Grows, Months
  <1>3. ASSUME NEW k \in Months, sub'.start < k PROVE sub.start < k
    BY <1>3 DEF Months
  <1>4. ASSUME NEW m \in Months, fresh'[c][m].there
        PROVE  /\ call'[c].pc \in InTx \cup {"gate_provision"} /\ m <= call'[c].now
               /\ \A k \in Months : m < k /\ k <= sub'.start => period'[k].there
    BY <1>2, <1>4 DEF CallFills, SameFresh
  <1>5. ASSUME call'[c].pc \in {"provision", "gate_provision"}
        PROVE  /\ \A k \in Months : sub'.start < k /\ k <= call'[c].now /\ k \notin call'[c].todo
                     => Seen(c)'[k].there
               /\ \A m \in call'[c].todo : m <= call'[c].now /\
                     \A k \in Months : m < k /\ k <= sub'.start => period'[k].there
    BY <1>1, <1>2, <1>3, <1>5 DEF CallFills
  <1>6. ASSUME call'[c].pc \in {"ledger", "bump", "commit"}
        PROVE  \A k \in Months : sub'.start < k /\ k <= call'[c].now => Seen(c)'[k].there
    BY <1>1, <1>3, <1>6 DEF CallFills
  <1> QED BY <1>4, <1>5, <1>6 DEF CallFills

LEMMA ContiguousKept ==
  ASSUME Contiguous, sub'.start = sub.start,
         \A m \in Months : period'[m].there = period[m].there
  PROVE  Contiguous'
  BY DEF Contiguous

\* A rotation: the window moves over periods that the rotation has opened on its way.
LEMMA RotationNoHoles ==
  ASSUME Typed, Typed', RowsExclusive, OneRotator, NoHoles,
         NEW r \in Rotators, RotateStep(r) \/ CrashRotation(r), UNCHANGED call
  PROVE  NoHoles'
  <1>p. /\ PeriodTypes /\ r \in Txs /\ Calls \subseteq Txs /\ Rotators \subseteq Txs
        /\ r \notin Calls
        /\ \A c \in Calls : call[c].todo \subseteq Months
        /\ sub.start \in Int /\ sub'.start \in Int /\ \A m \in Months : m \in Int
        /\ Busy(r) => rot[r].sub.start \in Int
    BY CallRowType, SubFields DEF Typed, TypeOK, PeriodTypes, Txs, RotLocals, Months
  <1>q. /\ RowsKeptBy(r) /\ \A q \in Rotators \ {r} : rot'[q] = rot[q]
        /\ \A t \in Txs \ {r} : SameFresh(t)
    BY <1>p, RotationStepTypes, TxOwnRows DEF SameFresh
  <1>g. Grows
    <2>1. RowsStep
      BY <1>p, <1>q DEF RowsStep
    <2> QED BY <2>1, RowsStepEffect DEF Kept, SameRow, Grows
  <1>n. Contiguous /\ RotatorFills(r) /\ (\A q \in Rotators : RotatorFills(q))
        /\ (\A c \in Calls : CallFills(c))
    BY DEF NoHoles
  <1>c. ASSUME sub.start <= sub'.start,
               \A k \in Months : sub.start < k /\ k <= sub'.start => period'[k].there
        PROVE  \A c \in Calls : CallFills(c)'
    BY <1>p, <1>q, <1>g, <1>n, <1>c, CallFillsKept
  <1>o. ASSUME sub'.start = sub.start
        PROVE  /\ \A q \in Rotators \ {r} : RotatorFills(q)'
               /\ \A c \in Calls : CallFills(c)'
    <2>1. \A q \in Rotators \ {r} : RotatorFills(q)'
      BY <1>p, <1>q, <1>g, <1>n, <1>o, RotatorFillsKept
    <2>2. sub.start <= sub'.start
          /\ \A k \in Months : ~(sub.start < k /\ k <= sub'.start)
      BY <1>p, <1>o
    <2> QED BY <1>c, <2>1, <2>2
  <1>1. CASE Started(r)
    <2>1. UNCHANGED <<sub, period, fresh>> /\ rot'[r].sub = sub /\ ~Busy(r)
      BY <1>1 DEF Started
    <2>2. RotatorFills(r)'
      BY <1>p, <1>n, <2>1 DEF RotatorFills
    <2> QED BY <1>n, <1>o, <2>1, <2>2, ContiguousKept DEF NoHoles
  <1>2. CASE Captured(r)
    <2>1. /\ UNCHANGED <<sub, period, fresh>> /\ rot'[r].sub = rot[r].sub
          /\ Busy(r) /\ Busy(r)'
      BY <1>2 DEF Captured, Busy
    <2>2. RotatorFills(r)'
      BY <1>n, <2>1 DEF RotatorFills, Seen
    <2> QED BY <1>n, <1>o, <2>1, <2>2, ContiguousKept DEF NoHoles
  <1>3. CASE Advanced(r)
    <2> DEFINE s == rot[r].sub.start + 1
    <2>1. /\ UNCHANGED <<sub, period>> /\ rot'[r].sub.start = s /\ Busy(r) /\ Busy(r)'
          /\ s \in Months
      <3>1. /\ UNCHANGED <<sub, period>> /\ rot'[r].sub.start = s /\ Busy(r) /\ Busy(r)'
            /\ rot[r].sub.start < rot[r].now
        BY <1>3 DEF Advanced, Busy
      <3>2. rot[r].sub.start \in Months /\ rot[r].now \in Months
        BY <3>1, SubFields, RotFields DEF Typed, TypeOK, RotLocals
      <3> QED BY <3>1, <3>2 DEF Months
    <2>2. PICK p \in Plans : InsertPeriod(r, s, p)
      BY <1>3 DEF Advanced
    <2>3. /\ \A k \in Months : k # s => fresh'[r][k] = fresh[r][k]
          /\ fresh'[r][s].there \/ period[s].there
      BY <1>p, <2>1, <2>2, InsertEffect
    <2>4. sub.start <= rot[r].sub.start
      BY <2>1 DEF OneRotator
    <2>5. ASSUME NEW k \in Months, sub'.start < k, k <= rot'[r].sub.start
          PROVE  Seen(r)'[k].there
      <3>1. CASE k = s
        BY <1>p, <2>1, <2>3, <3>1 DEF Seen
      <3>2. CASE k # s
        <4>1. sub.start < k /\ k <= rot[r].sub.start
          BY <1>p, <2>1, <2>5, <3>2
        <4>2. Seen(r)[k].there
          BY <1>n, <2>1, <4>1 DEF RotatorFills
        <4> QED BY <1>p, <2>1, <2>3, <3>2, <4>2 DEF Seen
      <3> QED BY <3>1, <3>2
    <2>6. ASSUME NEW m \in Months, fresh'[r][m].there
          PROVE  sub'.start < m /\ m <= rot'[r].sub.start
      <3>1. CASE m = s
        BY <1>p, <2>1, <2>4, <3>1
      <3>2. CASE m # s
        <4>1. sub.start < m /\ m <= rot[r].sub.start
          BY <1>n, <2>3, <2>6, <3>2 DEF RotatorFills
        <4> QED BY <1>p, <2>1, <4>1
      <3> QED BY <3>1, <3>2
    <2>7. RotatorFills(r)'
      BY <2>1, <2>5, <2>6 DEF RotatorFills
    <2> QED BY <1>n, <1>o, <2>1, <2>7, ContiguousKept DEF NoHoles
  <1>4. CASE Committed(r)
    <2>1. /\ Busy(r) /\ ~Busy(r)' /\ sub' = rot[r].sub /\ period' = Seen(r) /\ Forget(r)
      BY <1>4 DEF Committed, Busy
    <2>2. sub.start <= sub'.start
      BY <2>1 DEF OneRotator
    <2>3. ASSUME NEW k \in Months
          PROVE  /\ period'[k].there <=> fresh[r][k].there \/ period[k].there
                 /\ fresh[r][k].there => sub.start < k /\ k <= sub'.start
                 /\ sub.start < k /\ k <= sub'.start => period'[k].there
      BY <1>p, <1>n, <2>1, SeenThere DEF RotatorFills
    <2>4. Contiguous'
      <3> SUFFICES ASSUME NEW m \in Months, NEW k \in Months, period'[m].there
                   PROVE  /\ (m <= k /\ k <= sub'.start) => period'[k].there
                          /\ (sub'.start < k /\ k <= m) => period'[k].there
        BY DEF Contiguous
      <3>1. CASE fresh[r][m].there
        BY <1>p, <2>3, <3>1
      <3>2. CASE period[m].there
        <4>1. /\ (m <= k /\ k <= sub.start) => period[k].there
              /\ (sub.start < k /\ k <= m) => period[k].there
          BY <1>n, <3>2 DEF Contiguous
        <4> QED BY <1>p, <2>2, <2>3, <4>1
      <3> QED BY <2>3, <3>1, <3>2
    <2>5. \A c \in Calls : CallFills(c)'
      BY <1>c, <2>2, <2>3
    <2>6. \A q \in Rotators : ~Busy(q)' /\ \A m \in Months : ~fresh'[q][m].there
      <3>1. \A m \in Months : ~fresh'[r][m].there
        BY <1>p, <2>1, ForgetEffect, NoPeriodType
      <3>2. ASSUME NEW q \in Rotators \ {r} PROVE ~Busy(q)' /\ \A m \in Months : ~fresh'[q][m].there
        <4>1. ~Busy(q)
          BY <2>1 DEF OneRotator
        <4>2. \A m \in Months : ~fresh[q][m].there
          BY <1>n, <4>1 DEF RotatorFills
        <4> QED BY <1>p, <1>q, <4>1, <4>2 DEF SameFresh, Busy
      <3> QED BY <2>1, <3>1, <3>2
    <2>7. \A q \in Rotators : RotatorFills(q)'
      BY <2>6 DEF RotatorFills
    <2> QED BY <2>4, <2>5, <2>7 DEF NoHoles
  <1>5. CASE Crashed(r)
    <2>1. UNCHANGED <<sub, period>> /\ Forget(r) /\ ~Busy(r)'
      BY <1>5 DEF Crashed, Busy
    <2>2. \A m \in Months : ~fresh'[r][m].there
      BY <1>p, <2>1, ForgetEffect, NoPeriodType
    <2>3. RotatorFills(r)'
      BY <2>1, <2>2 DEF RotatorFills
    <2> QED BY <1>n, <1>o, <2>1, <2>3, ContiguousKept DEF NoHoles
  <1> QED BY <1>1, <1>2, <1>3, <1>4, <1>5, RotStepShape

\* An operation: what it provisions reaches down to the window or to the rows below it.
LEMMA CallNoHoles ==
  ASSUME Typed, Typed', RowsExclusive, NoHoles,
         NEW c \in Calls, Authenticate(c) \/ CallStep(c) \/ Abort(c), UNCHANGED rot
  PROVE  NoHoles'
  <1>p. /\ PeriodTypes /\ c \in Txs /\ Calls \subseteq Txs /\ Rotators \subseteq Txs
        /\ c \notin Rotators
        /\ \A o \in Calls : call[o].todo \subseteq Months /\ call[o].now \in Months
        /\ call'[c].now \in Months
        /\ sub.start \in Months /\ clock \in Months /\ sub \in Subscriptions
        /\ \A m \in Months : m \in Int
    <2>1. \A o \in Calls : call[o].todo \subseteq Months /\ call[o].now \in Months
      BY CallRowType DEF Typed, TypeOK
    <2>2. LedgerTypes'
      BY DEF Typed, TypeOK
    <2>3. call'[c].now \in Months
      BY <2>2 DEF LedgerTypes, CallRows
    <2> QED BY <2>1, <2>3, SubFields DEF Typed, TypeOK, PeriodTypes, Txs, Months
  <1>q. /\ UNCHANGED <<clock, sub>> /\ RowsKeptBy(c)
        /\ \A o \in Calls \ {c} : call'[o] = call[o]
        /\ \A t \in Txs \ {c} : SameFresh(t)
    BY <1>p, CallStepEffect, TxOwnRows DEF SameFresh
  <1>g. Grows
    <2>1. RowsStep
      BY <1>p, <1>q DEF RowsStep
    <2> QED BY <2>1, RowsStepEffect DEF Kept, SameRow, Grows
  <1>n. Contiguous /\ CallFills(c) /\ (\A r \in Rotators : RotatorFills(r))
        /\ (\A o \in Calls : CallFills(o))
    BY DEF NoHoles
  <1>k. ASSUME Contiguous', CallFills(c)' PROVE NoHoles'
    <2>1. \A r \in Rotators : RotatorFills(r)'
      BY <1>p, <1>q, <1>g, <1>n, RotatorFillsKept
    <2>2. ASSUME NEW o \in Calls \ {c} PROVE CallFills(o)'
      <3>1. sub.start \in Int /\ sub'.start = sub.start
        BY <1>p, <1>q
      <3>2. sub.start <= sub'.start /\ \A k \in Months : ~(sub.start < k /\ k <= sub'.start)
        BY <1>p, <3>1
      <3> QED BY <1>p, <1>q, <1>g, <1>n, <3>1, <3>2, CallFillsKept
    <2> QED BY <1>k, <2>1, <2>2 DEF NoHoles
  <1>s. ASSUME UNCHANGED period PROVE Contiguous'
    BY <1>q, <1>n, <1>s, ContiguousKept
  <1>f. ASSUME call[c].pc \notin Open PROVE \A m \in Months : ~fresh[c][m].there
    BY <1>n, <1>f DEF CallFills, Open
  <1>e. ASSUME \A m \in Months : ~fresh'[c][m].there,
               call'[c].pc \notin InTx \cup {"gate_provision"}
        PROVE  CallFills(c)'
    BY <1>e DEF CallFills, InTx
  <1>1. CASE Entered(c) \/ Passed(c) \/ Worked(c) \/ FoundNone(c) \/ EndedOutside(c)
    <2>1. UNCHANGED <<period, fresh>> /\ call[c].pc \notin Open
          /\ call'[c].pc \notin InTx \cup {"gate_provision"}
      BY <1>1 DEF Entered, Passed, Worked, FoundNone, EndedOutside, Open, InTx, Ended
    <2> QED BY <1>k, <1>s, <1>f, <1>e, <2>1
  <1>2. CASE Opened(c)
    <2> DEFINE now == call'[c].now
    <2>1. /\ UNCHANGED <<period, fresh>> /\ call[c].pc \notin Open
          /\ call'[c].pc \in {"provision", "gate_provision"}
          /\ call'[c].todo = Windows(sub, now) /\ Windows(sub, now) # {}
      BY <1>2 DEF Opened, Open, InTx
    <2>2. /\ call'[c].todo \subseteq Months
          /\ \A m \in call'[c].todo : m <= now /\ sub.start <= m
          /\ \A k \in Months : sub.start < k /\ k <= now => k \in call'[c].todo
      BY <1>p, <2>1, WindowsType
    <2>3. \A m \in Months : ~fresh'[c][m].there
      BY <1>f, <2>1
    <2>4. ASSUME NEW m \in call'[c].todo
          PROVE  m <= now /\ \A k \in Months : ~(m < k /\ k <= sub.start)
      BY <1>p, <2>2
    <2>5. CallFills(c)'
      BY <1>q, <2>1, <2>2, <2>3, <2>4 DEF CallFills
    <2> QED BY <1>k, <1>s, <2>1, <2>5
  <1>3. CASE Found(c)
    <2>1. /\ UNCHANGED <<period, fresh>> /\ call[c].pc \notin Open
          /\ call'[c].pc = "ledger" /\ call'[c].now = clock /\ period[clock].there
      BY <1>3 DEF Found, Open, InTx
    <2>2. \A m \in Months : ~fresh'[c][m].there
      BY <1>f, <2>1
    <2>3. \A k \in Months : sub.start < k /\ k <= clock => period[k].there
      BY <1>p, <1>n, <2>1 DEF Contiguous
    <2>4. CallFills(c)'
      BY <1>q, <2>1, <2>2, <2>3 DEF CallFills, Seen
    <2> QED BY <1>k, <1>s, <2>1, <2>4
  <1>4. ASSUME NEW m \in Months, Provisions(c, m) PROVE NoHoles'
    <2>1. /\ call[c].pc \in {"provision", "gate_provision"} /\ call'[c].pc = call[c].pc
          /\ call'[c].now = call[c].now
          /\ m \in call[c].todo /\ call'[c].todo = call[c].todo \ {m} /\ UNCHANGED period
      BY <1>4 DEF Provisions
    <2>2. PICK p \in Plans : InsertPeriod(c, m, p)
      BY <1>4 DEF Provisions
    <2>3. /\ \A k \in Months : k # m => fresh'[c][k] = fresh[c][k]
          /\ fresh'[c][m].there \/ period[m].there
      BY <1>p, <2>2, InsertEffect
    <2>4. /\ \A k \in Months : sub.start < k /\ k <= call[c].now /\ k \notin call[c].todo
                => Seen(c)[k].there
          /\ \A k \in call[c].todo : k <= call[c].now /\
                \A x \in Months : k < x /\ x <= sub.start => period[x].there
          /\ \A k \in Months : fresh[c][k].there =>
                /\ k <= call[c].now
                /\ \A x \in Months : k < x /\ x <= sub.start => period[x].there
      BY <1>n, <2>1 DEF CallFills
    <2>5. ASSUME NEW k \in Months, fresh'[c][k].there
          PROVE  /\ call'[c].pc \in InTx \cup {"gate_provision"} /\ k <= call'[c].now
                 /\ \A x \in Months : k < x /\ x <= sub'.start => period'[x].there
      BY <1>q, <2>1, <2>3, <2>4, <2>5 DEF InTx
    <2>6. ASSUME NEW k \in Months, sub'.start < k, k <= call'[c].now, k \notin call'[c].todo
          PROVE  Seen(c)'[k].there
      <3>1. CASE k = m
        BY <2>1, <2>3, <3>1 DEF Seen
      <3>2. CASE k # m
        <4>1. Seen(c)[k].there
          BY <1>q, <2>1, <2>4, <2>6, <3>2
        <4> QED BY <2>1, <2>3, <3>2, <4>1 DEF Seen
      <3> QED BY <3>1, <3>2
    <2>7. CallFills(c)'
      <3>1. \A k \in call'[c].todo : k <= call'[c].now /\
                \A x \in Months : k < x /\ x <= sub'.start => period'[x].there
        BY <1>q, <2>1, <2>4
      <3>2. call'[c].pc \notin {"ledger", "bump", "commit"}
        BY <2>1
      <3> QED BY <2>5, <2>6, <3>1, <3>2 DEF CallFills
    <2> QED BY <1>k, <1>s, <2>1, <2>7
  <1>5. CASE GoesOn(c)
    <2>1. /\ UNCHANGED <<period, fresh>> /\ call[c].pc \in InTx
          /\ call'[c].pc \in {"ledger", "bump", "commit"} /\ call'[c].now = call[c].now
          /\ call[c].pc = "provision" => call[c].todo = {}
      BY <1>5 DEF GoesOn
    <2>2. \A k \in Months : sub.start < k /\ k <= call[c].now => Seen(c)[k].there
      BY <1>n, <2>1 DEF CallFills, InTx
    <2>3. CallFills(c)'
      <3>1. \A m \in Months : fresh[c][m].there =>
              /\ m <= call[c].now
              /\ \A k \in Months : m < k /\ k <= sub.start => period[k].there
        BY <1>n DEF CallFills
      <3>2. call'[c].pc \in InTx
        BY <2>1 DEF InTx
      <3>3. Seen(c)' = Seen(c)
        BY <2>1 DEF Seen
      <3> QED BY <1>q, <2>1, <2>2, <3>1, <3>2, <3>3 DEF CallFills
    <2> QED BY <1>k, <1>s, <2>1, <2>3
  <1>6. CASE Closed(c)
    <2>1. /\ call[c].pc \in {"gate_provision", "ledger", "commit"}
          /\ call[c].pc = "gate_provision" => call[c].todo = {}
          /\ call'[c].pc \notin InTx \cup {"gate_provision"} /\ Published(c)
      BY <1>6 DEF Closed, InTx, Ended
    <2>2. \A m \in Months : ~fresh'[c][m].there
      BY <1>p, <2>1, ForgetEffect, NoPeriodType DEF Published
    <2>3. ASSUME NEW k \in Months
          PROVE  period'[k].there <=> fresh[c][k].there \/ period[k].there
      BY <1>p, <2>1, SeenThere DEF Published, SameRow
    <2>4. \A k \in Months : sub.start < k /\ k <= call[c].now => Seen(c)[k].there
      BY <1>n, <2>1 DEF CallFills
    <2>5. Contiguous'
      <3> SUFFICES ASSUME NEW m \in Months, NEW k \in Months, period'[m].there
                   PROVE  /\ (m <= k /\ k <= sub.start) => period'[k].there
                          /\ (sub.start < k /\ k <= m) => period'[k].there
        BY <1>q DEF Contiguous
      <3>1. CASE fresh[c][m].there
        <4>1. m <= call[c].now
              /\ \A x \in Months : m < x /\ x <= sub.start => period[x].there
          BY <1>n, <3>1 DEF CallFills
        <4>2. call[c].now \in Int /\ m \in Int /\ k \in Int
          BY <1>p
        <4>3. ASSUME m <= k, k <= sub.start PROVE period'[k].there
          BY <2>3, <4>1, <4>2, <4>3
        <4>4. ASSUME sub.start < k, k <= m PROVE period'[k].there
          BY <1>p, <2>3, <2>4, <4>1, <4>2, <4>4, SeenThere
        <4> QED BY <4>3, <4>4
      <3>2. CASE period[m].there
        BY <1>n, <2>3, <3>2 DEF Contiguous
      <3> QED BY <2>3, <3>1, <3>2
    <2> QED BY <1>k, <1>e, <2>1, <2>2, <2>5
  <1>7. CASE Aborted(c)
    <2>1. \A m \in Months : ~fresh'[c][m].there
      BY <1>p, <1>7, ForgetEffect, NoPeriodType DEF Aborted
    <2>2. UNCHANGED period /\ call'[c].pc \notin InTx \cup {"gate_provision"}
      BY <1>7 DEF Aborted, Ended, InTx
    <2> QED BY <1>k, <1>s, <1>e, <2>1, <2>2
  <1> QED BY <1>1, <1>2, <1>3, <1>4, <1>5, <1>6, <1>7, CallStepShape

\* Everyone else leaves the rows that are there, and the subscription's window.
LEMMA OthersNoHoles ==
  ASSUME Typed, NoHoles, UNCHANGED <<fresh, rot, call>>, sub'.start = sub.start,
         \A m \in Months : period'[m].there = period[m].there
  PROVE  NoHoles'
  <1>p. sub.start \in Int /\ \A o \in Calls : call[o].todo \subseteq Months
    BY CallRowType, SubFields DEF Typed, TypeOK, PeriodTypes, Months
  <1>1. Grows /\ \A t \in Txs : SameFresh(t)
    BY DEF Grows, SameFresh
  <1>2. Calls \subseteq Txs /\ Rotators \subseteq Txs
    BY DEF Txs
  <1>3. sub.start <= sub'.start /\ \A k \in Months : ~(sub.start < k /\ k <= sub'.start)
    BY <1>p DEF Months
  <1>4. \A c \in Calls : CallFills(c)'
    BY <1>p, <1>1, <1>2, <1>3, CallFillsKept DEF NoHoles
  <1>5. \A r \in Rotators : RotatorFills(r)'
    BY <1>1, <1>2, RotatorFillsKept DEF NoHoles
  <1> QED BY <1>4, <1>5, ContiguousKept DEF NoHoles

LEMMA NoHolesStep ==
  ASSUME Typed, Typed', RowsExclusive, OneRotator, NoHoles, [Next]_vars
  PROVE  NoHoles'
  <1>1. CASE Tick /\ UNCHANGED <<ledgerVars, budgetVars, rotationVars>>
    BY <1>1, OthersNoHoles DEF Tick, ledgerVars, rotationVars
  <1>2. ASSUME NEW c \in Calls, Authenticate(c) \/ CallStep(c) \/ Abort(c), UNCHANGED rotationVars
        PROVE  NoHoles'
    BY <1>2, CallNoHoles DEF rotationVars
  <1>3. ASSUME NEW a \in Asks, AskStep(a), UNCHANGED <<ledgerVars, rotationVars>>
        PROVE  NoHoles'
    <2>1. /\ UNCHANGED <<sub, fresh>>
          /\ \A k \in Months : period'[k].there = period[k].there
      BY <1>3, AskStepTypes DEF SameRow
    <2> QED BY <1>3, <2>1, OthersNoHoles DEF ledgerVars, rotationVars
  <1>4. ASSUME NEW r \in Rotators, RotateStep(r) \/ CrashRotation(r), UNCHANGED ledgerVars
        PROVE  NoHoles'
    BY <1>4, RotationNoHoles DEF ledgerVars
  <1>5. CASE (SchedulePlan \/ ChangeStatus \/ GrantBonus) /\ UNCHANGED ledgerVars
    <2>1. /\ UNCHANGED <<fresh, rot>> /\ sub'.start = sub.start
          /\ \A k \in Months : period'[k].there = period[k].there
      BY <1>5, BackendStepTypes DEF SameRow
    <2> QED BY <1>5, <2>1, OthersNoHoles DEF ledgerVars
  <1>6. CASE UNCHANGED vars
    BY <1>6, OthersNoHoles DEF vars, periodVars, ledgerVars, rotationVars
  <1> QED BY <1>1, <1>2, <1>3, <1>4, <1>5, <1>6 DEF Next, LedgerNext, BudgetNext, RotationNext

LEMMA InitNoHoles == Init => OneRotator /\ NoHoles
  <1> SUFFICES ASSUME Init PROVE OneRotator /\ NoHoles
    OBVIOUS
  <1>1. (\A r \in Rotators : ~Busy(r)) /\ \A c \in Calls : call[c].pc = "idle"
    BY IdleRotatorType, IdleCallType DEF Init, InitRotation, InitLedger, Busy
  <1>2. \A t \in Txs, m \in Months : ~fresh[t][m].there
    BY NoRowsType, NoPeriodType DEF Init, InitPeriods
  <1>3. \A m \in Months : period[m].there => m = sub.start
    <2>1. sub.start \in Months
      BY InitTyped, SubFields DEF Typed, TypeOK, PeriodTypes
    <2>2. CASE period = NoRows
      BY <2>2, NoRowsType, NoPeriodType
    <2>3. CASE period = [NoRows EXCEPT ![sub.start] = OpenRow(NoRows, sub.start, sub.plan)]
      BY <2>1, <2>3, NoRowsType, NoPeriodType
    <2> QED BY <2>2, <2>3 DEF Init, InitPeriods
  <1>4. Contiguous
    BY <1>3 DEF Contiguous, Months
  <1>5. (\A r \in Rotators : RotatorFills(r)) /\ \A c \in Calls : CallFills(c)
    BY <1>1, <1>2 DEF RotatorFills, CallFills, Txs
  <1> QED BY <1>1, <1>4, <1>5 DEF NoHoles, OneRotator

LEMMA HolesInductive == Spec => [](Typed /\ RowsExclusive /\ OneRotator /\ NoHoles)
  <1>1. Init => Typed /\ RowsExclusive /\ OneRotator /\ NoHoles
    BY InitTyped, InitRows, InitNoHoles
  <1>2. Typed /\ RowsExclusive /\ OneRotator /\ NoHoles /\ [Next]_vars
           => (Typed /\ RowsExclusive /\ OneRotator /\ NoHoles)'
    BY StepTyped, RowsStepEffect, OneRotatorStep, NoHolesStep
  <1> QED BY <1>1, <1>2, PTL DEF Spec

\* NoGap: between two usage periods there is one for every month, whether the ledger, the
\* gate or a rotator that catches up opened them, and in whichever order they committed.
THEOREM PeriodsContiguous == Spec => []NoGap
  <1>1. NoHoles /\ Typed => NoGap
    <2> SUFFICES ASSUME NoHoles, Typed, NEW a \in Months, NEW b \in Months, period[a].there,
                        period[b].there, NEW m \in a..b
                 PROVE  period[m].there
      BY DEF NoGap
    <2>1. m \in Months /\ sub.start \in Int /\ a <= m /\ m <= b
      BY SubFields DEF Typed, TypeOK, PeriodTypes, Months
    <2>2. m <= sub.start \/ sub.start < m
      BY <2>1 DEF Months
    <2> QED BY <2>1, <2>2 DEF NoHoles, Contiguous
  <1> QED BY <1>1, HolesInductive, PTL

-----------------------------------------------------------------------------
(* Nothing that was admitted runs for free *)

LEMMA AdmittedStep ==
  ASSUME Typed, Typed', RowsExclusive, OneRotator, Admitted, [Next]_vars
  PROVE  Admitted'
  <1>p. /\ sub.start \in Int /\ clock \in Int /\ \A c \in Calls : call[c].since \in Int
        /\ clock \in Months
    BY CallRowType, SubFields DEF Typed, TypeOK, PeriodTypes, Months
  <1>g. Grows
    BY StepTyped, RowsStepEffect DEF Kept, SameRow, Grows
  <1>a. /\ \A c \in Running : call[c].since = clock \/ call[c].since + 1 = clock
        /\ sub.start <= clock \/ sub.start = 1
        /\ \A c \in Calls : call[c].limit > 0 =>
              /\ call[c].pc \in {"work", "record"} /\ call[c].since = clock => period[clock].there
              /\ call[c].pc = "window" => call[c].now = clock /\ call[c].since + 1 = clock
    BY DEF Admitted
  \* a step that leaves the calls and the clock alone
  <1>k. ASSUME UNCHANGED <<clock, call>>, sub'.start <= clock \/ sub'.start = 1
        PROVE  Admitted'
    BY <1>a, <1>g, <1>k, <1>p DEF Admitted, Running, Grows
  <1>1. CASE Brisk /\ Tick /\ UNCHANGED <<ledgerVars, budgetVars, rotationVars>>
    <2>1. clock' = clock + 1 /\ UNCHANGED <<sub, period, fresh, call>>
      BY <1>1 DEF Tick, ledgerVars
    <2>2. \A c \in Running : call[c].since = clock
      BY <1>1 DEF Brisk
    <2>3. ASSUME NEW c \in Calls, call[c].pc \in {"work", "record", "window"}
          PROVE  call[c].since = clock
      BY <2>2, <2>3 DEF Running, Ended
    <2>4. \A c \in Calls : call[c].limit > 0 => call[c].pc # "window"
      BY <1>a, <1>p, <2>3
    <2>5. \A c \in Calls : call[c].pc \in {"work", "record"} => call[c].since # clock'
      BY <1>p, <2>1, <2>3
    <2>6. sub'.start <= clock' \/ sub'.start = 1
      BY <1>a, <1>p, <2>1
    <2>7. \A c \in Running' : call'[c].since + 1 = clock'
      BY <2>1, <2>2 DEF Running
    <2> QED BY <2>1, <2>4, <2>5, <2>6, <2>7 DEF Admitted
  <1>2. ASSUME NEW c \in Calls, Authenticate(c) \/ CallStep(c) \/ Abort(c)
        PROVE  Admitted'
    <2>1. UNCHANGED <<clock, sub>> /\ \A o \in Calls \ {c} : call'[o] = call[o]
      BY <1>2, CallStepEffect
    <2>k. ASSUME c \in Running' => call'[c].since = clock \/ call'[c].since + 1 = clock,
                 call'[c].limit > 0 =>
                    /\ call'[c].pc \in {"work", "record"} /\ call'[c].since = clock
                          => period'[clock].there
                    /\ call'[c].pc = "window" => call'[c].now = clock /\ call'[c].since + 1 = clock
          PROVE  Admitted'
      <3>1. ASSUME NEW o \in Running' PROVE call'[o].since = clock' \/ call'[o].since + 1 = clock'
        BY <1>a, <2>1, <2>k, <3>1 DEF Running
      <3>2. ASSUME NEW o \in Calls, call'[o].limit > 0
            PROVE  /\ call'[o].pc \in {"work", "record"} /\ call'[o].since = clock'
                         => period'[clock'].there
                   /\ call'[o].pc = "window" => call'[o].now = clock' /\ call'[o].since + 1 = clock'
        BY <1>a, <1>g, <1>p, <2>1, <2>k, <3>2 DEF Grows
      <3> QED BY <1>a, <2>1, <3>1, <3>2 DEF Admitted
    <2>s. call[c].pc \notin {"idle"} \cup Ended =>
             call[c].since = clock \/ call[c].since + 1 = clock
      BY <1>a DEF Running
    <2>2. CASE Entered(c)
      BY <2>2, <2>k DEF Entered
    <2>3. CASE Passed(c)
      BY <1>g, <1>p, <2>3, <2>k, <2>s DEF Passed, SameRequest, Ended, Grows
    <2>4. CASE Worked(c)
      BY <1>a, <2>4, <2>k, <2>s DEF Worked, SameRequest, Ended
    <2>5. CASE FoundNone(c)
      BY <1>a, <2>5, <2>k, <2>s DEF FoundNone, SameRequest, Ended
    <2>6. CASE EndedOutside(c) \/ Aborted(c)
      BY <2>6, <2>k DEF EndedOutside, Aborted, Running, Ended
    <2>7. CASE Opened(c)
      BY <2>7, <2>k, <2>s DEF Opened, SameRequest, Ended
    <2>8. CASE Found(c)
      BY <2>8, <2>k, <2>s DEF Found, SameRequest, Ended
    <2>9. ASSUME NEW m \in Months, Provisions(c, m) PROVE Admitted'
      BY <2>9, <2>k, <2>s DEF Provisions, SameRequest, Ended
    <2>10. CASE GoesOn(c)
      BY <2>10, <2>k, <2>s DEF GoesOn, SameRequest, Ended, InTx
    <2>11. CASE Closed(c)
      BY <2>11, <2>k, <2>s DEF Closed, SameRequest, Running, Ended
    <2> QED BY <1>2, <2>2, <2>3, <2>4, <2>5, <2>6, <2>7, <2>8, <2>9, <2>10, <2>11, CallStepShape
  <1>3. ASSUME NEW a \in Asks, AskStep(a), UNCHANGED ledgerVars PROVE Admitted'
    BY <1>3, <1>a, <1>k, AskStepTypes DEF ledgerVars
  <1>4. ASSUME NEW r \in Rotators, RotateStep(r) \/ CrashRotation(r), UNCHANGED ledgerVars
        PROVE  Admitted'
    <2>1. UNCHANGED <<clock, call>>
      BY <1>4, RotationStepTypes DEF ledgerVars
    <2>2. CASE Committed(r)
      <3>1. sub'.start <= clock
        <4>1. Busy(r) /\ sub' = rot[r].sub
          BY <2>2 DEF Committed, Busy
        <4>2. rot[r].sub.start <= rot[r].now /\ rot[r].now <= clock
          BY <4>1 DEF OneRotator
        <4>3. rot[r].sub.start \in Int /\ rot[r].now \in Int
          BY <4>1, SubFields, RotFields DEF Typed, TypeOK, RotLocals, Months
        <4> QED BY <1>p, <4>1, <4>2, <4>3
      <3> QED BY <1>k, <2>1, <3>1
    <2>3. CASE Started(r) \/ Captured(r) \/ Advanced(r) \/ Crashed(r)
      BY <1>a, <1>k, <2>1, <2>3 DEF Started, Captured, Advanced, Crashed
    <2> QED BY <1>4, <2>2, <2>3, RotStepShape
  <1>5. CASE (SchedulePlan \/ ChangeStatus \/ GrantBonus) /\ UNCHANGED ledgerVars
    BY <1>5, <1>a, <1>k, BackendStepTypes DEF ledgerVars
  <1>6. CASE UNCHANGED vars
    BY <1>6, <1>a, <1>k DEF vars, periodVars, ledgerVars
  <1> QED BY <1>1, <1>2, <1>3, <1>4, <1>5, <1>6 DEF Next, LedgerNext, BudgetNext, RotationNext

LEMMA AdmittedInductive == Spec => [](Typed /\ RowsExclusive /\ OneRotator /\ Admitted)
  <1>1. Init => Typed /\ RowsExclusive /\ OneRotator /\ Admitted
    <2> SUFFICES ASSUME Init PROVE Admitted
      BY InitTyped, InitRows, InitNoHoles
    <2>1. clock = 0 /\ (sub.start = 0 \/ sub.start = 1) /\ \A c \in Calls : call[c].pc = "idle"
      BY IdleCallType DEF Init, InitPeriods, InitLedger
    <2> QED BY <2>1 DEF Admitted, Running
  <1>2. Typed /\ RowsExclusive /\ OneRotator /\ Admitted /\ [Next]_vars
           => (Typed /\ RowsExclusive /\ OneRotator /\ Admitted)'
    BY StepTyped, RowsStepEffect, OneRotatorStep, AdmittedStep
  <1> QED BY <1>1, <1>2, PTL DEF Spec

\* NoFreeOps: a limited operation that passed the gate is dropped without being counted
\* only if the subscription is further behind than provisioning reaches.
THEOREM AdmittedOpsCounted == Spec => NoFreeOps
  <1>1. Typed /\ Admitted /\ [Next]_vars =>
          [\A c \in Calls :
             (call[c].pc = "window" /\ call'[c].pc = "dropped" /\ call[c].limit > 0)
               => clock - sub.start > MaxCatchup]_vars
    <2> SUFFICES ASSUME Typed, Admitted, [Next]_vars, NEW c \in Calls, call[c].pc = "window",
                        call'[c].pc = "dropped", call[c].limit > 0
                 PROVE  clock - sub.start > MaxCatchup
      OBVIOUS
    <2>1. Authenticate(c) \/ CallStep(c) \/ Abort(c)
      <3>1. \A o \in Calls : o # c /\ (Authenticate(o) \/ CallStep(o) \/ Abort(o))
                                => call'[c] = call[c]
        BY CallStepEffect
      <3>2. call' # call /\ call'[c] # call[c]
        OBVIOUS
      <3> QED BY <3>1, <3>2 DEF Next, LedgerNext, vars, ledgerVars
    <2>2. EndedOutside(c)
      BY <2>1, CallStepShape DEF Entered, Passed, Worked, FoundNone, Opened, Found, Provisions,
         GoesOn, Closed, Aborted, Open, InTx
    <2>3. Windows(sub, clock) = {} /\ call[c].since + 1 = clock
      BY <2>2 DEF EndedOutside, Admitted
    <2>4. /\ sub \in Subscriptions /\ clock \in Months /\ sub.start \in Int /\ clock \in Int
          /\ call[c].since \in Nat
      BY CallRowType, SubFields DEF Typed, TypeOK, PeriodTypes, Months
    <2>5. sub.start > clock \/ clock - sub.start > MaxCatchup
      BY <2>3, <2>4, WindowsType
    <2>6. sub.start <= clock
      BY <2>3, <2>4 DEF Admitted
    <2> QED BY <2>4, <2>5, <2>6
  <1> QED BY <1>1, AdmittedInductive, PTL DEF Spec, NoFreeOps

-----------------------------------------------------------------------------

\* The whole inductive invariant.
THEOREM Inductive == Spec => []BillingInv
  <1>1. /\ Typed /\ RowsExclusive /\ GrantsCover /\ OneRotator /\ ChargesAccounted
        /\ NoHoles /\ Admitted
        => BillingInv
    BY DEF BillingInv
  <1> QED
    BY <1>1, RowsInductive, RotationsInductive, HolesInductive, AdmittedInductive, PTL

-----------------------------------------------------------------------------
(* The bill adds up: the counters of the rows and the rows that they       *)
(* aggregate.                                                              *)

-----------------------------------------------------------------------------
(* What a step of an operation does to the money *)

\* The steps that go towards an UPDATE of a period's row.
Enlists(c) ==
    /\ call'[c].pc = "ledger" /\ UNCHANGED <<period, fresh, ledger>>
    /\ \/ call'[c].month = clock /\ period[clock].there
       \/ call[c].pc = "provision" /\ call[c].todo = {} /\ call'[c].month = call[c].now
Inserts(c) ==
    /\ call[c].pc = "ledger" /\ call'[c].pc = "bump" /\ UNCHANGED <<period, fresh, ledger>>
    /\ call'[c].month = call[c].month
    /\ ~Posted(KeyOf[c]) /\ ~KeyHeld(c)
Bumps(c) ==
    LET row == Seen(c)[call[c].month]
    IN  /\ call[c].pc = "bump" /\ call'[c].pc = "commit" /\ UNCHANGED <<period, fresh, ledger>>
        /\ call'[c].month = call[c].month /\ ~RowHeld(call[c].month)
        /\ call'[c].over = OverageOf(row.ops + UnitsOf[c], row, sub)

\* Only FindPeriod, the SELECT after provisioning, the ledger INSERT and the UPDATE lead
\* to the steps before a commit; only a commit writes a ledger row.
LEMMA CallMoneyShape ==
  ASSUME Typed, NEW c \in Calls, Authenticate(c) \/ CallStep(c) \/ Abort(c)
  PROVE  /\ Commit(c) \/ (ledger' = ledger /\ (period' = period \/ period' = Seen(c)))
         /\ call'[c].pc \notin {"ledger", "bump", "commit"} \/ Enlists(c) \/ Inserts(c) \/ Bumps(c)
  <1>p. /\ PeriodTypes /\ LedgerTypes /\ CallLocals /\ c \in Txs
        /\ call \in [Calls -> CallRows] /\ call[c] \in CallRows
    BY DEF Typed, TypeOK, LedgerTypes, Txs
  <1>g. ASSUME NEW s, Goto(c, s)
        PROVE  call'[c].pc = s /\ call'[c].month = call[c].month
    <2>1. call'[c] = [call[c] EXCEPT !.pc = s]
      BY <1>p, <1>g DEF Goto
    <2> QED BY ONLY <1>p, <2>1 DEF CallRows
  <1>e. ASSUME NEW s \in Ended, End(c, s) PROVE call'[c].pc \in Ended
    BY <1>p, <1>e, EndEffect
  <1>d. /\ "denied" \in Ended /\ "dropped" \in Ended /\ "duplicate" \in Ended
        /\ "counted" \in Ended /\ "aborted" \in Ended
        /\ "ledger" \notin Ended /\ "bump" \notin Ended /\ "commit" \notin Ended
    BY DEF Ended
  <1> DEFINE Quiet == ledger' = ledger /\ (period' = period \/ period' = Seen(c))
             Out == call'[c].pc \notin {"ledger", "bump", "commit"}
  <1>1. CASE Authenticate(c)
    <2>1. call'[c] = [call[c] EXCEPT !.pc = "gate", !.since = clock, !.limit = ResolvedOps(sub)]
      BY <1>1, <1>p DEF Authenticate
    <2>2. call'[c].pc = "gate"
      BY ONLY <1>p, <2>1 DEF CallRows
    <2> QED BY <1>1, <2>2 DEF Authenticate, periodVars
  <1>2. CASE Gate(c)
    BY <1>2, <1>g, <1>e, <1>d DEF Gate, periodVars
  <1>3. CASE GateUnlimited(c)
    BY <1>3, <1>g DEF GateUnlimited, periodVars
  <1>4. CASE GateMissing(c)
    <2>1. CASE Windows(sub, clock) = {}
      BY <1>4, <1>d, <1>e, <2>1 DEF GateMissing, periodVars
    <2>2. CASE Windows(sub, clock) # {}
      <3>1. call'[c] = [call[c] EXCEPT !.pc = "gate_provision", !.plan = sub.plan,
                                       !.now = clock, !.todo = Windows(sub, clock)]
        BY <1>4, <1>p, <2>2 DEF GateMissing
      <3>2. call'[c].pc = "gate_provision"
        BY ONLY <1>p, <3>1 DEF CallRows
      <3> QED BY <1>4, <3>2 DEF GateMissing, periodVars
    <2> QED BY <2>1, <2>2
  <1>5. CASE Refuse(c)
    BY <1>5, <1>d, <1>e DEF Refuse, periodVars
  <1>6. CASE Work(c)
    BY <1>6, <1>g DEF Work, periodVars
  <1>7. CASE FindPeriod(c)
    <2> DEFINE month == IF period[clock].there THEN clock ELSE None
               step == IF period[clock].there THEN "ledger" ELSE "window"
    <2>1. /\ call[c].pc = "record" /\ UNCHANGED <<periodVars, ledger>>
          /\ call' = [call EXCEPT ![c].now = clock, ![c].month = month, ![c].pc = step]
      BY <1>7 DEF FindPeriod
    <2>2. \/ step = "ledger" /\ period[clock].there /\ month = clock
          \/ step = "window"
      OBVIOUS
    <2> HIDE DEF month, step
    <2>3. call'[c] = [call[c] EXCEPT !.now = clock, !.month = month, !.pc = step]
      BY <1>p, <2>1
    <2>4. call'[c].pc = step /\ call'[c].month = month
      BY ONLY <1>p, <2>3 DEF CallRows
    <2> QED BY <2>1, <2>2, <2>4 DEF Enlists, periodVars
  <1>8. CASE FindWindow(c)
    <2>1. CASE Windows(sub, call[c].now) = {}
      BY <1>8, <1>d, <1>e, <2>1 DEF FindWindow, periodVars
    <2>2. CASE Windows(sub, call[c].now) # {}
      <3>1. call'[c] = [call[c] EXCEPT !.pc = "provision", !.plan = sub.plan,
                                       !.todo = Windows(sub, call[c].now)]
        BY <1>8, <1>p, <2>2 DEF FindWindow
      <3>2. call'[c].pc = "provision"
        BY ONLY <1>p, <3>1 DEF CallRows
      <3> QED BY <1>8, <3>2 DEF FindWindow, periodVars
    <2> QED BY <2>1, <2>2
  <1>9. ASSUME NEW m \in Months, ProvisionOne(c, m) PROVE Quiet /\ Out
    <2>1. /\ call[c].pc \in {"provision", "gate_provision"}
          /\ call'[c] = [call[c] EXCEPT !.todo = @ \ {m}]
      BY <1>9, <1>p DEF ProvisionOne
    <2>2. call'[c].pc = call[c].pc
      BY ONLY <1>p, <2>1 DEF CallRows
    <2> QED BY <1>9, <2>1, <2>2 DEF ProvisionOne
  <1>10. CASE Provisioned(c)
    <2>1. call'[c] = [call[c] EXCEPT !.month = call[c].now, !.pc = "ledger"]
      BY <1>10, <1>p DEF Provisioned
    <2>2. call'[c].pc = "ledger" /\ call'[c].month = call[c].now
      BY ONLY <1>p, <2>1 DEF CallRows
    <2> QED BY <1>10, <2>2 DEF Provisioned, Enlists, periodVars
  <1>11. CASE GateProvisioned(c)
    BY <1>11, <1>g DEF GateProvisioned
  <1>12. CASE Duplicate(c)
    BY <1>12, <1>d, <1>e DEF Duplicate
  <1>13. CASE InsertLedgerRow(c)
    BY <1>13, <1>g DEF InsertLedgerRow, Inserts, periodVars
  <1>14. CASE Bump(c)
    <2> DEFINE row == Seen(c)[call[c].month]
               over == OverageOf(row.ops + UnitsOf[c], row, sub)
    <2>1. /\ call[c].pc = "bump" /\ UNCHANGED <<periodVars, ledger>> /\ ~RowHeld(call[c].month)
          /\ call' = [call EXCEPT ![c].pc = "commit", ![c].over = over]
      BY <1>14 DEF Bump
    <2> HIDE DEF over
    <2>2. call'[c] = [call[c] EXCEPT !.pc = "commit", !.over = over]
      BY <1>p, <2>1
    <2>3. call'[c].pc = "commit" /\ call'[c].month = call[c].month /\ call'[c].over = over
      BY ONLY <1>p, <2>2 DEF CallRows
    <2> USE DEF over
    <2> QED BY <2>1, <2>3 DEF Bumps, periodVars
  <1>15. CASE Commit(c)
    BY <1>15, <1>d, <1>e DEF Commit
  <1>16. CASE Abort(c)
    BY <1>16, <1>d, <1>e DEF Abort
  <1> QED
    BY <1>1, <1>2, <1>3, <1>4, <1>5, <1>6, <1>7, <1>8, <1>9, <1>10, <1>11, <1>12, <1>13,
       <1>14, <1>15, <1>16 DEF CallStep

-----------------------------------------------------------------------------
(* Rows that are opened are blank, and what is published counts nothing *)

LEMMA OpenRowBlank ==
  ASSUME NEW rows, NEW m, NEW p
  PROVE  Blank(OpenRow(rows, m, p))
  BY DEF Blank, OpenRow

\* A transaction that publishes its rows changes no counter of any month.
LEMMA SeenCounts ==
  ASSUME RowsExclusive, RowsBlank, NEW t \in Txs, NEW m \in Months
  PROVE  /\ Seen(t)[m].ops = period[m].ops /\ Seen(t)[m].overage = period[m].overage
         /\ Seen(t)[m].bonus = period[m].bonus /\ Seen(t)[m].llm = period[m].llm
  <1>1. Seen(t)[m] = IF fresh[t][m].there THEN fresh[t][m] ELSE period[m]
    BY DEF Seen
  <1>2. CASE fresh[t][m].there
    <2>1. ~period[m].there
      BY <1>2 DEF RowsExclusive
    <2>2. Blank(fresh[t][m]) /\ Blank(period[m])
      BY <2>1 DEF RowsBlank
    <2> QED BY <1>1, <1>2, <2>2 DEF Blank
  <1> QED BY <1>1, <1>2

LEMMA FreshStayBlank ==
  ASSUME PeriodTypes, RowsBlank, NEW t \in Txs, RowsKeptBy(t)
  PROVE  \A u \in Txs, m \in Months : Blank(fresh'[u][m])
  <1>0. Blank(NoPeriod)
    BY DEF Blank, NoPeriod
  <1>f. \A u \in Txs, m \in Months : Blank(fresh[u][m])
    BY DEF RowsBlank
  <1>1. CASE UNCHANGED <<period, fresh>>
    BY <1>f, <1>1
  <1>2. ASSUME NEW k \in Months, NEW p \in Plans, InsertPeriod(t, k, p)
        PROVE  \A u \in Txs, m \in Months : Blank(fresh'[u][m])
    <2> DEFINE row == OpenRow(Seen(t), k, p)
    <2>1. Blank(row)
      BY OpenRowBlank
    <2>2. fresh' = fresh \/ fresh' = [fresh EXCEPT ![t][k] = row]
      BY <1>2 DEF InsertPeriod
    <2> HIDE DEF row
    <2>3. ASSUME NEW u \in Txs, NEW m \in Months, fresh' = [fresh EXCEPT ![t][k] = row]
          PROVE  fresh'[u][m] = fresh[u][m] \/ fresh'[u][m] = row
      BY <2>3 DEF PeriodTypes
    <2> QED BY <1>f, <2>1, <2>2, <2>3
  <1>3. CASE Forget(t)
    <2>1. /\ \A u \in Txs \ {t} : fresh'[u] = fresh[u]
          /\ \A m \in Months : fresh'[t][m] = NoPeriod
      BY <1>3, ForgetEffect
    <2> QED BY <1>0, <1>f, <2>1
  <1> QED BY <1>1, <1>2, <1>3 DEF RowsKeptBy, Published

\* What happens to the counters of the committed rows.
SameCounts(m) == /\ period'[m].ops = period[m].ops /\ period'[m].overage = period[m].overage
                 /\ period'[m].bonus = period[m].bonus /\ period'[m].llm = period[m].llm
CountsKept == \A m \in Months : SameCounts(m)

LEMMA PublishedCounts ==
  ASSUME RowsExclusive, RowsBlank, NEW t \in Txs, period' = period \/ period' = Seen(t)
  PROVE  CountsKept
  BY SeenCounts DEF CountsKept, SameCounts

\* The commit of an operation: its month's row, and the rows it opened.
CommitCounts(c) ==
    LET m == call[c].month
    IN  /\ m \in Months /\ period'[m].there = Seen(c)[m].there
        /\ period'[m].ops = period[m].ops + UnitsOf[c] /\ period'[m].overage = call[c].over
        /\ period'[m].bonus = period[m].bonus /\ period'[m].llm = period[m].llm
        /\ \A k \in Months \ {m} : SameCounts(k)

LEMMA CommitCountsOne ==
  ASSUME Typed, RowsExclusive, RowsBlank, NEW c \in Calls, Commit(c)
  PROVE  CommitCounts(c)
  <1> DEFINE m == call[c].month
             row == [Seen(c)[m] EXCEPT !.ops = @ + UnitsOf[c], !.overage = call[c].over]
  <1>p. PeriodTypes /\ LedgerTypes /\ CallLocals /\ c \in Txs
    BY DEF Typed, TypeOK, Txs
  <1>1. /\ period' = [Seen(c) EXCEPT ![m].ops = @ + UnitsOf[c], ![m].overage = call[c].over]
        /\ m \in Months
    BY <1>p DEF Commit, CallLocals
  <1>2. Seen(c) \in [Months -> PeriodRows]
    BY <1>p, SeenType DEF PeriodTypes
  <1>3. period'[m] = row /\ \A k \in Months \ {m} : period'[k] = Seen(c)[k]
    BY <1>1, <1>2
  <1>4. Seen(c)[m] \in PeriodRows
    BY <1>1, <1>2
  <1>5. /\ row.ops = Seen(c)[m].ops + UnitsOf[c] /\ row.overage = call[c].over
        /\ row.there = Seen(c)[m].there /\ row.bonus = Seen(c)[m].bonus /\ row.llm = Seen(c)[m].llm
    BY <1>4 DEF PeriodRows
  <1> HIDE DEF row
  <1>6. \A k \in Months : /\ Seen(c)[k].ops = period[k].ops /\ Seen(c)[k].overage = period[k].overage
                          /\ Seen(c)[k].bonus = period[k].bonus /\ Seen(c)[k].llm = period[k].llm
    BY <1>p, SeenCounts
  <1> QED BY <1>1, <1>3, <1>5, <1>6 DEF CommitCounts, SameCounts

\* An LLM call changes one credit counter at most: it books, releases, or does neither.
LlmBy(m, n) ==
    \A k \in Months :
        /\ period'[k].there = period[k].there /\ period'[k].ops = period[k].ops
        /\ period'[k].overage = period[k].overage /\ period'[k].bonus = period[k].bonus
        /\ period'[k].llm = IF k = m THEN period[k].llm + n ELSE period[k].llm
Books(a) ==
    LET k == AskKeyOf[a]
    IN  /\ ask[a].pc = "found" /\ ask'[a].pc = "held" /\ reserved[k] = NoHold
        /\ reserved' = [reserved EXCEPT ![k] = [month |-> ask[a].month, cents |-> ReserveOf[a]]]
        /\ settled' = settled /\ LlmBy(ask[a].month, ReserveOf[a])
        /\ ask'[a].month = ask[a].month /\ ask'[a].cost = ask[a].cost
Releases(a) ==
    LET k == AskKeyOf[a]
        unspent == ReserveOf[a] - ask[a].cost
    IN  /\ ask[a].pc \in {"answered", "settled"} /\ ask'[a].pc = "settled" /\ settled[k] = NoHold
        /\ unspent # 0
        /\ settled' = [settled EXCEPT ![k] = [month |-> ask[a].month, cents |-> unspent]]
        /\ reserved' = reserved /\ LlmBy(ask[a].month, -unspent)
        /\ ask'[a].month = ask[a].month /\ ask'[a].cost = ask[a].cost
Waits(a) ==
    /\ UNCHANGED <<period, reserved, settled>>
    /\ \/ /\ ask[a].pc \in {"idle", "found"} /\ ask'[a].pc \in {"found", "refused"}
          /\ ask'[a].cost = ask[a].cost
          /\ ask'[a].pc = "found" => ask'[a].month = clock /\ period[clock].there
       \/ /\ ask[a].pc = "held" /\ ask'[a].pc = "answered" /\ ask'[a].month = ask[a].month
       \/ /\ ask[a].pc \in {"held", "answered"} /\ ask'[a].pc = "abandoned"
          /\ ask'[a].month = ask[a].month /\ ask'[a].cost = ask[a].cost
       \/ /\ ask[a].pc \in {"answered", "settled"} /\ ask'[a].pc = "settled"
          /\ ask'[a].month = ask[a].month /\ ask'[a].cost = ask[a].cost
          /\ settled[AskKeyOf[a]] # NoHold \/ ask[a].cost = ReserveOf[a]

LEMMA AskMoneyShape ==
  ASSUME Typed, NEW a \in Asks, AskStep(a)
  PROVE  /\ Books(a) \/ Releases(a) \/ Waits(a)
         /\ \A b \in Asks \ {a} : ask'[b] = ask[b]
  <1>p. /\ period \in [Months -> PeriodRows] /\ ask \in [Asks -> AskRows] /\ ask[a] \in AskRows
        /\ ReserveOf[a] \in Nat /\ ask[a].cost \in Nat
        /\ ask[a].pc \notin {"idle", "refused"} => ask[a].month \in Months
    BY AskRowType DEF Typed, TypeOK, PeriodTypes, BudgetTypes, AskLocals
  <1>t. ASSUME NEW s, AskTo(a, s)
        PROVE  /\ ask'[a].pc = s /\ ask'[a].month = ask[a].month /\ ask'[a].cost = ask[a].cost
               /\ \A b \in Asks \ {a} : ask'[b] = ask[b]
    <2>1. ask'[a] = [ask[a] EXCEPT !.pc = s] /\ \A b \in Asks \ {a} : ask'[b] = ask[b]
      BY <1>p, <1>t DEF AskTo
    <2> QED BY ONLY <1>p, <2>1 DEF AskRows
  <1>l. ASSUME NEW m \in Months, NEW n \in Int, period' = [period EXCEPT ![m].llm = @ + n]
        PROVE  LlmBy(m, n)
    <2> DEFINE row == [period[m] EXCEPT !.llm = @ + n]
    <2>1. period'[m] = row /\ \A k \in Months \ {m} : period'[k] = period[k]
      BY <1>p, <1>l
    <2>2. period[m] \in PeriodRows
      BY <1>p
    <2>3. /\ row.there = period[m].there /\ row.ops = period[m].ops
          /\ row.overage = period[m].overage /\ row.bonus = period[m].bonus
          /\ row.llm = period[m].llm + n
      BY <2>2 DEF PeriodRows
    <2> HIDE DEF row
    <2> QED BY <2>1, <2>3 DEF LlmBy
  <1>1. CASE FindBudget(a)
    <2> DEFINE next == IF (RequestCap # None /\ ReserveOf[a] > RequestCap) \/ ~period[clock].there
                       THEN "refused" ELSE "found"
    <2>1. /\ ask' = [ask EXCEPT ![a].pc = next, ![a].month = clock] /\ ask[a].pc = "idle"
          /\ UNCHANGED <<period, reserved, settled>>
      BY <1>1 DEF FindBudget, periodVars
    <2>2. next = "refused" \/ (next = "found" /\ period[clock].there)
      OBVIOUS
    <2> HIDE DEF next
    <2>3. /\ ask'[a] = [ask[a] EXCEPT !.pc = next, !.month = clock]
          /\ \A b \in Asks \ {a} : ask'[b] = ask[b]
      BY <1>p, <2>1
    <2>4. ask'[a].pc = next /\ ask'[a].month = clock /\ ask'[a].cost = ask[a].cost
      BY ONLY <1>p, <2>3 DEF AskRows
    <2> QED BY <2>1, <2>2, <2>3, <2>4 DEF Waits
  <1>2. CASE Reserve(a)
    <2>1. ask[a].pc = "found" /\ AskTo(a, "held") /\ ask[a].month \in Months
      BY <1>2, <1>p DEF Reserve
    <2>2. LlmBy(ask[a].month, ReserveOf[a])
      <3>1. period' = [period EXCEPT ![ask[a].month].llm = @ + ReserveOf[a]]
        BY <1>2 DEF Reserve, AddCost
      <3>2. ReserveOf[a] \in Int
        BY <1>p
      <3> QED BY <1>l, <2>1, <3>1, <3>2
    <2> QED BY <1>2, <1>t, <2>1, <2>2 DEF Reserve, Books
  <1>3. CASE RefuseReserve(a)
    <2>1. ask[a].pc = "found" /\ AskTo(a, "refused") /\ UNCHANGED <<period, reserved, settled>>
      BY <1>3 DEF RefuseReserve, periodVars
    <2> QED BY <1>t, <2>1 DEF Waits
  <1>4. CASE Answer(a)
    <2>1. PICK cost \in 0..ReserveOf[a] : ask' = [ask EXCEPT ![a].pc = "answered", ![a].cost = cost]
      BY <1>4 DEF Answer
    <2>2. /\ ask'[a] = [ask[a] EXCEPT !.pc = "answered", !.cost = cost]
          /\ \A b \in Asks \ {a} : ask'[b] = ask[b]
      BY <1>p, <2>1
    <2>3. ask'[a].pc = "answered" /\ ask'[a].month = ask[a].month
      BY ONLY <1>p, <2>2 DEF AskRows
    <2> QED BY <1>4, <2>2, <2>3 DEF Answer, Waits, periodVars
  <1>5. CASE AbandonHold(a)
    <2>1. /\ ask[a].pc \in {"held", "answered"} /\ AskTo(a, "abandoned")
          /\ UNCHANGED <<period, reserved, settled>>
      BY <1>5 DEF AbandonHold, periodVars
    <2> QED BY <1>t, <2>1 DEF Waits
  <1>6. CASE Settle(a)
    <2> DEFINE unspent == ReserveOf[a] - ask[a].cost
    <2>1. ask[a].pc \in {"answered", "settled"} /\ AskTo(a, "settled") /\ ask[a].month \in Months
      BY <1>6, <1>p DEF Settle
    <2>2. CASE unspent = 0 \/ settled[AskKeyOf[a]] # NoHold
      <3>1. UNCHANGED <<period, reserved, settled>>
        BY <1>6, <2>2 DEF Settle
      <3>2. settled[AskKeyOf[a]] # NoHold \/ ask[a].cost = ReserveOf[a]
        BY <1>p, <2>2
      <3> QED BY <1>t, <2>1, <3>1, <3>2 DEF Waits
    <2>3. CASE ~(unspent = 0 \/ settled[AskKeyOf[a]] # NoHold)
      <3>1. /\ settled' = [settled EXCEPT ![AskKeyOf[a]] =
                              [month |-> ask[a].month, cents |-> unspent]]
            /\ period' = [period EXCEPT ![ask[a].month].llm = @ - unspent] /\ reserved' = reserved
        BY <1>6, <2>3 DEF Settle, Release
      <3>2. -unspent \in Int /\ unspent \in Int
        BY <1>p
      <3> HIDE DEF unspent
      <3>a. period[ask[a].month].llm \in Int
        BY <1>p, <2>1, RowFields
      <3>3. period' = [period EXCEPT ![ask[a].month].llm = @ + (-unspent)]
        BY <3>1, <3>2, <3>a
      <3>4. LlmBy(ask[a].month, -unspent)
        BY <1>l, <2>1, <3>2, <3>3
      <3> USE DEF unspent
      <3> QED BY <1>t, <2>1, <2>3, <3>1, <3>4 DEF Releases
    <2> QED BY <2>2, <2>3
  <1> QED BY <1>1, <1>2, <1>3, <1>4, <1>5, <1>6 DEF AskStep

-----------------------------------------------------------------------------
(* Every step, by what it does to the money *)

CallMoves == \E c \in Calls : Authenticate(c) \/ CallStep(c) \/ Abort(c)
BonusOnly ==
    /\ edits' = edits + 1 /\ sub' = sub /\ period[clock].there
    /\ \A m \in Months : /\ period'[m].ops = period[m].ops /\ period'[m].llm = period[m].llm
                         /\ period'[m].overage = period[m].overage
                         /\ m # clock => period'[m] = period[m]

LEMMA MoneyStep ==
  ASSUME Typed, RowsExclusive, RowsBlank, [Next]_vars
  PROVE  \/ CountsKept /\ UNCHANGED <<ledger, budgetVars>>
         \/ /\ \E c \in Calls : Commit(c) /\ CommitCounts(c)
            /\ UNCHANGED <<budgetVars, rotationVars>>
         \/ /\ \E a \in Asks : /\ Books(a) \/ Releases(a) \/ Waits(a)
                               /\ \A b \in Asks \ {a} : ask'[b] = ask[b]
            /\ UNCHANGED <<clock, sub, fresh, ledgerVars, rotationVars>>
         \/ BonusOnly /\ UNCHANGED <<fresh, ledgerVars, budgetVars>>
  <1>k. ASSUME period' = period PROVE CountsKept
    BY <1>k DEF CountsKept, SameCounts
  <1>1. CASE Tick /\ UNCHANGED <<ledgerVars, budgetVars, rotationVars>>
    BY <1>1, <1>k DEF Tick, ledgerVars
  <1>2. ASSUME NEW c \in Calls, Authenticate(c) \/ CallStep(c) \/ Abort(c),
               UNCHANGED <<budgetVars, rotationVars>>
        PROVE  \/ CountsKept /\ UNCHANGED <<ledger, budgetVars>>
               \/ Commit(c) /\ CommitCounts(c) /\ UNCHANGED <<budgetVars, rotationVars>>
    <2>1. CASE Commit(c)
      BY <1>2, <2>1, CommitCountsOne
    <2>2. CASE ~Commit(c)
      <3>1. ledger' = ledger /\ (period' = period \/ period' = Seen(c)) /\ c \in Txs
        BY <1>2, <2>2, CallMoneyShape DEF Txs
      <3> QED BY <1>2, <3>1, PublishedCounts
    <2> QED BY <2>1, <2>2
  <1>3. ASSUME NEW a \in Asks, AskStep(a), UNCHANGED <<ledgerVars, rotationVars>>
        PROVE  /\ Books(a) \/ Releases(a) \/ Waits(a)
               /\ \A b \in Asks \ {a} : ask'[b] = ask[b]
               /\ UNCHANGED <<clock, sub, fresh, ledgerVars, rotationVars>>
    BY <1>3, AskMoneyShape, AskStepTypes
  <1>4. ASSUME NEW r \in Rotators, RotateStep(r) \/ CrashRotation(r),
               UNCHANGED <<ledgerVars, budgetVars>>
        PROVE  CountsKept /\ UNCHANGED <<ledger, budgetVars>>
    <2>1. (period' = period \/ period' = Seen(r)) /\ r \in Txs
      BY <1>4, RotStepShape DEF Started, Captured, Advanced, Committed, Crashed, Txs
    <2> QED BY <1>4, <2>1, PublishedCounts DEF ledgerVars
  <1>5. CASE (SchedulePlan \/ ChangeStatus) /\ UNCHANGED <<ledgerVars, budgetVars>>
    BY <1>5, <1>k DEF SchedulePlan, ChangeStatus, ledgerVars
  <1>6. CASE GrantBonus /\ UNCHANGED <<ledgerVars, budgetVars>>
    <2> DEFINE row == [period[clock] EXCEPT !.bonus = @ + 1]
    <2>1. period \in [Months -> PeriodRows] /\ clock \in Months
      BY DEF Typed, TypeOK, PeriodTypes
    <2>2. /\ period' = [period EXCEPT ![clock].bonus = @ + 1] /\ UNCHANGED <<sub, fresh>>
          /\ edits' = edits + 1 /\ period[clock].there
      BY <1>6 DEF GrantBonus, Edit
    <2>3. period'[clock] = row /\ \A m \in Months \ {clock} : period'[m] = period[m]
      BY <2>1, <2>2
    <2>4. period[clock] \in PeriodRows
      BY <2>1
    <2>5. /\ row.ops = period[clock].ops /\ row.llm = period[clock].llm
          /\ row.overage = period[clock].overage
      BY <2>4 DEF PeriodRows
    <2> HIDE DEF row
    <2> QED BY <1>6, <2>2, <2>3, <2>5 DEF BonusOnly
  <1>7. CASE UNCHANGED vars
    BY <1>7, <1>k DEF vars, periodVars, ledgerVars
  <1> QED
    BY <1>1, <1>2, <1>3, <1>4, <1>5, <1>6, <1>7 DEF Next, LedgerNext, BudgetNext, RotationNext

\* A committed row stays.
LEMMA RowsGrow ==
  ASSUME Typed, RowsExclusive, [Next]_vars
  PROVE  Grows
  <1>1. Typed' /\ RowsStep
    BY StepTyped
  <1>2. \A m \in Months : Kept(m)
    BY <1>1, RowsStepEffect
  <1> QED BY <1>2 DEF Grows, Kept, SameRow

LEMMA RowsBlankStep ==
  ASSUME Typed, RowsExclusive, RowsBlank, PeriodsFound, [Next]_vars
  PROVE  RowsBlank'
  <1>t. PeriodTypes
    BY DEF Typed, TypeOK
  <1>f. \A u \in Txs, m \in Months : Blank(fresh'[u][m])
    <2>1. RowsStep
      BY StepTyped
    <2>2. CASE \E t \in Txs : RowsKeptBy(t)
      BY <1>t, <2>2, FreshStayBlank
    <2>3. CASE UNCHANGED fresh
      BY <2>3 DEF RowsBlank
    <2> QED BY <2>1, <2>2, <2>3 DEF RowsStep
  <1>g. Grows
    BY RowsGrow
  <1>p. ASSUME NEW m \in Months, ~period'[m].there PROVE Blank(period'[m])
    <2>1. ~period[m].there /\ Blank(period[m])
      BY <1>g, <1>p DEF Grows, RowsBlank
    <2>2. CASE CountsKept
      BY <2>1, <2>2 DEF CountsKept, SameCounts, Blank
    <2>3. ASSUME NEW c \in Calls, Commit(c), CommitCounts(c) PROVE Blank(period'[m])
      <3>1. call[c].pc = "commit"
        BY <2>3 DEF Commit
      <3>2. Seen(c)[call[c].month].there
        BY <3>1 DEF PeriodsFound
      <3>3. m # call[c].month
        BY <1>p, <2>3, <3>2 DEF CommitCounts
      <3>4. SameCounts(m)
        BY <2>3, <3>3 DEF CommitCounts
      <3> QED BY <2>1, <3>4 DEF SameCounts, Blank
    <2>4. ASSUME NEW a \in Asks, Books(a) \/ Releases(a) \/ Waits(a) PROVE Blank(period'[m])
      <3>1. CASE Waits(a)
        BY <2>1, <3>1 DEF Waits
      <3>2. CASE Books(a) \/ Releases(a)
        <4>1. period[ask[a].month].there
          BY <3>2 DEF PeriodsFound, Books, Releases
        <4>2. \E n : LlmBy(ask[a].month, n)
          BY <3>2 DEF Books, Releases
        <4> QED BY <2>1, <4>1, <4>2 DEF LlmBy, Blank
      <3> QED BY <2>4, <3>1, <3>2
    <2>5. CASE BonusOnly
      BY <2>1, <2>5 DEF BonusOnly
    <2> QED BY <2>2, <2>3, <2>4, <2>5, MoneyStep
  <1> QED BY <1>f, <1>p DEF RowsBlank

LEMMA LastWindow ==
  ASSUME NEW s \in Subscriptions, NEW n \in Months, Windows(s, n) # {}
  PROVE  n \in Windows(s, n)
  BY SubFields DEF Windows, Months

\* An operation's own step finds, or has opened, the row it will update.
LEMMA CallFindsPeriod ==
  ASSUME Typed, Typed', RowsExclusive, PeriodsFound, NEW c \in Calls,
         Authenticate(c) \/ CallStep(c) \/ Abort(c), Grows
  PROVE  /\ call'[c].pc \in {"provision", "gate_provision"} =>
               call'[c].now \in call'[c].todo \/ Seen(c)'[call'[c].now].there
         /\ call'[c].pc \in {"ledger", "bump", "commit"} => Seen(c)'[call'[c].month].there
  <1>p. PeriodTypes /\ c \in Txs /\ call[c].now \in Months /\ call'[c].now \in Months
        /\ sub \in Subscriptions /\ clock \in Months
    BY CallRowType DEF Typed, TypeOK, PeriodTypes, LedgerTypes, CallRows, Txs
  <1>s. ASSUME NEW k \in Months, fresh'[c][k].there \/ period'[k].there PROVE Seen(c)'[k].there
    BY <1>s DEF Seen
  <1>v. ASSUME NEW k \in Months, Seen(c)[k].there, UNCHANGED <<period, fresh>>
        PROVE  Seen(c)'[k].there
    BY <1>v DEF Seen
  <1>1. ASSUME call'[c].pc \in {"provision", "gate_provision"}
        PROVE  call'[c].now \in call'[c].todo \/ Seen(c)'[call'[c].now].there
    <2>1. CASE Opened(c)
      BY <1>p, <2>1, LastWindow DEF Opened
    <2>2. ASSUME NEW m \in Months, Provisions(c, m)
          PROVE  call'[c].now \in call'[c].todo \/ Seen(c)'[call'[c].now].there
      <3>1. /\ call[c].pc \in {"provision", "gate_provision"} /\ call'[c].now = call[c].now
            /\ call'[c].todo = call[c].todo \ {m} /\ period' = period
        BY <2>2 DEF Provisions
      <3>2. PICK p \in Plans : InsertPeriod(c, m, p)
        BY <2>2 DEF Provisions
      <3>3. /\ \A k \in Months : k # m => fresh'[c][k] = fresh[c][k]
            /\ fresh'[c][m].there \/ period[m].there
        BY <1>p, <3>2, InsertEffect
      <3>4. call[c].now \in call[c].todo \/ Seen(c)[call[c].now].there
        BY <3>1 DEF PeriodsFound
      <3>5. CASE call[c].now = m
        BY <1>p, <1>s, <3>1, <3>3, <3>5
      <3>6. CASE call[c].now # m
        BY <1>p, <1>s, <3>1, <3>3, <3>4, <3>6, SeenThere
      <3> QED BY <3>5, <3>6
    <2>3. Opened(c) \/ \E m \in Months : Provisions(c, m)
      BY <1>1, CallStepShape DEF Entered, Passed, Worked, FoundNone, EndedOutside, Found, GoesOn,
         Closed, Aborted, Ended
    <2> QED BY <2>1, <2>2, <2>3
  <1>2. ASSUME call'[c].pc \in {"ledger", "bump", "commit"}
        PROVE  Seen(c)'[call'[c].month].there
    <2>1. CASE Enlists(c)
      <3>1. CASE call'[c].month = clock /\ period[clock].there
        BY <1>p, <1>s, <2>1, <3>1 DEF Enlists
      <3>2. CASE call[c].pc = "provision" /\ call[c].todo = {} /\ call'[c].month = call[c].now
        <4>1. Seen(c)[call[c].now].there
          BY <3>2 DEF PeriodsFound
        <4> QED BY <1>p, <1>v, <2>1, <3>2, <4>1 DEF Enlists
      <3> QED BY <2>1, <3>1, <3>2 DEF Enlists
    <2>2. CASE Inserts(c) \/ Bumps(c)
      <3>1. /\ call[c].pc \in {"ledger", "bump"} /\ call'[c].month = call[c].month
            /\ UNCHANGED <<period, fresh>>
        BY <2>2 DEF Inserts, Bumps
      <3>2. Seen(c)[call[c].month].there /\ call[c].month \in Months
        BY <3>1 DEF PeriodsFound, Typed, CallLocals
      <3> QED BY <1>v, <3>1, <3>2
    <2> QED BY <1>2, <2>1, <2>2, CallMoneyShape
  <1> QED BY <1>1, <1>2

LEMMA PeriodsFoundStep ==
  ASSUME Typed, RowsExclusive, RowsBlank, PeriodsFound, [Next]_vars
  PROVE  PeriodsFound'
  <1>t. Typed' /\ PeriodTypes
    BY StepTyped DEF Typed, TypeOK
  <1>g. Grows
    BY RowsGrow
  <1> DEFINE Row(c) ==
        /\ call[c].pc \in {"provision", "gate_provision"} =>
              call[c].now \in call[c].todo \/ Seen(c)[call[c].now].there
        /\ call[c].pc \in {"ledger", "bump", "commit"} => Seen(c)[call[c].month].there
  <1>k. ASSUME NEW c \in Calls, call'[c] = call[c], \A m \in Months : fresh'[c][m] = fresh[c][m]
        PROVE  Row(c)'
    <2>1. Row(c)
      BY DEF PeriodsFound
    <2>2. \A m \in Months : Seen(c)[m].there => Seen(c)'[m].there
      BY <1>g, <1>k DEF Seen, Grows
    <2>3. /\ call[c].now \in Months
          /\ call[c].pc \in {"ledger", "bump", "commit"} => call[c].month \in Months
      BY CallRowType DEF Typed, TypeOK, CallLocals
    <2> QED BY <1>k, <2>1, <2>2, <2>3
  <1> DEFINE Dated(a) == ask[a].pc \notin {"idle", "refused"} => period[ask[a].month].there
  <1>a. ASSUME NEW a \in Asks, ask'[a] = ask[a] PROVE Dated(a)'
    <2>1. Dated(a)
      BY DEF PeriodsFound
    <2>2. ask[a].pc \notin {"idle", "refused"} => ask[a].month \in Months
      BY DEF Typed, AskLocals
    <2> QED BY <1>a, <1>g, <2>1, <2>2 DEF Grows
  <1> HIDE DEF Row, Dated
  <1>q. ASSUME \A c \in Calls : Row(c)', \A a \in Asks : Dated(a)' PROVE PeriodsFound'
    BY <1>q DEF PeriodsFound, Row, Dated
  <1>o. ASSUME NEW t \in Txs, RowsKeptBy(t)
        PROVE  \A u \in Txs \ {t}, m \in Months : fresh'[u][m] = fresh[u][m]
    BY <1>o, <1>t, TxOwnRows
  <1>1. CASE Tick /\ UNCHANGED <<ledgerVars, budgetVars, rotationVars>>
    BY <1>1, <1>k, <1>a, <1>q DEF Tick, ledgerVars, budgetVars
  <1>2. ASSUME NEW c \in Calls, Authenticate(c) \/ CallStep(c) \/ Abort(c),
               UNCHANGED <<budgetVars, rotationVars>>
        PROVE  PeriodsFound'
    <2>1. Row(c)'
      BY <1>2, <1>t, <1>g, CallFindsPeriod DEF Row
    <2>2. RowsKeptBy(c) /\ c \in Txs /\ \A o \in Calls \ {c} : call'[o] = call[o] /\ o \in Txs
      BY <1>2, CallStepEffect DEF Txs
    <2>3. \A o \in Calls \ {c} : Row(o)'
      BY <1>k, <1>o, <2>2
    <2> QED BY <1>2, <1>a, <1>q, <2>1, <2>3 DEF budgetVars
  <1>3. ASSUME NEW a \in Asks, AskStep(a), UNCHANGED <<ledgerVars, rotationVars>>
        PROVE  PeriodsFound'
    <2>1. UNCHANGED fresh /\ \A b \in Asks \ {a} : ask'[b] = ask[b]
      BY <1>3, AskStepTypes, AskMoneyShape
    <2>2. Dated(a)'
      <3>1. CASE Books(a) \/ Releases(a) \/ (Waits(a) /\ ask[a].pc \notin {"idle", "found"})
        <4>1. /\ ask[a].pc \notin {"idle", "refused"} /\ ask'[a].month = ask[a].month
          BY <3>1 DEF Books, Releases, Waits
        <4>2. period[ask[a].month].there /\ ask[a].month \in Months
          BY <4>1 DEF PeriodsFound, Typed, AskLocals
        <4> QED BY <1>g, <4>1, <4>2 DEF Grows, Dated
      <3>2. CASE Waits(a) /\ ask[a].pc \in {"idle", "found"}
        BY <3>2 DEF Waits, Dated
      <3> QED BY <1>3, <3>1, <3>2, AskMoneyShape
    <2> QED BY <1>3, <1>k, <1>a, <1>q, <2>1, <2>2 DEF ledgerVars
  <1>4. ASSUME NEW r \in Rotators, RotateStep(r) \/ CrashRotation(r),
               UNCHANGED <<ledgerVars, budgetVars>>
        PROVE  PeriodsFound'
    <2>1. RowsKeptBy(r) /\ r \in Txs /\ \A c \in Calls : c \in Txs \ {r}
      BY <1>4, RotationStepTypes DEF Txs
    <2> QED BY <1>4, <1>k, <1>a, <1>o, <1>q, <2>1 DEF ledgerVars, budgetVars
  <1>5. CASE (SchedulePlan \/ ChangeStatus \/ GrantBonus) /\ UNCHANGED <<ledgerVars, budgetVars>>
    BY <1>5, <1>k, <1>a, <1>q, BackendStepTypes DEF ledgerVars, budgetVars
  <1>6. CASE UNCHANGED vars
    BY <1>6, <1>k, <1>a, <1>q DEF vars, periodVars, ledgerVars, budgetVars
  <1> QED BY <1>1, <1>2, <1>3, <1>4, <1>5, <1>6 DEF Next, LedgerNext, BudgetNext, RotationNext

-----------------------------------------------------------------------------
(* The locks: one transaction inserts a key, one updates a row *)

LEMMA LocksStep ==
  ASSUME Typed, LocksHeld, [Next]_vars
  PROVE  LocksHeld'
  <1>k. ASSUME UNCHANGED ledgerVars PROVE LocksHeld'
    BY <1>k DEF ledgerVars, LocksHeld, Inserting, Posted
  <1>1. ASSUME NEW c \in Calls, Authenticate(c) \/ CallStep(c) \/ Abort(c) PROVE LocksHeld'
    <2>1. \A o \in Calls \ {c} : call'[o] = call[o]
      BY <1>1, CallStepEffect
    <2>2. CASE Commit(c)
      <3>1. /\ call[c].pc = "commit" /\ call'[c].pc \notin {"bump", "commit"}
            /\ ledger' = [ledger EXCEPT ![KeyOf[c]] = [month |-> call[c].month, units |-> UnitsOf[c]]]
        BY <1>1, <2>2, CallMoneyShape DEF Commit, Enlists, Inserts, Bumps
      <3>2. \A o \in Calls \ {c} : Inserting(o) => KeyOf[o] # KeyOf[c]
        BY <3>1 DEF LocksHeld, Inserting
      <3>3. \A o \in Calls \ {c} : KeyOf[o] # KeyOf[c] => ledger'[KeyOf[o]] = ledger[KeyOf[o]]
        BY <3>1 DEF Typed, TypeOK, LedgerTypes, Keys
      <3> QED BY <2>1, <3>1, <3>2, <3>3 DEF LocksHeld, Inserting, Posted
    <2>3. CASE ~Commit(c)
      <3>1. ledger' = ledger
        BY <1>1, <2>3, CallMoneyShape
      <3>2. CASE call'[c].pc \notin {"bump", "commit"}
        BY <2>1, <3>1, <3>2 DEF LocksHeld, Inserting, Posted
      <3>3. CASE Inserts(c)
        <4>1. /\ call'[c].pc = "bump" /\ ~Posted(KeyOf[c])
              /\ \A o \in Calls \ {c} : Inserting(o) => KeyOf[o] # KeyOf[c]
          BY <3>3 DEF Inserts, KeyHeld, Inserting
        <4> QED BY <2>1, <3>1, <4>1 DEF LocksHeld, Inserting, Posted
      <3>4. CASE Bumps(c)
        <4>1. /\ call[c].pc = "bump" /\ call'[c].pc = "commit" /\ call'[c].month = call[c].month
              /\ \A o \in Calls : call[o].pc = "commit" => call[o].month # call[c].month
          BY <3>4 DEF Bumps, RowHeld
        <4> QED BY <2>1, <3>1, <4>1 DEF LocksHeld, Inserting, Posted
      <3> QED BY <1>1, <3>2, <3>3, <3>4, CallMoneyShape DEF Enlists
    <2> QED BY <2>2, <2>3
  <1> QED BY <1>k, <1>1 DEF Next, LedgerNext, BudgetNext, RotationNext, vars

-----------------------------------------------------------------------------
(* The ledger *)

\* A set of names is no larger than what is named.
LEMMA NamesFinite ==
  ASSUME NEW S, IsFiniteSet(S), NEW f
  PROVE  IsFiniteSet({f[x] : x \in S})
  <1> DEFINE T == {f[x] : x \in S}
             g == [x \in S |-> f[x]]
  <1>1. g \in Surjection(S, T)
    BY DEF Surjection
  <1> QED BY <1>1, FS_Surjection

LEMMA FiniteKeys == IsFiniteSet(Keys) /\ IsFiniteSet(AskKeys) /\ IsFiniteSet(Months)
  <1>0. IsFiniteSet(Calls) /\ IsFiniteSet(Asks)
    OBVIOUS
  <1>1. IsFiniteSet(Keys)
    BY ONLY <1>0, NamesFinite DEF Keys
  <1>2. IsFiniteSet(AskKeys)
    BY ONLY <1>0, NamesFinite DEF AskKeys
  <1>3. IsFiniteSet(Months)
    BY FS_Interval DEF Months
  <1> QED BY <1>1, <1>2, <1>3

LEMMA OpsInType ==
  ASSUME LedgerTypes, NEW m \in Months
  PROVE  \A k \in Keys : OpsIn(m)[k] \in Nat
  BY DEF LedgerTypes, OpsIn

\* A commit adds its units to its month's rows, and to those of no other month.
LEMMA LedgerGrows ==
  ASSUME LedgerTypes, LedgerTypes', NEW c \in Calls, NEW m \in Months, Commit(c),
         ~Posted(KeyOf[c])
  PROVE  SumOf(OpsIn(m)', Keys) =
             SumOf(OpsIn(m), Keys) + (IF call[c].month = m THEN UnitsOf[c] ELSE 0)
  <1> DEFINE k == KeyOf[c]
  <1>1. k \in Keys
    BY DEF Keys
  <1>2. ledger' = [ledger EXCEPT ![k] = [month |-> call[c].month, units |-> UnitsOf[c]]]
    BY DEF Commit
  <1>3. OpsIn(m)'[k] = IF call[c].month = m THEN UnitsOf[c] ELSE 0
    BY <1>1, <1>2 DEF OpsIn, LedgerTypes
  <1>4. OpsIn(m)[k] = 0
    BY <1>1 DEF OpsIn, Posted, NoEntry
  <1>5. \A o \in Keys : o # k => OpsIn(m)'[o] = OpsIn(m)[o]
    BY <1>1, <1>2 DEF OpsIn, LedgerTypes
  <1>6. \A o \in Keys : OpsIn(m)[o] \in Int /\ OpsIn(m)'[o] \in Int
    BY DEF OpsIn, LedgerTypes
  <1> HIDE DEF k
  <1>7. SumOf(OpsIn(m)', Keys) = SumOf(OpsIn(m), Keys) + (OpsIn(m)'[k] - OpsIn(m)[k])
    BY <1>1, <1>5, <1>6, FiniteKeys, SumChange
  <1>8. UnitsOf[c] \in Int
    OBVIOUS
  <1>9. OpsIn(m)'[k] - OpsIn(m)[k] = IF call[c].month = m THEN UnitsOf[c] ELSE 0
    BY <1>3, <1>4, <1>8
  <1> QED BY <1>7, <1>9

LEMMA LedgerStep ==
  ASSUME Typed, RowsExclusive, RowsBlank, LocksHeld, LedgerIsAggregate, [Next]_vars
  PROVE  LedgerIsAggregate'
  <1>t. LedgerTypes /\ LedgerTypes'
    BY StepTyped DEF Typed, TypeOK
  <1>1. SUFFICES ASSUME NEW m \in Months PROVE period'[m].ops = SumOf(OpsIn(m)', Keys)
    BY DEF LedgerIsAggregate
  <1>2. period[m].ops = SumOf(OpsIn(m), Keys)
    BY DEF LedgerIsAggregate
  <1>3. ASSUME ledger' = ledger PROVE SumOf(OpsIn(m)', Keys) = SumOf(OpsIn(m), Keys)
    BY <1>3 DEF OpsIn
  <1>4. CASE CountsKept /\ UNCHANGED ledger
    BY <1>2, <1>3, <1>4 DEF CountsKept, SameCounts
  <1>5. ASSUME NEW c \in Calls, Commit(c), CommitCounts(c)
        PROVE  period'[m].ops = SumOf(OpsIn(m)', Keys)
    <2>1. ~Posted(KeyOf[c])
      BY <1>5 DEF Commit, LocksHeld, Inserting
    <2>2. SumOf(OpsIn(m)', Keys) =
             SumOf(OpsIn(m), Keys) + (IF call[c].month = m THEN UnitsOf[c] ELSE 0)
      BY <1>t, <1>5, <2>1, LedgerGrows
    <2>3. SumOf(OpsIn(m), Keys) \in Nat
      BY <1>t, OpsInType, FiniteKeys, SumNat
    <2>4. CASE call[c].month = m
      BY <1>2, <1>5, <2>2, <2>4 DEF CommitCounts
    <2>5. CASE call[c].month # m
      BY <1>2, <1>5, <2>2, <2>3, <2>5 DEF CommitCounts, SameCounts
    <2> QED BY <2>4, <2>5
  <1>6. ASSUME NEW a \in Asks, Books(a) \/ Releases(a) \/ Waits(a), UNCHANGED ledger
        PROVE  period'[m].ops = SumOf(OpsIn(m)', Keys)
    <2>1. period'[m].ops = period[m].ops
      BY <1>6 DEF Books, Releases, Waits, LlmBy
    <2> QED BY <1>2, <1>3, <1>6, <2>1
  <1>7. CASE BonusOnly /\ UNCHANGED ledger
    BY <1>2, <1>3, <1>7 DEF BonusOnly
  <1> QED BY <1>4, <1>5, <1>6, <1>7, MoneyStep DEF ledgerVars

-----------------------------------------------------------------------------
(* The overage *)

LEMMA OverageSame ==
  ASSUME NEW n, NEW row, NEW other, NEW s, NEW z,
         row.bonus = other.bonus, ResolvedOps(s) = ResolvedOps(z)
  PROVE  OverageOf(n, row, s) = OverageOf(n, other, z)
  BY DEF OverageOf

\* More operations, no smaller an overage.
LEMMA OverageGrows ==
  ASSUME NEW n \in Nat, NEW k \in Nat, NEW row \in PeriodRows, NEW s \in Subscriptions, n <= k
  PROVE  OverageOf(n, row, s) <= OverageOf(k, row, s)
  <1>1. row.bonus \in Nat /\ ResolvedOps(s) \in Nat
    BY RowFields, ResolvedType
  <1> QED BY <1>1 DEF OverageOf, Excess

\* Without a pending plan a boundary leaves the cap as it was.
LEMMA NextCap ==
  ASSUME NEW s \in Subscriptions, s.pending = None
  PROVE  NextSub(s).pending = None /\ ResolvedOps(NextSub(s)) = ResolvedOps(s)
  <1>1. NextSub(s) = [s EXCEPT !.start = s.start + 1]
    BY DEF NextSub
  <1>2. NextSub(s).pending = s.pending /\ NextSub(s).plan = s.plan /\ NextSub(s).eff = s.eff
    BY <1>1 DEF Subscriptions
  <1> QED BY <1>2 DEF ResolvedOps

\* What a step of a rotation does to its view of the subscription.
LEMMA RotationCap ==
  ASSUME Typed, NEW r \in Rotators, RotateStep(r) \/ CrashRotation(r)
  PROVE  /\ edits' = edits
         /\ sub' = sub \/ (sub' = rot[r].sub /\ Busy(r))
         /\ \A q \in Rotators \ {r} : rot'[q] = rot[q]
         /\ \/ rot'[r].pc = "idle"
            \/ rot'[r].sub = sub /\ sub' = sub
            \/ Busy(r) /\ sub' = sub /\ rot'[r].sub \in {rot[r].sub, NextSub(rot[r].sub)}
  <1>p. rot \in [Rotators -> RotRows] /\ rot[r] \in RotRows
    BY RotFields DEF Typed, TypeOK, RotationTypes
  <1>o. \A q \in Rotators \ {r} : rot'[q] = rot[q]
    BY RotationStepTypes
  <1>1. CASE StartRotation(r)
    BY <1>1, <1>o, RotStepShape, <1>p DEF StartRotation, periodVars
  <1>2. CASE Capture(r)
    <2>1. \/ rot'[r] = [rot[r] EXCEPT !.pc = "advance",
                                      !.marks = rot[r].marks \cup {rot[r].sub.start}]
          \/ rot'[r] = [rot[r] EXCEPT !.pc = "advance"]
      BY <1>2, <1>p DEF Capture
    <2>2. rot'[r].sub = rot[r].sub
      BY ONLY <1>p, <2>1 DEF RotRows
    <2> QED BY <1>2, <1>o, <2>2 DEF Capture, periodVars, Busy
  <1>3. CASE CaptureNothing(r)
    <2>1. rot'[r] = [rot[r] EXCEPT !.pc = "advance"]
      BY <1>3, <1>p DEF CaptureNothing
    <2>2. rot'[r].sub = rot[r].sub
      BY ONLY <1>p, <2>1 DEF RotRows
    <2> QED BY <1>3, <1>o, <2>2 DEF CaptureNothing, periodVars, Busy
  <1>4. CASE Advance(r)
    <2> DEFINE next == NextSub(rot[r].sub)
               steps == rot[r].steps + 1
               step == IF next.start < rot[r].now /\ steps < MaxCatchup THEN "capture" ELSE "commit"
    <2>1. /\ rot[r].pc = "advance" /\ UNCHANGED <<sub, edits>>
          /\ rot' = [rot EXCEPT ![r].sub = next, ![r].steps = steps, ![r].pc = step]
      BY <1>4 DEF Advance
    <2> HIDE DEF next, steps, step
    <2>2. rot'[r] = [rot[r] EXCEPT !.sub = next, !.steps = steps, !.pc = step]
      BY <1>p, <2>1
    <2>3. rot'[r].sub = next
      BY ONLY <1>p, <2>2 DEF RotRows
    <2> QED BY <1>o, <2>1, <2>3 DEF next, Busy
  <1>5. CASE CommitRotation(r)
    <2>1. rot'[r].pc = "idle"
      BY <1>5, <1>p, IdleRotatorType DEF CommitRotation
    <2> QED BY <1>5, <1>o, <2>1 DEF CommitRotation, Busy
  <1>6. CASE CrashRotation(r)
    <2>1. rot'[r].pc = "idle"
      BY <1>6, <1>p, IdleRotatorType DEF CrashRotation
    <2> QED BY <1>6, <1>o, <2>1 DEF CrashRotation
  <1> QED BY <1>1, <1>2, <1>3, <1>4, <1>5, <1>6 DEF RotateStep

\* The backend's edits are counted, and nobody else's step is one.
LEMMA EditsCount ==
  ASSUME Typed, [Next]_vars, edits' = 0
  PROVE  /\ edits = 0
         /\ \/ UNCHANGED <<sub, rot>>
            \/ \E r \in Rotators : /\ RotateStep(r) \/ CrashRotation(r)
                                   /\ UNCHANGED <<ledgerVars, budgetVars>>
  <1>e. edits \in Nat
    BY DEF Typed, TypeOK, RotationTypes
  <1>1. CASE Tick /\ UNCHANGED <<ledgerVars, budgetVars, rotationVars>>
    BY <1>1 DEF Tick, rotationVars
  <1>2. ASSUME NEW c \in Calls, Authenticate(c) \/ CallStep(c) \/ Abort(c), UNCHANGED rotationVars
        PROVE  edits = 0 /\ UNCHANGED <<sub, rot>>
    BY <1>2, CallStepEffect DEF rotationVars
  <1>3. ASSUME NEW a \in Asks, AskStep(a), UNCHANGED rotationVars
        PROVE  edits = 0 /\ UNCHANGED <<sub, rot>>
    BY <1>3, AskStepTypes DEF rotationVars
  <1>4. ASSUME NEW r \in Rotators, RotateStep(r) \/ CrashRotation(r) PROVE edits = 0
    BY <1>4, RotationCap
  <1>5. CASE SchedulePlan \/ ChangeStatus \/ GrantBonus
    <2>1. edits' = edits + 1
      BY <1>5 DEF SchedulePlan, ChangeStatus, GrantBonus, Edit
    <2> QED BY <1>e, <2>1
  <1>6. CASE UNCHANGED vars
    BY <1>6 DEF vars, periodVars, rotationVars
  <1> QED BY <1>1, <1>2, <1>3, <1>4, <1>5, <1>6 DEF Next, LedgerNext, BudgetNext, RotationNext

LEMMA CapStep ==
  ASSUME Typed, CapKept, [Next]_vars
  PROVE  CapKept' /\ (edits' = 0 => ResolvedOps(sub') = ResolvedOps(sub))
  <1>1. SUFFICES ASSUME edits' = 0
                 PROVE  /\ sub'.pending = None /\ ResolvedOps(sub') = ResolvedOps(sub)
                        /\ \A r \in Rotators : Busy(r)' =>
                              /\ rot'[r].sub.pending = None
                              /\ ResolvedOps(rot'[r].sub) = ResolvedOps(sub')
    BY DEF CapKept
  <1>2. /\ edits = 0 /\ sub.pending = None
        /\ \A r \in Rotators : Busy(r) =>
              /\ rot[r].sub.pending = None /\ ResolvedOps(rot[r].sub) = ResolvedOps(sub)
              /\ rot[r].sub \in Subscriptions
    BY <1>1, EditsCount DEF CapKept, Typed, RotLocals
  <1>3. CASE UNCHANGED <<sub, rot>>
    BY <1>2, <1>3 DEF Busy
  <1>4. ASSUME NEW r \in Rotators, RotateStep(r) \/ CrashRotation(r)
        PROVE  /\ sub'.pending = None /\ ResolvedOps(sub') = ResolvedOps(sub)
               /\ \A q \in Rotators : Busy(q)' =>
                     /\ rot'[q].sub.pending = None
                     /\ ResolvedOps(rot'[q].sub) = ResolvedOps(sub')
    <2>1. sub'.pending = None /\ ResolvedOps(sub') = ResolvedOps(sub)
      BY <1>2, <1>4, RotationCap
    <2>2. ASSUME Busy(r)'
          PROVE  rot'[r].sub.pending = None /\ ResolvedOps(rot'[r].sub) = ResolvedOps(sub')
      <3>1. \/ rot'[r].sub = sub /\ sub' = sub
            \/ Busy(r) /\ sub' = sub /\ rot'[r].sub \in {rot[r].sub, NextSub(rot[r].sub)}
        BY <1>4, <2>2, RotationCap DEF Busy
      <3>2. Busy(r) => /\ NextSub(rot[r].sub).pending = None
                       /\ ResolvedOps(NextSub(rot[r].sub)) = ResolvedOps(rot[r].sub)
        BY <1>2, NextCap
      <3> QED BY <1>2, <3>1, <3>2
    <2>3. ASSUME NEW q \in Rotators \ {r}, Busy(q)'
          PROVE  rot'[q].sub.pending = None /\ ResolvedOps(rot'[q].sub) = ResolvedOps(sub')
      <3>1. rot'[q] = rot[q] /\ Busy(q)
        BY <1>4, <2>3, RotationCap DEF Busy
      <3> QED BY <1>2, <2>1, <3>1
    <2> QED BY <2>1, <2>2, <2>3
  <1> QED BY <1>1, <1>3, <1>4, EditsCount

\* What a commit will write as overage is what its row will need, if the row stays.
LEMMA CommitsStep ==
  ASSUME Typed, RowsExclusive, RowsBlank, LocksHeld, CapKept, CommitsAgree, [Next]_vars
  PROVE  CommitsAgree'
  <1>1. SUFFICES ASSUME edits' = 0, NEW c \in Calls, call'[c].pc = "commit"
                 PROVE  call'[c].over = OverageOf(period'[call'[c].month].ops + UnitsOf[c],
                                                  period'[call'[c].month], sub')
    BY DEF CommitsAgree
  <1>2. edits = 0 /\ ResolvedOps(sub') = ResolvedOps(sub)
    BY <1>1, EditsCount, CapStep
  <1> DEFINE m == call[c].month
  <1>3. /\ call'[c].month = m /\ m \in Months
        /\ call'[c].over = OverageOf(period[m].ops + UnitsOf[c], period[m], sub)
    <2>1. CASE call'[c] = call[c]
      BY <1>1, <1>2, <2>1 DEF CommitsAgree, Typed, CallLocals
    <2>2. CASE call'[c] # call[c]
      <3>1. Authenticate(c) \/ CallStep(c) \/ Abort(c)
        <4>1. ASSUME NEW o \in Calls, Authenticate(o) \/ CallStep(o) \/ Abort(o), o # c
              PROVE  call'[c] = call[c]
          BY <4>1, CallStepEffect
        <4> QED BY <2>2, <4>1 DEF Next, LedgerNext, BudgetNext, RotationNext, vars, ledgerVars
      <3>2. Bumps(c)
        BY <1>1, <3>1, CallMoneyShape DEF Enlists, Inserts
      <3>3. m \in Months
        BY <3>2 DEF Bumps, Typed, CallLocals
      <3>4. Seen(c)[m].ops = period[m].ops /\ Seen(c)[m].bonus = period[m].bonus
        BY <3>3, SeenCounts DEF Txs
      <3>5. OverageOf(Seen(c)[m].ops + UnitsOf[c], Seen(c)[m], sub)
              = OverageOf(period[m].ops + UnitsOf[c], period[m], sub)
        BY <3>4, OverageSame
      <3> QED BY <3>2, <3>3, <3>5 DEF Bumps
    <2> QED BY <2>1, <2>2
  <1>4. period'[m].ops = period[m].ops /\ period'[m].bonus = period[m].bonus
    <2>1. CASE CountsKept
      BY <1>3, <2>1 DEF CountsKept, SameCounts
    <2>2. ASSUME NEW o \in Calls, Commit(o), CommitCounts(o)
          PROVE  period'[m].ops = period[m].ops /\ period'[m].bonus = period[m].bonus
      <3>1. call[o].pc = "commit" /\ call'[o].pc # "commit"
        BY <2>2, CallMoneyShape DEF Commit, CallStep, Enlists, Inserts, Bumps
      <3>2. o # c /\ call'[c] = call[c]
        BY <1>1, <2>2, <3>1, CallStepEffect DEF CallStep
      <3>3. call[o].month # m
        BY <1>1, <3>1, <3>2 DEF LocksHeld
      <3> QED BY <1>3, <2>2, <3>3 DEF CommitCounts, SameCounts
    <2>3. ASSUME NEW a \in Asks, Books(a) \/ Releases(a) \/ Waits(a)
          PROVE  period'[m].ops = period[m].ops /\ period'[m].bonus = period[m].bonus
      BY <1>3, <2>3 DEF Books, Releases, Waits, LlmBy
    <2>4. ~BonusOnly
      BY <1>1, <1>2 DEF BonusOnly
    <2> QED BY <2>1, <2>2, <2>3, <2>4, MoneyStep
  <1>5. OverageOf(period[m].ops + UnitsOf[c], period[m], sub)
          = OverageOf(period'[m].ops + UnitsOf[c], period'[m], sub')
    BY <1>2, <1>4, OverageSame
  <1> QED BY <1>3, <1>5

LEMMA OverageStep ==
  ASSUME Typed, RowsExclusive, RowsBlank, CapKept, CommitsAgree, OverageAgrees, [Next]_vars
  PROVE  OverageAgrees'
  <1>1. SUFFICES ASSUME edits' = 0, NEW m \in Months
                 PROVE  period'[m].overage = OverageOf(period'[m].ops, period'[m], sub')
    BY DEF OverageAgrees
  <1>2. edits = 0 /\ ResolvedOps(sub') = ResolvedOps(sub)
    BY <1>1, EditsCount, CapStep
  <1>3. period[m].overage = OverageOf(period[m].ops, period[m], sub)
    BY <1>2 DEF OverageAgrees
  <1>4. ASSUME period'[m].ops = period[m].ops, period'[m].bonus = period[m].bonus,
               period'[m].overage = period[m].overage
        PROVE  period'[m].overage = OverageOf(period'[m].ops, period'[m], sub')
    <2>1. OverageOf(period[m].ops, period[m], sub) = OverageOf(period[m].ops, period'[m], sub')
      BY <1>2, <1>4, OverageSame
    <2> QED BY <1>3, <1>4, <2>1
  <1>5. CASE CountsKept
    BY <1>4, <1>5 DEF CountsKept, SameCounts
  <1>6. ASSUME NEW c \in Calls, Commit(c), CommitCounts(c)
        PROVE  period'[m].overage = OverageOf(period'[m].ops, period'[m], sub')
    <2>1. CASE m = call[c].month
      <3>1. call[c].over = OverageOf(period[m].ops + UnitsOf[c], period[m], sub)
        BY <1>2, <1>6, <2>1 DEF Commit, CommitsAgree
      <3>2. /\ period'[m].ops = period[m].ops + UnitsOf[c] /\ period'[m].overage = call[c].over
            /\ period'[m].bonus = period[m].bonus
        BY <1>6, <2>1 DEF CommitCounts
      <3>3. OverageOf(period[m].ops + UnitsOf[c], period[m], sub)
              = OverageOf(period[m].ops + UnitsOf[c], period'[m], sub')
        BY <1>2, <3>2, OverageSame
      <3> QED BY <3>1, <3>2, <3>3
    <2>2. CASE m # call[c].month
      BY <1>4, <1>6, <2>2 DEF CommitCounts, SameCounts
    <2> QED BY <2>1, <2>2
  <1>7. ASSUME NEW a \in Asks, Books(a) \/ Releases(a) \/ Waits(a)
        PROVE  period'[m].overage = OverageOf(period'[m].ops, period'[m], sub')
    BY <1>4, <1>7 DEF Books, Releases, Waits, LlmBy
  <1>8. ~BonusOnly
    BY <1>1, <1>2 DEF BonusOnly
  <1> QED BY <1>5, <1>6, <1>7, <1>8, MoneyStep

\* While nothing is edited, no step lowers a month's overage.
LEMMA OverageNeverFalls ==
  ASSUME Typed, RowsExclusive, RowsBlank, CapKept, CommitsAgree, OverageAgrees, [Next]_vars,
         edits' = 0, NEW m \in Months
  PROVE  period[m].overage <= period'[m].overage
  <1>1. period[m] \in PeriodRows /\ sub \in Subscriptions
    BY DEF Typed, TypeOK, PeriodTypes
  <1>2. period[m].overage \in Nat /\ period[m].ops \in Nat
    BY <1>1, RowFields
  <1>3. edits = 0
    BY EditsCount
  <1>4. CASE CountsKept
    BY <1>2, <1>4 DEF CountsKept, SameCounts
  <1>5. ASSUME NEW c \in Calls, Commit(c), CommitCounts(c)
        PROVE  period[m].overage <= period'[m].overage
    <2>1. CASE m = call[c].month
      <3>1. period'[m].overage = OverageOf(period[m].ops + UnitsOf[c], period[m], sub)
        BY <1>3, <1>5, <2>1 DEF Commit, CommitCounts, CommitsAgree
      <3>2. period[m].overage = OverageOf(period[m].ops, period[m], sub)
        BY <1>3 DEF OverageAgrees
      <3>3. period[m].ops + UnitsOf[c] \in Nat /\ period[m].ops <= period[m].ops + UnitsOf[c]
        BY <1>2
      <3> QED BY <1>1, <1>2, <3>1, <3>2, <3>3, OverageGrows
    <2>2. CASE m # call[c].month
      BY <1>2, <1>5, <2>2 DEF CommitCounts, SameCounts
    <2> QED BY <2>1, <2>2
  <1>6. ASSUME NEW a \in Asks, Books(a) \/ Releases(a) \/ Waits(a)
        PROVE  period[m].overage <= period'[m].overage
    BY <1>2, <1>6 DEF Books, Releases, Waits, LlmBy
  <1>7. ~BonusOnly
    BY <1>3 DEF BonusOnly
  <1> QED BY <1>4, <1>5, <1>6, <1>7, MoneyStep

\* A product grows with its second factor, and by that factor when the first goes up.
LEMMA Products ==
  ASSUME NEW t \in Nat, NEW o \in Nat, NEW n \in Nat, o <= n
  PROVE  t * o <= t * n /\ (t + 1) * o = t * o + o /\ t * o \in Nat /\ t * n \in Nat
  OBVIOUS

\* What a step takes for a month is at most that month's overage.
LEMMA PaidStep ==
  ASSUME Typed, RowsExclusive, RowsBlank, [Next]_vars, NEW m \in Months
  PROVE  \/ paid'[m] = paid[m]
         \/ /\ paid'[m].times = paid[m].times + 1 /\ paid'[m].ops = paid[m].ops + period[m].overage
            /\ period' = period
  <1>1. ASSUME NEW r \in Rotators, RotateStep(r) \/ CrashRotation(r)
        PROVE  \/ paid'[m] = paid[m]
               \/ /\ paid'[m].times = paid[m].times + 1
                  /\ paid'[m].ops = paid[m].ops + period[m].overage /\ period' = period
    <2>1. paid' = paid \/ (Captured(r) /\ Charge(r, rot[r].sub.start))
      BY <1>1, RotStepShape DEF Started, Captured, Advanced, Committed, Crashed
    <2>2. ASSUME Captured(r), Charge(r, rot[r].sub.start), rot[r].sub.start = m
          PROVE  /\ paid'[m].times = paid[m].times + 1
                 /\ paid'[m].ops = paid[m].ops + period[m].overage /\ period' = period
      <3>1. paid \in [Months -> [times : Nat, ops : Nat]]
        BY DEF Typed, TypeOK, RotationTypes
      <3>2. paid'[m] = [times |-> paid[m].times + 1, ops |-> paid[m].ops + Seen(r)[m].overage]
        BY <2>2, <3>1 DEF Charge
      <3>3. Seen(r)[m].overage = period[m].overage
        BY SeenCounts DEF Txs
      <3> QED BY <2>2, <3>2, <3>3 DEF Captured
    <2>3. ASSUME Charge(r, rot[r].sub.start), rot[r].sub.start # m PROVE paid'[m] = paid[m]
      BY <2>3 DEF Charge, Typed, TypeOK, RotationTypes
    <2> QED BY <2>1, <2>2, <2>3
  <1>2. CASE ~\E r \in Rotators : (RotateStep(r) \/ CrashRotation(r)) /\ UNCHANGED <<ledgerVars, budgetVars>>
    BY <1>2, OthersKeepRotations
  <1> QED BY <1>1, <1>2

LEMMA NotOverchargedStep ==
  ASSUME Typed, RowsExclusive, RowsBlank, CapKept, CommitsAgree, OverageAgrees, NotOvercharged,
         [Next]_vars
  PROVE  NotOvercharged'
  <1>1. SUFFICES ASSUME edits' = 0, NEW m \in Months
                 PROVE  paid'[m].ops <= paid'[m].times * period'[m].overage
    BY DEF NotOvercharged
  <1>2. edits = 0 /\ paid[m].ops <= paid[m].times * period[m].overage
    BY <1>1, EditsCount DEF NotOvercharged
  <1>3. /\ paid[m].ops \in Nat /\ paid[m].times \in Nat
        /\ period[m] \in PeriodRows /\ period'[m] \in PeriodRows
    BY StepTyped DEF Typed, TypeOK, RotationTypes, PeriodTypes
  <1>4. period[m].overage \in Nat /\ period'[m].overage \in Nat
    BY <1>3, RowFields
  <1>5. period[m].overage <= period'[m].overage
    BY <1>1, OverageNeverFalls
  <1> DEFINE t == paid[m].times
             o == period[m].overage
             n == period'[m].overage
  <1>6. t * o <= t * n /\ (t + 1) * o = t * o + o /\ t * o \in Nat /\ t * n \in Nat
    BY <1>3, <1>4, <1>5, Products
  <1>7. CASE paid'[m] = paid[m]
    BY <1>2, <1>3, <1>6, <1>7
  <1>8. CASE /\ paid'[m].times = t + 1 /\ paid'[m].ops = paid[m].ops + o /\ period' = period
    <2>1. paid[m].ops + o <= t * o + o
      BY <1>2, <1>3, <1>4, <1>6
    <2> QED BY <1>6, <1>8, <2>1
  <1> QED BY <1>7, <1>8, PaidStep

-----------------------------------------------------------------------------
(* The credits *)

AskSteps == {"idle", "found", "refused", "held", "answered", "settled", "abandoned"}

LEMMA AskFacts ==
  ASSUME Typed, NEW a \in Asks
  PROVE  /\ AskKeyOf[a] \in AskKeys /\ ReserveOf[a] \in Nat /\ ask[a].cost \in Nat
         /\ ask[a].cost <= ReserveOf[a] /\ ask[a].pc \in AskSteps
         /\ ask[a].pc \notin {"idle", "refused"} => ask[a].month \in Months
         /\ \A m \in Months : m # None
  BY AskRowType DEF Typed, TypeOK, AskLocals, AskKeys, AskSteps, Months

LEMMA OwedType ==
  ASSUME Typed, NEW m \in Months
  PROVE  \A a \in Asks : OwedIn(m)[a] \in Nat
  BY AskFacts DEF OwedIn, Owed

\* The other calls keep what they booked, whatever one call does with its own key.
LEMMA OthersHold ==
  ASSUME Typed, CreditsStand, NEW a \in Asks, NEW b \in Asks \ {a},
         Books(a) \/ Releases(a) \/ Waits(a), \A o \in Asks \ {a} : ask'[o] = ask[o]
  PROVE  HoldStands(b)'
  <1>1. HoldStands(a) /\ HoldStands(b) /\ ask'[b] = ask[b]
    BY DEF CreditsStand
  <1>2. AskKeyOf[a] \in AskKeys /\ AskKeyOf[b] \in AskKeys
    BY AskFacts
  <1>3. CASE ask[b].pc \notin Booked
    BY <1>1, <1>3 DEF HoldStands, Booked
  <1>4. CASE ask[b].pc \in Booked
    <2>1. /\ reserved[AskKeyOf[b]] = [month |-> ask[b].month, cents |-> ReserveOf[b]]
          /\ \A o \in Asks \ {b} : ask[o].pc \in Booked => AskKeyOf[o] # AskKeyOf[b]
      BY <1>1, <1>4 DEF HoldStands
    <2>2. ask[b].month \in Months /\ ask[b].month # None
      BY <1>4, AskFacts DEF Booked
    <2>3. reserved[AskKeyOf[b]] # NoHold
      BY <2>1, <2>2 DEF NoHold
    <2>4. ask'[a].pc \in Booked => AskKeyOf[a] # AskKeyOf[b]
      BY <2>1, <2>3 DEF Books, Releases, Waits, Booked
    <2>5. /\ reserved'[AskKeyOf[b]] = reserved[AskKeyOf[b]]
          /\ settled'[AskKeyOf[b]] = settled[AskKeyOf[b]]
      <3>1. CASE Waits(a)
        BY <3>1 DEF Waits
      <3>2. CASE Books(a) \/ Releases(a)
        <4>1. AskKeyOf[a] # AskKeyOf[b]
          BY <2>4, <3>2 DEF Books, Releases, Booked
        <4> QED BY <1>2, <3>2, <4>1 DEF Books, Releases, Typed, TypeOK, BudgetTypes
      <3> QED BY <3>1, <3>2
    <2>6. \A o \in Asks \ {b} : ask'[o].pc \in Booked => AskKeyOf[o] # AskKeyOf[b]
      BY <2>1, <2>4
    <2> QED BY <1>1, <2>1, <2>5, <2>6 DEF HoldStands
  <1> QED BY <1>3, <1>4

\* The call itself.
LEMMA OwnHold ==
  ASSUME Typed, Typed', CreditsStand, NEW a \in Asks,
         Books(a) \/ Releases(a) \/ Waits(a), \A o \in Asks \ {a} : ask'[o] = ask[o]
  PROVE  HoldStands(a)'
  <1> DEFINE k == AskKeyOf[a]
  <1>1. HoldStands(a) /\ (reserved[k] = NoHold => settled[k] = NoHold)
    BY AskFacts DEF CreditsStand
  <1>2. /\ k \in AskKeys /\ ReserveOf[a] \in Nat
        /\ reserved \in [AskKeys -> [month : Months \cup {None}, cents : Nat]]
        /\ settled \in [AskKeys -> [month : Months \cup {None}, cents : Nat]]
    BY AskFacts DEF Typed, TypeOK, BudgetTypes
  <1>o. ASSUME ask'[a].pc \in Booked
        PROVE  \A b \in Asks \ {a} : ask'[b].pc \in Booked => AskKeyOf[b] # k
    <2>1. SUFFICES ASSUME NEW b \in Asks \ {a}, ask[b].pc \in Booked PROVE AskKeyOf[b] # k
      OBVIOUS
    <2>2. /\ reserved[AskKeyOf[b]] = [month |-> ask[b].month, cents |-> ReserveOf[b]]
          /\ AskKeyOf[a] # AskKeyOf[b] \/ ask[a].pc \notin Booked
      BY <2>1 DEF CreditsStand, HoldStands
    <2>3. ask[b].month \in Months /\ ask[b].month # None
      BY <2>1, AskFacts DEF Booked
    <2>4. reserved[AskKeyOf[b]] # NoHold
      BY <2>2, <2>3 DEF NoHold
    <2> QED BY <1>o, <2>2, <2>4 DEF Books, Releases, Waits, Booked
  <1>3. CASE Books(a)
    <2>1. /\ ask'[a].pc = "held" /\ ask'[a].month = ask[a].month /\ ask'[a].cost = 0
          /\ reserved'[k] = [month |-> ask[a].month, cents |-> ReserveOf[a]]
          /\ settled'[k] = NoHold
      BY <1>1, <1>2, <1>3 DEF Books, HoldStands, Booked
    <2> QED BY <1>o, <2>1 DEF HoldStands, Booked
  <1>4. CASE Releases(a)
    <2>1. /\ ask'[a].pc = "settled" /\ ask'[a].month = ask[a].month
          /\ reserved'[k] = [month |-> ask[a].month, cents |-> ReserveOf[a]]
      BY <1>1, <1>4 DEF Releases, HoldStands, Booked
    <2>2. ask[a].month # None
      BY <1>4, AskFacts DEF Releases
    <2>3. settled'[k].month = ask[a].month
      BY <1>2, <1>4 DEF Releases
    <2>4. settled'[k] # NoHold
      BY <2>2, <2>3 DEF NoHold
    <2> QED BY <1>o, <2>1, <2>4 DEF HoldStands, Booked
  <1>5. CASE Waits(a)
    <2>1. UNCHANGED <<reserved, settled>>
      BY <1>5 DEF Waits
    <2>2. CASE ask'[a].pc \in {"found", "refused"}
      BY <1>1, <1>5, <2>2 DEF Waits, HoldStands, Booked
    <2>3. CASE ask'[a].pc \in {"answered", "abandoned", "settled"}
      <3>1. /\ ask[a].pc \in Booked /\ ask'[a].pc \in Booked /\ ask'[a].month = ask[a].month
            /\ ask'[a].pc = "answered" => ask[a].pc = "held"
            /\ ask'[a].pc = "settled" => settled[k] # NoHold \/ ask'[a].cost = ReserveOf[a]
        BY <1>5, <2>3 DEF Waits, Booked
      <3> QED BY <1>1, <1>o, <2>1, <2>3, <3>1 DEF HoldStands
    <2> QED BY <1>5, <2>2, <2>3 DEF Waits
  <1> QED BY <1>3, <1>4, <1>5

\* What a month is owed by one call changes as its counter does.
LEMMA OwedStep ==
  ASSUME Typed, Typed', CreditsStand, NEW a \in Asks, NEW m \in Months,
         Books(a) \/ Releases(a) \/ Waits(a), \A o \in Asks \ {a} : ask'[o] = ask[o]
  PROVE  period'[m].llm = SumOf(OwedIn(m)', Asks)
  <1>1. period[m].llm = SumOf(OwedIn(m), Asks) /\ HoldStands(a)
    BY DEF CreditsStand
  <1>2. \A b \in Asks : OwedIn(m)[b] \in Int /\ OwedIn(m)'[b] \in Int
    <2>1. \A b \in Asks : OwedIn(m)[b] \in Nat /\ OwedIn(m)'[b] \in Nat
      BY OwedType, AskFacts DEF OwedIn, Owed, Typed, TypeOK, BudgetTypes, AskRows
    <2> QED BY <2>1
  <1>3. \A b \in Asks : b # a => OwedIn(m)'[b] = OwedIn(m)[b]
    BY DEF OwedIn, Owed
  <1>4. SumOf(OwedIn(m)', Asks) = SumOf(OwedIn(m), Asks) + (OwedIn(m)'[a] - OwedIn(m)[a])
    BY <1>2, <1>3, SumChange
  <1>5. SumOf(OwedIn(m), Asks) \in Int
    BY <1>2, SumFirst
  <1>6. /\ ReserveOf[a] \in Nat /\ ask[a].cost \in Nat
        /\ OwedIn(m)'[a] = (IF ask'[a].month = m
              THEN IF ask'[a].pc = "settled" THEN ask'[a].cost
                   ELSE IF ask'[a].pc \in Booked THEN ReserveOf[a] ELSE 0
              ELSE 0)
        /\ OwedIn(m)[a] = (IF ask[a].month = m
              THEN IF ask[a].pc = "settled" THEN ask[a].cost
                   ELSE IF ask[a].pc \in Booked THEN ReserveOf[a] ELSE 0
              ELSE 0)
    BY AskFacts DEF OwedIn, Owed
  <1> DEFINE more == IF ask[a].month = m THEN
                        IF Books(a) THEN ReserveOf[a]
                        ELSE IF Releases(a) THEN -(ReserveOf[a] - ask[a].cost) ELSE 0
                     ELSE 0
  <1>7. CASE Books(a)
    <2>1. OwedIn(m)'[a] - OwedIn(m)[a] = IF ask[a].month = m THEN ReserveOf[a] ELSE 0
      BY <1>6, <1>7 DEF Books, Booked
    <2> QED BY <1>1, <1>4, <1>5, <1>7, <2>1 DEF Books, LlmBy
  <1>8. CASE Releases(a)
    <2>1. ask[a].pc = "answered"
      BY <1>1, <1>6, <1>8 DEF Releases, HoldStands
    <2>2. OwedIn(m)'[a] - OwedIn(m)[a]
            = IF ask[a].month = m THEN -(ReserveOf[a] - ask[a].cost) ELSE 0
      BY <1>6, <1>8, <2>1 DEF Releases, Booked
    <2> QED BY <1>1, <1>4, <1>5, <1>8, <2>2 DEF Releases, LlmBy
  <1>9. CASE Waits(a)
    <2>1. OwedIn(m)'[a] = OwedIn(m)[a]
      <3>1. CASE ask[a].pc \in {"idle", "found"} /\ ask'[a].pc \in {"found", "refused"}
        BY <1>6, <3>1 DEF Booked
      <3>2. CASE /\ ask[a].pc \in {"held", "answered"} /\ ask'[a].pc \in {"answered", "abandoned"}
                 /\ ask'[a].month = ask[a].month
        BY <1>6, <3>2 DEF Booked
      <3>3. CASE /\ ask[a].pc \in {"answered", "settled"} /\ ask'[a].pc = "settled"
                 /\ ask'[a].month = ask[a].month /\ ask'[a].cost = ask[a].cost
                 /\ settled[AskKeyOf[a]] # NoHold \/ ask[a].cost = ReserveOf[a]
        BY <1>1, <1>6, <3>3 DEF HoldStands, Booked
      <3> QED BY <1>9, <3>1, <3>2, <3>3 DEF Waits
    <2>2. period' = period
      BY <1>9 DEF Waits
    <2>3. OwedIn(m)[a] \in Int
      BY <1>2
    <2> QED BY <1>1, <1>4, <1>5, <2>1, <2>2, <2>3
  <1> QED BY <1>7, <1>8, <1>9

LEMMA CreditsStep ==
  ASSUME Typed, RowsExclusive, RowsBlank, CreditsStand, [Next]_vars
  PROVE  CreditsStand'
  <1>t. Typed'
    BY StepTyped
  <1>k. ASSUME UNCHANGED budgetVars, \A m \in Months : period'[m].llm = period[m].llm
        PROVE  CreditsStand'
    <2>1. \A a \in Asks : HoldStands(a)'
      BY <1>k DEF CreditsStand, HoldStands, budgetVars
    <2>2. \A m \in Months : OwedIn(m)' = OwedIn(m)
      BY <1>k DEF OwedIn, Owed, budgetVars
    <2> QED BY <1>k, <2>1, <2>2 DEF CreditsStand, budgetVars
  <1>1. CASE CountsKept /\ UNCHANGED budgetVars
    BY <1>k, <1>1 DEF CountsKept, SameCounts
  <1>2. ASSUME NEW c \in Calls, CommitCounts(c), UNCHANGED budgetVars PROVE CreditsStand'
    BY <1>k, <1>2 DEF CommitCounts, SameCounts
  <1>3. CASE BonusOnly /\ UNCHANGED budgetVars
    BY <1>k, <1>3 DEF BonusOnly
  <1>4. ASSUME NEW a \in Asks, Books(a) \/ Releases(a) \/ Waits(a),
               \A b \in Asks \ {a} : ask'[b] = ask[b]
        PROVE  CreditsStand'
    <2>1. \A b \in Asks : HoldStands(b)'
      BY <1>t, <1>4, OthersHold, OwnHold
    <2>2. \A m \in Months : period'[m].llm = SumOf(OwedIn(m)', Asks)
      BY <1>t, <1>4, OwedStep
    <2>3. ASSUME NEW k \in AskKeys, reserved'[k] = NoHold PROVE settled'[k] = NoHold
      <3>0. /\ AskKeyOf[a] \in AskKeys /\ (reserved[k] = NoHold => settled[k] = NoHold)
            /\ ask[a].pc \notin {"idle", "refused"} => ask[a].month # None
        BY AskFacts DEF CreditsStand
      <3>1. CASE Waits(a)
        BY <2>3, <3>0, <3>1 DEF Waits
      <3>2. CASE Books(a)
        <4>1. AskKeyOf[a] # k
          <5>1. reserved'[AskKeyOf[a]].month = ask[a].month
            BY <3>0, <3>2 DEF Books, Typed, TypeOK, BudgetTypes
          <5>2. ask[a].month # None
            BY <3>0, <3>2 DEF Books
          <5> QED BY <2>3, <5>1, <5>2 DEF NoHold
        <4> QED BY <2>3, <3>0, <3>2, <4>1 DEF Books, Typed, TypeOK, BudgetTypes
      <3>3. CASE Releases(a)
        <4>1. reserved[AskKeyOf[a]] # NoHold
          <5>1. reserved[AskKeyOf[a]] = [month |-> ask[a].month, cents |-> ReserveOf[a]]
            BY <3>3 DEF CreditsStand, HoldStands, Releases, Booked
          <5>2. ask[a].month # None
            BY <3>0, <3>3 DEF Releases
          <5> QED BY <5>1, <5>2 DEF NoHold
        <4>2. AskKeyOf[a] # k /\ reserved[k] = NoHold
          BY <2>3, <3>3, <4>1 DEF Releases
        <4> QED BY <3>0, <3>3, <4>2 DEF Releases, Typed, TypeOK, BudgetTypes
      <3> QED BY <1>4, <3>1, <3>2, <3>3
    <2> QED BY <2>1, <2>2, <2>3 DEF CreditsStand
  <1> QED BY <1>1, <1>2, <1>3, <1>4, MoneyStep

\* What the rows of f hold for month m, row by row.
CentsIn(f, m) == [o \in AskKeys |-> IF f[o].month = m THEN f[o].cents ELSE 0]

\* One row is added for a month; the others stay.
LEMMA RowAdded ==
  ASSUME NEW m \in Months, NEW f, NEW g, NEW k \in AskKeys, NEW month \in Months, NEW n \in Int,
         f \in [AskKeys -> [month : Months \cup {None}, cents : Nat]], f[k] = NoHold,
         g = [f EXCEPT ![k] = [month |-> month, cents |-> n]]
  PROVE  SumOf(CentsIn(g, m), AskKeys)
           = SumOf(CentsIn(f, m), AskKeys) + (IF month = m THEN n ELSE 0)
  <1> DEFINE old == CentsIn(f, m)
             new == CentsIn(g, m)
  <1>0. m # None
    BY DEF Months
  <1>1. old[k] = 0
    BY <1>0 DEF NoHold, CentsIn
  <1>2. new[k] = IF month = m THEN n ELSE 0
    BY DEF CentsIn
  <1>3. \A o \in AskKeys : o # k => new[o] = old[o]
    BY DEF CentsIn
  <1>4. \A o \in AskKeys : old[o] \in Int
    BY DEF CentsIn
  <1> HIDE DEF old, new
  <1>5. \A o \in AskKeys : new[o] \in Int
    BY <1>2, <1>3, <1>4
  <1>6. SumOf(new, AskKeys) = SumOf(old, AskKeys) + (new[k] - old[k])
    <2>1. IsFiniteSet(AskKeys) /\ k \in AskKeys
      BY FiniteKeys
    <2>2. \A y \in AskKeys : old[y] \in Int /\ new[y] \in Int
      BY <1>4, <1>5
    <2> QED BY ONLY <2>1, <2>2, <1>3, SumChange
  <1>7. new[k] - old[k] = IF month = m THEN n ELSE 0
    BY <1>1, <1>2
  <1> QED BY <1>6, <1>7 DEF old, new

LEMMA LlmLedgerStep ==
  ASSUME Typed, RowsExclusive, RowsBlank, LlmLedgerIsAggregate, [Next]_vars
  PROVE  LlmLedgerIsAggregate'
  <1>1. SUFFICES ASSUME NEW m \in Months
                 PROVE  period'[m].llm + SumOf(ReleasedIn(m)', AskKeys)
                            = SumOf(ReservedIn(m)', AskKeys)
    BY DEF LlmLedgerIsAggregate
  <1> DEFINE booked == SumOf(ReservedIn(m), AskKeys)
             released == SumOf(ReleasedIn(m), AskKeys)
  <1>2. period[m].llm + released = booked
    BY DEF LlmLedgerIsAggregate
  <1>3. /\ reserved \in [AskKeys -> [month : Months \cup {None}, cents : Nat]]
        /\ settled \in [AskKeys -> [month : Months \cup {None}, cents : Nat]]
    BY DEF Typed, TypeOK, BudgetTypes
  <1>4. booked \in Int /\ released \in Int
    <2>1. \A k \in AskKeys : ReservedIn(m)[k] \in Int /\ ReleasedIn(m)[k] \in Int
      BY <1>3 DEF ReservedIn, ReleasedIn
    <2> QED BY <2>1, FiniteKeys, SumFirst
  <1>5. period[m].llm \in Int
    BY RowFields DEF Typed, TypeOK, PeriodTypes
  <1>6. ASSUME reserved' = reserved PROVE SumOf(ReservedIn(m)', AskKeys) = booked
    BY <1>6 DEF ReservedIn
  <1>7. ASSUME settled' = settled PROVE SumOf(ReleasedIn(m)', AskKeys) = released
    BY <1>7 DEF ReleasedIn
  <1>8. CASE UNCHANGED <<reserved, settled>> /\ period'[m].llm = period[m].llm
    BY <1>2, <1>6, <1>7, <1>8
  <1>9. ASSUME NEW a \in Asks, Books(a)
        PROVE  period'[m].llm + SumOf(ReleasedIn(m)', AskKeys) = SumOf(ReservedIn(m)', AskKeys)
    <2> DEFINE n == IF ask[a].month = m THEN ReserveOf[a] ELSE 0
    <2>1. ask[a].month \in Months /\ AskKeyOf[a] \in AskKeys /\ ReserveOf[a] \in Int
      BY <1>9, AskFacts DEF Books
    <2>2. SumOf(ReservedIn(m)', AskKeys) = booked + n
      <3>1. /\ reserved[AskKeyOf[a]] = NoHold
            /\ reserved' = [reserved EXCEPT ![AskKeyOf[a]] =
                               [month |-> ask[a].month, cents |-> ReserveOf[a]]]
        BY <1>9 DEF Books
      <3>2. SumOf(CentsIn(reserved', m), AskKeys) = SumOf(CentsIn(reserved, m), AskKeys) + n
        BY <1>1, <1>3, <2>1, <3>1, RowAdded
      <3> QED BY <3>2 DEF ReservedIn, CentsIn
    <2>3. period'[m].llm = period[m].llm + n
      BY <1>5, <1>9, <2>1 DEF Books, LlmBy
    <2>4. SumOf(ReleasedIn(m)', AskKeys) = released
      BY <1>7, <1>9 DEF Books
    <2>5. n \in Int
      BY <2>1
    <2> HIDE DEF n, booked, released
    <2> QED BY <1>2, <1>4, <1>5, <2>2, <2>3, <2>4, <2>5
  <1>10. ASSUME NEW a \in Asks, Releases(a)
         PROVE  period'[m].llm + SumOf(ReleasedIn(m)', AskKeys) = SumOf(ReservedIn(m)', AskKeys)
    <2> DEFINE unspent == ReserveOf[a] - ask[a].cost
               n == IF ask[a].month = m THEN unspent ELSE 0
    <2>1. ask[a].month \in Months /\ AskKeyOf[a] \in AskKeys /\ unspent \in Int
      BY <1>10, AskFacts DEF Releases
    <2>a. /\ settled[AskKeyOf[a]] = NoHold /\ LlmBy(ask[a].month, -unspent) /\ reserved' = reserved
          /\ settled' = [settled EXCEPT ![AskKeyOf[a]] =
                            [month |-> ask[a].month, cents |-> unspent]]
      BY <1>10 DEF Releases
    <2> HIDE DEF unspent
    <2>2. SumOf(ReleasedIn(m)', AskKeys) = released + n
      <3>1. SumOf(CentsIn(settled', m), AskKeys) = SumOf(CentsIn(settled, m), AskKeys) + n
        BY <1>1, <1>3, <2>1, <2>a, RowAdded
      <3> QED BY <3>1 DEF ReleasedIn, CentsIn
    <2>3. period'[m].llm = period[m].llm - n
      BY <1>5, <2>a, <2>1 DEF LlmBy
    <2>4. SumOf(ReservedIn(m)', AskKeys) = booked
      BY <1>6, <2>a
    <2>5. n \in Int
      BY <2>1
    <2> HIDE DEF n, booked, released
    <2> QED BY <1>2, <1>4, <1>5, <2>2, <2>3, <2>4, <2>5
  <1> QED
    BY <1>8, <1>9, <1>10, MoneyStep DEF CountsKept, SameCounts, CommitCounts, BonusOnly, Waits, budgetVars

-----------------------------------------------------------------------------
(* The counters and their rows at every step *)

LEMMA InitCounts ==
  ASSUME Init
  PROVE  /\ \A m \in Months : Blank(period[m])
         /\ \A t \in Txs, m \in Months : ~fresh[t][m].there /\ Blank(fresh[t][m])
  <1>1. Blank(NoPeriod) /\ ~NoPeriod.there
    BY DEF Blank, NoPeriod
  <1>2. period = NoRows \/ period = [NoRows EXCEPT ![sub.start] = OpenRow(NoRows, sub.start, sub.plan)]
    BY DEF Init, InitPeriods
  <1>3. \A m \in Months : period[m] = NoPeriod \/ period[m] = OpenRow(NoRows, sub.start, sub.plan)
    BY <1>2 DEF NoRows
  <1>4. \A t \in Txs, m \in Months : fresh[t][m] = NoPeriod
    BY DEF Init, InitPeriods, NoRows
  <1> QED BY <1>1, <1>3, <1>4, OpenRowBlank

LEMMA InitMoney ==
  ASSUME Init
  PROVE  MoneyInv
  <1>1. \A m \in Months : Blank(period[m])
    BY InitCounts
  <1>2. RowsBlank
    BY InitCounts DEF RowsBlank
  <1>3. \A c \in Calls : call[c] = IdleCall
    BY DEF Init, InitLedger
  <1>4. \A a \in Asks : ask[a] = IdleAsk
    BY DEF Init, InitBudget
  <1>5. \A k \in AskKeys : reserved[k] = NoHold /\ settled[k] = NoHold
    BY DEF Init, InitBudget
  <1>6. PeriodsFound /\ LocksHeld /\ CommitsAgree
    BY <1>3, <1>4 DEF PeriodsFound, LocksHeld, CommitsAgree, Inserting, IdleCall, IdleAsk
  <1>7. CapKept
    <2>1. sub.pending = None
      BY DEF Init, InitPeriods
    <2>2. \A r \in Rotators : ~Busy(r)
      BY DEF Init, InitRotation, IdleRotator, Busy
    <2> QED BY <2>1, <2>2 DEF CapKept
  <1>8. \A m \in Months : m # None
    BY DEF Months
  <1>9. LedgerIsAggregate
    <2> SUFFICES ASSUME NEW m \in Months PROVE period[m].ops = SumOf(OpsIn(m), Keys)
      BY DEF LedgerIsAggregate
    <2>1. \A k \in Keys : OpsIn(m)[k] = 0
      BY <1>8 DEF OpsIn, Init, InitLedger, NoEntry
    <2>2. SumOf(OpsIn(m), Keys) = 0
      BY <2>1, FiniteKeys, SumZero
    <2> QED BY <2>2, <1>1 DEF Blank
  <1>10. OverageAgrees /\ NotOvercharged
    <2>1. \A m \in Months : period[m].ops = 0 /\ period[m].overage = 0 /\ period[m].bonus = 0
      BY <1>1 DEF Blank
    <2>2. ResolvedOps(sub) \in Nat
      BY InitTyped, ResolvedType DEF Typed, TypeOK, PeriodTypes
    <2>3. \A m \in Months : OverageOf(0, period[m], sub) = 0
      BY <2>1, <2>2 DEF OverageOf, Excess
    <2>4. \A m \in Months : paid[m].times = 0 /\ paid[m].ops = 0
      BY DEF Init, InitRotation
    <2> QED BY <2>1, <2>3, <2>4 DEF OverageAgrees, NotOvercharged
  <1>11. CreditsStand
    <2>1. \A a \in Asks : HoldStands(a)
      BY <1>4 DEF HoldStands, IdleAsk, Booked
    <2>2. ASSUME NEW m \in Months PROVE period[m].llm = SumOf(OwedIn(m), Asks)
      <3>1. \A a \in Asks : OwedIn(m)[a] = 0
        BY <1>4 DEF OwedIn, Owed, IdleAsk, Booked
      <3>2. SumOf(OwedIn(m), Asks) = 0
        BY <3>1, SumZero
      <3> QED BY <3>2, <1>1 DEF Blank
    <2> QED BY <1>5, <2>1, <2>2 DEF CreditsStand
  <1>12. LlmLedgerIsAggregate
    <2> SUFFICES ASSUME NEW m \in Months
                 PROVE  period[m].llm + SumOf(ReleasedIn(m), AskKeys)
                          = SumOf(ReservedIn(m), AskKeys)
      BY DEF LlmLedgerIsAggregate
    <2>1. \A k \in AskKeys : ReleasedIn(m)[k] = 0 /\ ReservedIn(m)[k] = 0
      BY <1>5 DEF ReleasedIn, ReservedIn, NoHold
    <2>2. SumOf(ReleasedIn(m), AskKeys) = 0 /\ SumOf(ReservedIn(m), AskKeys) = 0
      BY <2>1, FiniteKeys, SumZero
    <2>3. period[m].llm = 0
      BY <1>1 DEF Blank
    <2> QED BY <2>2, <2>3
  <1> QED BY <1>2, <1>6, <1>7, <1>9, <1>10, <1>11, <1>12 DEF MoneyInv, BillAddsUp

\* MoneyInv is kept by every step of the calendar, of operations, calls and rotators.
LEMMA StepMoney ==
  ASSUME Typed, RowsExclusive, MoneyInv, [Next]_vars
  PROVE  MoneyInv'
  <1>1. /\ RowsBlank /\ PeriodsFound /\ LocksHeld /\ CapKept /\ CommitsAgree
        /\ LedgerIsAggregate /\ OverageAgrees /\ NotOvercharged
        /\ CreditsStand /\ LlmLedgerIsAggregate
    BY DEF MoneyInv, BillAddsUp
  <1>2. RowsBlank' /\ PeriodsFound' /\ LocksHeld'
    BY <1>1, RowsBlankStep, PeriodsFoundStep, LocksStep
  <1>3. CapKept' /\ CommitsAgree'
    BY <1>1, CapStep, CommitsStep
  <1>4. LedgerIsAggregate' /\ OverageAgrees' /\ NotOvercharged'
    BY <1>1, LedgerStep, OverageStep, NotOverchargedStep
  <1>5. CreditsStand' /\ LlmLedgerIsAggregate'
    BY <1>1, CreditsStep, LlmLedgerStep
  <1> QED BY <1>2, <1>3, <1>4, <1>5 DEF MoneyInv, BillAddsUp

LEMMA MoneyInductive == Spec => [](Typed /\ RowsExclusive /\ MoneyInv)
  <1>1. Init => MoneyInv
    BY InitMoney
  <1>2. Typed /\ RowsExclusive /\ MoneyInv /\ [Next]_vars => MoneyInv'
    BY StepMoney
  <1> QED BY <1>1, <1>2, RowsInductive, PTL DEF Spec

\* BillAddsUp: whatever operations race on a key or a period, and whoever provisions,
\* rotates, dies or rolls back, a period's ops_used is the sum of its ledger rows, its
\* overage is what that exceeds the cap by, and what PayPal took for it is at most that
\* much per capture.
THEOREM BillAlwaysAddsUp == Spec => []BillAddsUp
  <1>1. MoneyInv => BillAddsUp
    BY DEF MoneyInv
  <1> QED BY <1>1, MoneyInductive, PTL

LEMMA CostIsOwed ==
  ASSUME Typed, CreditsStand
  PROVE  NeverUndercounted
  <1> SUFFICES ASSUME NEW m \in Months PROVE SumOf(CostIn(m), Asks) <= period[m].llm
    BY DEF NeverUndercounted
  <1>1. \A a \in Asks : HoldStands(a)
    BY DEF CreditsStand
  <1>2. ASSUME NEW a \in Asks
        PROVE  CostIn(m)[a] \in Int /\ OwedIn(m)[a] \in Int /\ CostIn(m)[a] <= OwedIn(m)[a]
    <2>1. /\ ask[a].cost \in Nat /\ ReserveOf[a] \in Nat /\ ask[a].cost <= ReserveOf[a]
          /\ ask[a].pc \notin Booked => ask[a].cost = 0
      BY <1>1, AskFacts DEF HoldStands
    <2>2. ask[a].pc = "settled" => ask[a].pc \in Booked
      BY DEF Booked
    <2>3. Owed(a) \in Int /\ ask[a].cost <= Owed(a)
      BY <2>1, <2>2 DEF Owed
    <2>4. /\ CostIn(m)[a] = IF ask[a].month = m THEN ask[a].cost ELSE 0
          /\ OwedIn(m)[a] = IF ask[a].month = m THEN Owed(a) ELSE 0
      BY DEF CostIn, OwedIn
    <2> QED BY <2>1, <2>3, <2>4
  <1>3. SumOf(CostIn(m), Asks) <= SumOf(OwedIn(m), Asks)
    BY <1>2, SumAtMost
  <1> QED BY <1>3 DEF CreditsStand

\* CreditsAccounted: a period's llm_cost_cents is what its reserve rows book less what
\* its settle rows release, and never less than its LLM calls cost, whatever is repeated,
\* abandoned or rolled over.
THEOREM CreditsAlwaysAccounted == Spec => []CreditsAccounted
  <1>1. Typed /\ MoneyInv => CreditsAccounted
    BY CostIsOwed DEF MoneyInv, CreditsAccounted
  <1> QED BY <1>1, MoneyInductive, PTL

-----------------------------------------------------------------------------
(* The counters implement the meter *)

CountedKeys == {k \in Keys : Posted(k)}
OpsOf == [m \in Months |-> period[m].ops]

LEMMA InitMeter ==
  ASSUME Init
  PROVE  MeterView!Init
  <1>1. \A k \in Keys : ~Posted(k)
    BY DEF Init, InitLedger, Posted
  <1>2. \A m \in Months : OpsOf[m] = 0
    BY InitCounts DEF OpsOf, Blank
  <1>3. SumOf(OpsOf, Months) = 0
    BY <1>2, FiniteKeys, SumZero
  <1> QED BY <1>1, <1>3 DEF MeterView!Init, OpsOf

\* A commit counts its key, which was not counted, with its units; nothing else counts.
LEMMA StepMeter ==
  ASSUME Typed, RowsExclusive, RowsBlank, LocksHeld, [Next]_vars
  PROVE  \/ \E k \in Keys, n \in {UnitsOf[c] : c \in Calls} : MeterView!Count(k, n)
         \/ UNCHANGED <<CountedKeys, SumOf(OpsOf, Months)>>
  <1>t. Typed'
    BY StepTyped
  <1>i. \A m \in Months : period[m].ops \in Int /\ period'[m].ops \in Int
    BY <1>t, RowFields DEF Typed, TypeOK, PeriodTypes
  <1>1. ASSUME \A m \in Months : period'[m].ops = period[m].ops
        PROVE  SumOf(OpsOf, Months)' = SumOf(OpsOf, Months)
    <2>1. OpsOf' = OpsOf
      BY <1>1 DEF OpsOf
    <2> QED BY <2>1
  <1>2. ASSUME UNCHANGED ledger PROVE CountedKeys' = CountedKeys
    BY <1>2 DEF CountedKeys, Posted
  <1>3. CASE CountsKept /\ UNCHANGED <<ledger, budgetVars>>
    BY <1>1, <1>2, <1>3 DEF CountsKept, SameCounts
  <1>4. ASSUME NEW c \in Calls, Commit(c), CommitCounts(c)
        PROVE  MeterView!Count(KeyOf[c], UnitsOf[c])
    <2> DEFINE m == call[c].month
               k == KeyOf[c]
    <2>1. /\ m \in Months /\ period'[m].ops = period[m].ops + UnitsOf[c]
          /\ \A o \in Months \ {m} : period'[o].ops = period[o].ops
      BY <1>4 DEF CommitCounts, SameCounts
    <2>2. SumOf(OpsOf, Months)' = SumOf(OpsOf, Months) + UnitsOf[c]
      <3> DEFINE old == OpsOf
                 new == [o \in Months |-> period'[o].ops]
      <3>1. \A o \in Months : old[o] \in Int /\ new[o] \in Int
        BY <1>i DEF OpsOf
      <3>2. \A o \in Months : o # m => new[o] = old[o]
        BY <2>1 DEF OpsOf
      <3>3. new[m] - old[m] = UnitsOf[c]
        BY <2>1, <1>i DEF OpsOf
      <3>4. OpsOf' = new
        BY DEF OpsOf
      <3>5. m \in Months /\ IsFiniteSet(Months)
        BY <2>1, FiniteKeys
      <3> HIDE DEF old, new, m
      <3>6. SumOf(new, Months) = SumOf(old, Months) + (new[m] - old[m])
        BY ONLY <3>1, <3>2, <3>5, SumChange
      <3> QED BY <3>3, <3>4, <3>6 DEF old
    <2>3. k \in Keys /\ ~Posted(k)
      BY <1>4 DEF LocksHeld, Inserting, Commit, Keys
    <2>4. ledger' = [ledger EXCEPT ![k] = [month |-> m, units |-> UnitsOf[c]]]
      BY <1>4 DEF Commit
    <2>5. Posted(k)' /\ \A o \in Keys \ {k} : Posted(o)' = Posted(o)
      BY <2>1, <2>3, <2>4 DEF Posted, NoEntry, Typed, TypeOK, LedgerTypes, Months
    <2>6. CountedKeys' = CountedKeys \cup {k} /\ k \notin CountedKeys
      BY <2>3, <2>5 DEF CountedKeys
    <2> QED BY <2>2, <2>6 DEF MeterView!Count, CountedKeys, OpsOf
  <1>5. ASSUME UNCHANGED ledgerVars, \A m \in Months : period'[m].ops = period[m].ops
        PROVE  UNCHANGED <<CountedKeys, SumOf(OpsOf, Months)>>
    BY <1>1, <1>2, <1>5 DEF ledgerVars
  <1>6. ASSUME NEW a \in Asks, Books(a) \/ Releases(a) \/ Waits(a)
        PROVE  \A m \in Months : period'[m].ops = period[m].ops
    BY <1>6, AskFacts DEF Books, Releases, Waits, LlmBy, Typed, TypeOK, PeriodTypes, PeriodRows
  <1>7. CASE \E c \in Calls : Commit(c) /\ CommitCounts(c)
    BY <1>4, <1>7 DEF Keys
  <1>8. CASE /\ \E a \in Asks : /\ Books(a) \/ Releases(a) \/ Waits(a)
                                /\ \A b \in Asks \ {a} : ask'[b] = ask[b]
             /\ UNCHANGED <<clock, sub, fresh, ledgerVars, rotationVars>>
    BY <1>5, <1>6, <1>8
  <1>9. CASE BonusOnly /\ UNCHANGED <<fresh, ledgerVars, budgetVars>>
    BY <1>5, <1>9 DEF BonusOnly
  <1> QED BY <1>3, <1>7, <1>8, <1>9, MoneyStep

\* ImplementsMeter: over every history of operations, retries, rollbacks, rotations and
\* LLM calls the ledger and the counters behave like one meter that counts each
\* idempotency key at most once, and nothing but counted keys moves its total.
THEOREM MeterImplemented == Spec => ImplementsMeter
  <1>1. Init => MeterView!Init
    BY InitMeter
  <1>2. Typed /\ RowsExclusive /\ MoneyInv /\ [Next]_vars
          => [MeterView!Next]_<<CountedKeys, SumOf(OpsOf, Months)>>
    BY StepMeter DEF MoneyInv, MeterView!Next
  <1> QED BY <1>1, <1>2, MoneyInductive, PTL
             DEF Spec, ImplementsMeter, MeterView!Spec, CountedKeys, OpsOf

=============================================================================
