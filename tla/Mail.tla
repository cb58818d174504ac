-------------------------------- MODULE Mail --------------------------------
(***************************************************************************)
(* The two mail passes the timers start: onboarding mail of one user       *)
(* (lifecycle_emails, founder_call) and billing mail of one subscription   *)
(* (subscription_emails).  Both claim a key in ch_email_log, commit, send, *)
(* record; both retry unsent rows.  Runs may overlap, crash anywhere, and  *)
(* an answer of the mail service may be lost after it delivered.           *)
(*                                                                         *)
(* A unit of time is longer than any send (the service's timeouts are 13 s)*)
(* so the clock stands still while one is under way; it is the grace a     *)
(* retry leaves a claim, and what the stages call old enough.              *)
(***************************************************************************)
EXTENDS Common, Sequences, FiniteSets

CONSTANTS
    Passes,
    RetryWindow,        \* RETRY_WINDOW_HOURS
    RetryCap,           \* RETRY_CAP, DEFAULT_RETRY_CAP
    ReceiptCap,         \* RETRY_CAPS["overage_receipt"]
    MaxSends,           \* MAX_LIFECYCLE_SENDS_PER_TICK
    OfferCap, Cooldown, \* LIFETIME_OFFER_CAP, COOLDOWN_DAYS
    PeriodLength,
    MaxMailTime, MaxRuns, MaxMailFaults, MaxEvents   \* bounds

\* a mail has a first try, a stage may send none, and a period lasts
ASSUME MailAssumption ==
    /\ RetryCap \in Nat \ {0} /\ ReceiptCap \in Nat \ {0}
    /\ MaxSends \in Nat /\ PeriodLength \in Nat \ {0}

Stages == <<"verify_1", "verify_2", "no_key", "no_call", "stuck", "activated", "founder_call">>
Types  == <<"overage_receipt", "renewal", "upcoming_plan", "upcoming_storage", "storage_lapse">>
Reminders == {"upcoming_plan", "upcoming_storage", "storage_lapse"}
LastPeriod == MaxMailTime \div PeriodLength

\* email_key: the stage, or the type with its period; an offer has its number
LifecycleKeys == {<<s, 0>> : s \in {Stages[i] : i \in 1..6}}
                 \cup {<<"founder_call", n>> : n \in 1..OfferCap}
BillingKeys == {<<t, n>> : t \in {"overage_receipt", "renewal", "upcoming_plan"},
                           n \in 0..LastPeriod}
               \cup {<<t, 0>> : t \in {"upcoming_storage", "storage_lapse"}}
MailKeys == LifecycleKeys \cup BillingKeys

VARIABLES
    family,     \* which of the two passes this behaviour is about
    clock,
    person,     \* the user: account age, milestones, opt-out
    plan,       \* the subscription
    mailLog,    \* ch_email_log
    pass,       \* each run
    runs, mailFaults, events,
    delivered, lost   \* per key: mails that arrived, and those whose row was not told

worldVars == <<person, plan, events>>
mailVars == <<family, clock, person, plan, mailLog, pass, runs, mailFaults, events,
              delivered, lost>>

NoEvent == -1
NoRow == [made |-> -1, attempts |-> 0, ok |-> FALSE, err |-> None, event |-> NoEvent]
NoRun == [at |-> "idle", now |-> 0, dry |-> FALSE, budget |-> 0, stage |-> 1, key |-> <<None, 0>>,
          ids |-> {}, ok |-> FALSE, outBefore |-> FALSE]
Claimed == {k \in MailKeys : mailLog[k].made # -1}
Schedule == IF family = "lifecycle" THEN Stages ELSE Types
CapOf(k) == IF k[1] = "overage_receipt" THEN ReceiptCap ELSE RetryCap
Step(p, at) == pass' = [pass EXCEPT ![p].at = at]

-----------------------------------------------------------------------------
(* Whom a mail is for: the candidate queries with their builders, and the  *)
(* rechecks                                                                *)

\* milestones ripen with the clock
Ripened(m) == IF m = "fresh" THEN "ripe" ELSE m

\* _SUPPRESSED
Mailable == ~person.out

Offers == {k \in Claimed : k[1] = "founder_call"}

LifecycleCandidate(k, now) ==
    /\ Mailable /\ k \notin Claimed
    /\ CASE k[1] = "verify_1" -> person.verified = "no" /\ person.age >= 1
         [] k[1] = "verify_2" -> /\ person.verified = "no" /\ person.age >= 2
                                 /\ mailLog[<<"verify_1", 0>>].ok
         [] k[1] = "no_key"   -> person.verified = "ripe" /\ person.key = "no"
         [] k[1] = "no_call"  -> /\ person.verified # "no" /\ person.key = "ripe"
                                 /\ person.used = "no"
         [] k[1] = "stuck"    -> /\ person.used = "ripe" /\ person.failed >= 2
                                 /\ ~person.success
         [] k[1] = "activated" -> person.used # "no"
         [] OTHER -> /\ person.age >= 2 /\ person.verified # "no" /\ person.used # "no"
                     /\ person.band
                     /\ k[2] = Cardinality(Offers) + 1
                     /\ \A o \in Offers : mailLog[o].made <= now - Cooldown

BillingCandidate(k, now) ==
    CASE k[1] = "overage_receipt" -> k[2] \in plan.captured
      [] k[1] = "renewal" -> /\ plan.linked /\ k[2] = plan.period /\ plan.period > 0
                             /\ plan.ends - PeriodLength > now - 3
      [] k[1] = "upcoming_plan" -> /\ plan.paying /\ plan.linked /\ k[2] = plan.period
                                   /\ plan.ends > now /\ plan.ends <= now + 2
      [] k[1] = "upcoming_storage" -> /\ plan.storage = "active"
                                      /\ plan.storageEnd > now /\ plan.storageEnd <= now + 2
      [] OTHER -> /\ plan.storage = "cancelled"
                  /\ plan.storageEnd > now /\ plan.storageEnd <= now + 3

Candidate(k, now) ==
    IF family = "lifecycle" THEN k \in LifecycleKeys /\ LifecycleCandidate(k, now)
    ELSE k \in BillingKeys /\ BillingCandidate(k, now)

\* event_at: what a reminder announces
EventOf(k) ==
    IF k[1] = "upcoming_plan" THEN plan.ends
    ELSE IF k[1] \in Reminders THEN plan.storageEnd ELSE NoEvent

\* _RECHECKS; billing mail has none
RecheckHolds(k) ==
    family = "lifecycle" =>
        /\ Mailable
        /\ CASE k[1] \in {"verify_1", "verify_2"} -> person.verified = "no"
             [] k[1] = "no_key"  -> person.verified # "no" /\ person.key = "no"
             [] k[1] = "no_call" -> person.used = "no"
             [] k[1] = "stuck"   -> ~person.success
             [] OTHER -> TRUE

\* is_expired
Expired(k, now) == mailLog[k].event # NoEvent /\ mailLog[k].event <= now

\* _RETRYABLE_IDS
Retryable(now) ==
    {k \in Claimed : /\ ~mailLog[k].ok /\ mailLog[k].err # "dry_run"
                     /\ mailLog[k].made > now - RetryWindow /\ mailLog[k].made < now
                     /\ mailLog[k].attempts < RetryCap}

-----------------------------------------------------------------------------
(* The world: the user, the mail service's webhook, the billing rotation *)

Idle(p) == pass[p].at = "idle"
SendUnderWay == \E p \in Passes : pass[p].at \in {"check", "send", "record", "resend", "rerecord"}
NoMail == UNCHANGED <<mailLog, pass, runs, mailFaults, delivered, lost>>

Tick ==
    /\ clock < MaxMailTime /\ ~SendUnderWay
    /\ clock' = clock + 1
    /\ person' = [person EXCEPT !.age = Least(@ + 1, 2), !.verified = Ripened(@),
                                !.key = Ripened(@), !.used = Ripened(@)]
    /\ NoMail /\ UNCHANGED <<family, plan, events>>

Happens == events < MaxEvents /\ events' = events + 1 /\ NoMail /\ UNCHANGED <<family, clock>>

Lives(next) == family = "lifecycle" /\ person' = next /\ Happens /\ UNCHANGED plan

VerifyEmail == person.verified = "no" /\ Lives([person EXCEPT !.verified = "fresh"])
CreateKey   == person.key = "no" /\ Lives([person EXCEPT !.key = "fresh"])
UseKey(good) ==
    /\ person.key # "no" /\ ~person.success
    /\ good \/ person.failed < 2
    /\ Lives([person EXCEPT !.used = IF @ = "no" THEN "fresh" ELSE @, !.success = good,
                            !.failed = IF good THEN @ ELSE @ + 1, !.band = good])
\* unsubscribe, or a bounce or complaint reported to the webhook
OptOut == ~person.out /\ Lives([person EXCEPT !.out = TRUE])

Bills(next) == family = "billing" /\ plan' = next /\ Happens /\ UNCHANGED person

RotatePlan ==
    /\ clock >= plan.ends /\ plan.period < LastPeriod
    /\ \E took \in SUBSET {plan.period} :
          Bills([plan EXCEPT !.period = @ + 1, !.ends = @ + PeriodLength,
                             !.captured = @ \cup took])
\* the provider is dropped, the payment id kept for the webhook
CancelPlan    == plan.paying /\ Bills([plan EXCEPT !.paying = FALSE])
CancelStorage == plan.storage = "active" /\ Bills([plan EXCEPT !.storage = "cancelled"])

-----------------------------------------------------------------------------
(* A run *)

StartRun(p) ==
    /\ Idle(p) /\ runs < MaxRuns
    /\ \E dry \in IF family = "lifecycle" THEN BOOLEAN ELSE {FALSE} :
          pass' = [pass EXCEPT ![p] = [NoRun EXCEPT !.at = "scan", !.now = clock, !.dry = dry,
                                          !.budget = MaxSends, !.outBefore = person.out]]
    /\ runs' = runs + 1
    /\ UNCHANGED <<family, clock, worldVars, mailLog, mailFaults, delivered, lost>>

\* the stages in order: those without a candidate are passed over; an exhausted budget
\* ends each stage at its first candidate
Found(p) == {i \in pass[p].stage..Len(Schedule) :
                \E k \in MailKeys : k[1] = Schedule[i] /\ Candidate(k, pass[p].now)}

Scan(p) ==
    /\ pass[p].at = "scan" /\ pass[p].budget > 0 /\ Found(p) # {}
    /\ \E k \in MailKeys :
          /\ k[1] = Schedule[Min(Found(p))] /\ Candidate(k, pass[p].now)
          /\ pass' = [pass EXCEPT ![p].at = "claim", ![p].key = k,
                                  ![p].stage = Min(Found(p)) + 1]
    /\ UNCHANGED <<family, clock, worldVars, mailLog, runs, mailFaults, delivered, lost>>

MutClaim(p) ==      \* the claim does not look at the log
    /\ pass[p].at = "claim"
    /\ LET k == pass[p].key
       IN  IF family = "lifecycle" /\ ~Mailable
           THEN Step(p, "scan") /\ UNCHANGED mailLog
           ELSE /\ mailLog' = [mailLog EXCEPT ![k] = [NoRow EXCEPT !.made = clock,
                                                        !.event = EventOf(k)]]
                /\ pass' = [pass EXCEPT ![p].at = "check",
                               ![p].budget = IF family = "lifecycle" THEN @ - 1 ELSE @]
    /\ UNCHANGED <<family, clock, worldVars, runs, mailFaults, delivered, lost>>
\* the recipient is read just before the claim; a key already claimed is passed over
Claim(p) ==
    /\ pass[p].at = "claim"
    /\ LET k == pass[p].key
       IN  IF k \in Claimed \/ (family = "lifecycle" /\ ~Mailable)
           THEN Step(p, "scan") /\ UNCHANGED mailLog
           ELSE /\ mailLog' = [mailLog EXCEPT ![k] = [NoRow EXCEPT !.made = clock,
                                                        !.event = EventOf(k)]]
                /\ pass' = [pass EXCEPT ![p].at = "check",
                               ![p].budget = IF family = "lifecycle" THEN @ - 1 ELSE @]
    /\ UNCHANGED <<family, clock, worldVars, runs, mailFaults, delivered, lost>>

\* between the committed claim and the send
Recheck(p) ==
    /\ pass[p].at = "check"
    /\ LET k == pass[p].key
       IN  \/ /\ pass[p].dry /\ Step(p, "scan")
              /\ mailLog' = [mailLog EXCEPT ![k].err = "dry_run"]
           \/ /\ ~pass[p].dry /\ ~RecheckHolds(k) /\ Step(p, "scan")
              /\ mailLog' = [mailLog EXCEPT ![k].attempts = RetryCap, ![k].err = "cleared"]
           \/ ~pass[p].dry /\ RecheckHolds(k) /\ Step(p, "send") /\ UNCHANGED mailLog
    /\ UNCHANGED <<family, clock, worldVars, runs, mailFaults, delivered, lost>>

\* delivered, refused, or delivered with the answer lost
SendTo(p, next) ==
    LET k == pass[p].key
    IN  \E arrived \in BOOLEAN, ok \in BOOLEAN :
          /\ ok => arrived
          /\ ok \/ mailFaults < MaxMailFaults
          /\ delivered' = [delivered EXCEPT ![k] = @ + IF arrived THEN 1 ELSE 0]
          /\ lost' = [lost EXCEPT ![k] = @ + IF arrived /\ ~ok THEN 1 ELSE 0]
          /\ mailFaults' = mailFaults + IF ok THEN 0 ELSE 1
          /\ pass' = [pass EXCEPT ![p].at = next, ![p].ok = ok]
          /\ UNCHANGED <<family, clock, worldVars, mailLog, runs>>

Recorded(p, next) ==
    /\ mailLog' = [mailLog EXCEPT ![pass[p].key].ok = pass[p].ok,
                                  ![pass[p].key].attempts = @ + 1]
    /\ Step(p, next)
    /\ UNCHANGED <<family, clock, worldVars, runs, mailFaults, delivered, lost>>

Send(p)   == pass[p].at = "send" /\ SendTo(p, "record")
Record(p) == pass[p].at = "record" /\ Recorded(p, "scan")

\* the stages are over; a dry run retries nothing
ScanRetries(p) ==
    /\ pass[p].at = "scan" /\ (pass[p].budget = 0 \/ Found(p) = {})
    /\ pass' = [pass EXCEPT ![p].at = IF pass[p].dry THEN "idle" ELSE "retry",
                            ![p].ids = Retryable(pass[p].now)]
    /\ UNCHANGED <<family, clock, worldVars, mailLog, runs, mailFaults, delivered, lost>>

Locked(k) == \E q \in Passes : pass[q].at \in {"resend", "rerecord"} /\ pass[q].key = k

MutRetry(p) ==      \* the retry trusts the claim
    /\ pass[p].at = "retry"
    /\ \E k \in pass[p].ids :
          /\ mailLog' = mailLog
          /\ pass' = [pass EXCEPT ![p].ids = @ \ {k}, ![p].key = k,
                         ![p].at = IF Locked(k) \/ mailLog[k].ok
                                      \/ mailLog[k].attempts >= CapOf(k) THEN "retry"
                                   ELSE "resend"]
    /\ UNCHANGED <<family, clock, worldVars, runs, mailFaults, delivered, lost>>
\* one row, one transaction: FOR UPDATE SKIP LOCKED, then the cap, the recheck or the
\* expiry, and the send under the row's lock
Retry(p) ==
    /\ pass[p].at = "retry"
    /\ \E k \in pass[p].ids :
          LET skip  == Locked(k) \/ mailLog[k].ok \/ mailLog[k].attempts >= CapOf(k)
              over  == ~RecheckHolds(k) \/ Expired(k, pass[p].now)
          IN  /\ mailLog' = IF skip \/ ~over THEN mailLog
                            ELSE [mailLog EXCEPT ![k].attempts = CapOf(k),
                                     ![k].err = IF RecheckHolds(k) THEN "expired" ELSE "cleared"]
              /\ pass' = [pass EXCEPT ![p].ids = @ \ {k}, ![p].key = k,
                             ![p].at = IF skip \/ over THEN "retry" ELSE "resend"]
    /\ UNCHANGED <<family, clock, worldVars, runs, mailFaults, delivered, lost>>

Resend(p)   == pass[p].at = "resend" /\ SendTo(p, "rerecord")
Rerecord(p) == pass[p].at = "rerecord" /\ Recorded(p, "retry")

EndRun(p) ==
    /\ pass[p].at = "retry" /\ pass[p].ids = {}
    /\ pass' = [pass EXCEPT ![p] = NoRun]
    /\ UNCHANGED <<family, clock, worldVars, mailLog, runs, mailFaults, delivered, lost>>

\* the process is killed: an open transaction rolls back
CrashRun(p) ==
    /\ ~Idle(p) /\ mailFaults < MaxMailFaults
    /\ mailFaults' = mailFaults + 1
    /\ lost' = IF pass[p].at \in {"record", "rerecord"} /\ pass[p].ok
               THEN [lost EXCEPT ![pass[p].key] = @ + 1] ELSE lost
    /\ pass' = [pass EXCEPT ![p] = NoRun]
    /\ UNCHANGED <<family, clock, worldVars, mailLog, runs, delivered>>

-----------------------------------------------------------------------------
NewPerson == [age |-> 0, verified |-> "no", key |-> "no", used |-> "no", failed |-> 0,
              success |-> FALSE, band |-> FALSE, out |-> FALSE]
\* users the timer finds: new, without a call, stuck, established
People == {NewPerson,
           [NewPerson EXCEPT !.age = 2, !.verified = "ripe", !.key = "fresh"],
           [NewPerson EXCEPT !.age = 2, !.verified = "ripe", !.key = "ripe", !.used = "ripe",
                             !.failed = 2],
           [NewPerson EXCEPT !.age = 2, !.verified = "ripe", !.key = "ripe", !.used = "ripe",
                             !.success = TRUE, !.band = TRUE]}

MailInit ==
    /\ family \in {"lifecycle", "billing"}
    /\ clock = 0 /\ runs = 0 /\ mailFaults = 0 /\ events = 0
    /\ person \in IF family = "lifecycle" THEN People ELSE {NewPerson}
    /\ plan = [period |-> 0, ends |-> PeriodLength, paying |-> TRUE, linked |-> TRUE,
               captured |-> {}, storage |-> "active", storageEnd |-> PeriodLength]
    /\ mailLog = [k \in MailKeys |-> NoRow]
    /\ pass = [p \in Passes |-> NoRun]
    /\ delivered = [k \in MailKeys |-> 0] /\ lost = [k \in MailKeys |-> 0]

PassStep(p) ==
    \/ StartRun(p) \/ Scan(p) \/ Claim(p) \/ Recheck(p) \/ Send(p) \/ Record(p)
    \/ ScanRetries(p) \/ Retry(p) \/ Resend(p) \/ Rerecord(p) \/ EndRun(p) \/ CrashRun(p)
WorldStep ==
    \/ Tick \/ VerifyEmail \/ CreateKey \/ (\E good \in BOOLEAN : UseKey(good)) \/ OptOut
    \/ RotatePlan \/ CancelPlan \/ CancelStorage
MailNext == WorldStep \/ \E p \in Passes : PassStep(p)

-----------------------------------------------------------------------------
(* Properties *)

\* Claim before send: whatever runs overlap or crash, a mail goes out again only for a
\* delivery its row was never told of, within the row's cap, and the second nudge follows a
\* first that arrived.  A run that starts after an opt-out sends nothing to that user, not
\* even what an earlier run claimed; a run sends no reminder of what is past when it starts.
SendsAreDue ==
    [][\A p \in Passes : pass[p].at \in {"send", "resend"} =>
          LET k == pass[p].key
          IN  delivered'[k] > delivered[k] =>
                /\ delivered[k] <= lost[k]
                /\ mailLog[k].attempts < CapOf(k)
                /\ k[1] = "verify_2" => delivered[<<"verify_1", 0>>] > 0
                /\ family = "lifecycle" => ~pass[p].outBefore
                /\ mailLog[k].event # NoEvent => mailLog[k].event > pass[p].now]_mailVars
=============================================================================
