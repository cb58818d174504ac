---------------------------- MODULE ConvertProofs ----------------------------
(***************************************************************************)
(* Machine-checked facts about the /v1/convert endpoints: the admission    *)
(* gate's counters, and the agreement of activity rows, charges, job rows, *)
(* objects and verdicts, for any uploads, renders, batches and limits.     *)
(***************************************************************************)
EXTENDS Convert, Sums

USE ConvertAssumption

-----------------------------------------------------------------------------
(* Types *)

Ids == SyncCalls \cup BatchItems
ObjectKeys == {None} \cup Ids \cup AsyncCalls
Replies == {None} \cup Nat
ConvPlaces == {"idle", "admission", "queued", "converting", "gray", "screening", "rendering",
               "closing", "answered"}
Calls == [at : ConvPlaces, reply : Replies]
Activities == [status : {"absent", InProgress, "Success", "Failed"}, key : ObjectKeys]
JobRows == [project : {None} \cup {ProjectOf[c] : c \in SyncCalls},
            status : {None, "", "success", "failed"}, key : ObjectKeys]
ZipPlaces == {"idle", "broken", "render", "bundle", "stamp", "abort", "settled"}
ZipJobs == [at : ZipPlaces, zip : BOOLEAN, i : Nat \ {0}, files : SUBSET BatchItems]

CallsTyped ==
    /\ conv \in [SyncCalls -> Calls]
    /\ \A c \in Uploads : conv[c].at \notin {"screening", "rendering", "closing"}
    /\ \A c \in UrlCalls : conv[c].at \notin {"admission", "queued", "converting", "gray"}
RowsTyped ==
    /\ activity \in [Ids -> Activities] /\ chargedConv \subseteq Ids
    /\ expiringConv \subseteq ObjectKeys /\ convFaults \in Nat
TasksTyped ==
    /\ zipJob \in [AsyncCalls -> ZipJobs]
    /\ told \in [BatchItems \cup AsyncCalls -> {None, "success", "failed"}]
    /\ \A b \in AsyncCalls : zipJob[b].at = "render" => zipJob[b].i <= UrlCount[b]
ConvTyped ==
    /\ CallsTyped /\ RowsTyped /\ TasksTyped
    /\ objects \subseteq ObjectKeys /\ jobRow \in [JobIds -> JobRows]

LEMMA Words == InProgress \notin {"absent", "Success", "Failed"}
BY Zenon DEF InProgress

LEMMA Names ==
    /\ None \in ObjectKeys /\ Ids \subseteq ObjectKeys /\ AsyncCalls \subseteq ObjectKeys
    /\ SyncCalls \subseteq Ids /\ BatchItems \subseteq Ids
    /\ Uploads \subseteq SyncCalls /\ UrlCalls \subseteq SyncCalls
    /\ None \in Replies /\ \A n \in Nat : n \in Replies
    /\ \A c \in SyncCalls : JobIdOf[c] # None => JobIdOf[c] \in JobIds
BY DEF ObjectKeys, Ids, SyncCalls, Replies, JobIds

\* The addresses of a batch are its own, one to an index.
LEMMA Addresses ==
    ASSUME NEW b \in AsyncCalls
    PROVE  /\ UrlCount[b] \in Nat \ {0}
           /\ ItemsOf(b) = {Pages[b][i] : i \in 1..UrlCount[b]} /\ ItemsOf(b) \subseteq BatchItems
           /\ \A i, k \in 1..UrlCount[b] : Pages[b][i] = Pages[b][k] => i = k
           /\ \A d \in AsyncCalls \ {b} : ItemsOf(b) \cap ItemsOf(d) = {}
<1>1. \A d \in AsyncCalls : UrlCount[d] = Len(Pages[d]) /\ Pages[d] \in Seq(BatchItems)
  BY DEF UrlCount
<1>2. UrlCount[b] \in Nat \ {0}
  BY <1>1
<1>3. \A d \in AsyncCalls : ItemsOf(d) = {Pages[d][i] : i \in 1..UrlCount[d]}
  BY <1>1 DEF ItemsOf, ToSet
<1>4. ItemsOf(b) \subseteq BatchItems
  BY DEF BatchItems
<1> QED
  BY <1>2, <1>3, <1>4

-----------------------------------------------------------------------------
(* What a store call leaves *)

Marked(id, s, key) ==
    [activity EXCEPT ![id] = [status |-> s, key |-> IF key = None THEN activity[id].key ELSE key]]
FirstSuccess(id, s) == s = "Success" /\ activity[id].status # "Success"

\* An update of a row is done, with its charge and its expiry, or a fault was spent on it.
Outcome(u, id, s, key) ==
    /\ u = [activity |-> u.activity, charged |-> u.charged, expiring |-> u.expiring,
            raised |-> u.raised, faults |-> u.faults]
    /\ u.faults \in Nat
    /\ u.activity \in {activity, Marked(id, s, key)} /\ u.raised \in BOOLEAN
    /\ u.charged \in {chargedConv, chargedConv \cup {id}}
    /\ u.expiring \in {expiringConv, expiringConv \cup {key}}
    /\ ~u.raised =>
          /\ u.faults = convFaults /\ u.activity = Marked(id, s, key)
          /\ u.charged = IF FirstSuccess(id, s) THEN chargedConv \cup {id} ELSE chargedConv
          /\ FirstSuccess(id, s) /\ key # None /\ NoStoragePlan => key \in u.expiring
    /\ u.raised => u.faults = convFaults + 1

LEMMA UpdateShape ==
    ASSUME RowsTyped, NEW id \in Ids, NEW s \in {"Success", "Failed"}, NEW key \in ObjectKeys,
           NEW u \in Updates(id, s, key)
    PROVE  Outcome(u, id, s, key)
<1> DEFINE first == FirstSuccess(id, s)
           more == chargedConv \cup {id}
           late == IF first /\ key # None /\ NoStoragePlan THEN expiringConv \cup {key}
                   ELSE expiringConv
           Result(a, ch, e, r, n) ==
               [activity |-> a, charged |-> ch, expiring |-> e, raised |-> r, faults |-> n]
           done == Result(Marked(id, s, key), IF first THEN more ELSE chargedConv, late, FALSE,
                           convFaults)
           not == Result(activity, chargedConv, expiringConv, TRUE, convFaults + 1)
           half == Result(Marked(id, s, key), chargedConv, expiringConv, TRUE, convFaults + 1)
           most == Result(Marked(id, s, key), more, expiringConv, TRUE, convFaults + 1)
<1>0. convFaults \in Nat /\ convFaults + 0 = convFaults
  BY DEF RowsTyped
<1>1. u \in {done, not, half, most}
  BY <1>0 DEF Updates, Marked, FirstSuccess
<1>2. CASE u = done
  BY <1>0, <1>2 DEF Outcome
<1>3. CASE u = not
  BY <1>0, <1>3 DEF Outcome
<1>4. CASE u = half
  BY <1>0, <1>4 DEF Outcome
<1>5. CASE u = most
  BY <1>0, <1>5 DEF Outcome
<1> QED
  BY ONLY <1>1, <1>2, <1>3, <1>4, <1>5

\* What a step did to row id and the ledger, when it meant to give it status s.
Effect(id, s, key) ==
    /\ activity' \in [Ids -> Activities] /\ \A o \in Ids \ {id} : activity'[o] = activity[o]
    /\ activity'[id].status \in {activity[id].status, s, "Failed"}
    /\ activity'[id].key = activity[id].key \/ (key # None /\ activity'[id].key = key)
    /\ chargedConv' \in {chargedConv, chargedConv \cup {id}}
    /\ expiringConv' \in {expiringConv, expiringConv \cup {key}}
    /\ convFaults' \in Nat /\ convFaults' >= convFaults
    /\ convFaults' = convFaults =>
          /\ activity'[id].status = s
          /\ activity'[id].key = IF key = None THEN activity[id].key ELSE key
          /\ chargedConv' = IF FirstSuccess(id, s) THEN chargedConv \cup {id} ELSE chargedConv
          /\ FirstSuccess(id, s) /\ key # None /\ NoStoragePlan => key \in expiringConv'

LEMMA MarkedRow ==
    ASSUME RowsTyped, NEW id \in Ids, NEW s \in {"Success", "Failed"}, NEW key \in ObjectKeys
    PROVE  /\ Marked(id, s, key) \in [Ids -> Activities]
           /\ Marked(id, s, key)[id].status = s
           /\ Marked(id, s, key)[id].key = IF key = None THEN activity[id].key ELSE key
           /\ \A o \in Ids \ {id} : Marked(id, s, key)[o] = activity[o]
BY DEF RowsTyped, Marked, Activities

LEMMA StoreEffect ==
    ASSUME RowsTyped, NEW id \in Ids, NEW s \in {"Success", "Failed"}, NEW key \in ObjectKeys,
           NEW u \in Updates(id, s, key), NEW n \in Nat,
           activity' = u.activity, chargedConv' = u.charged, expiringConv' = u.expiring,
           convFaults' = u.faults + n
    PROVE  Effect(id, s, key)
<1>1. /\ u.activity \in {activity, Marked(id, s, key)} /\ u.raised \in BOOLEAN
      /\ u.charged \in {chargedConv, chargedConv \cup {id}}
      /\ u.expiring \in {expiringConv, expiringConv \cup {key}}
      /\ ~u.raised =>
            /\ u.faults = convFaults /\ u.activity = Marked(id, s, key)
            /\ u.charged = IF FirstSuccess(id, s) THEN chargedConv \cup {id} ELSE chargedConv
            /\ FirstSuccess(id, s) /\ key # None /\ NoStoragePlan => key \in u.expiring
      /\ u.raised => u.faults = convFaults + 1
  <2>1. Outcome(u, id, s, key)
    BY UpdateShape, ZenonT(60)
  <2> QED
    BY <2>1 DEF Outcome
<1>2. activity \in [Ids -> Activities] /\ convFaults \in Nat
  BY DEF RowsTyped
<1>3. /\ convFaults' \in Nat /\ convFaults' >= convFaults
      /\ convFaults' = convFaults => ~u.raised
  BY <1>1, <1>2
<1>4. /\ activity' \in [Ids -> Activities] /\ \A o \in Ids \ {id} : activity'[o] = activity[o]
      /\ activity'[id].status \in {activity[id].status, s}
      /\ activity'[id].key = activity[id].key \/ (key # None /\ activity'[id].key = key)
  BY <1>1, <1>2, MarkedRow
<1> QED
  BY <1>1, <1>3, <1>4, MarkedRow DEF Effect

\* Telling the row of an address that could not be told of its success.
LEMMA TellEffect ==
    ASSUME RowsTyped, NEW b \in AsyncCalls, Item(b) \in Ids, NEW key \in ObjectKeys,
           TellItem(b, key)
    PROVE  Effect(Item(b), "Success", key)
<1> DEFINE id == Item(b)
<1>0. PICK u \in Updates(id, "Success", key) : \E v \in AfterRaise(b, u) : Store(v)
  BY DEF TellItem
<1>1. PICK v \in AfterRaise(b, u) : Store(v)
  BY <1>0
<1>2. CASE v = u
  <2>a. "Success" \in {"Success", "Failed"}
    OBVIOUS
  <2>b. Outcome(u, id, "Success", key)
    BY <2>a, UpdateShape, ZenonT(60)
  <2>1. u.faults = u.faults + 0
    BY <2>b DEF Outcome
  <2> QED
    BY <1>1, <1>2, <2>1, StoreEffect DEF Store
<1>3. CASE u.raised /\ v = [u EXCEPT !.faults = @ + 1]
  <2>1. /\ v.activity = u.activity /\ v.charged = u.charged /\ v.expiring = u.expiring
        /\ v.faults = u.faults + 1
    BY <1>1, <1>3, UpdateShape DEF Outcome
  <2> QED
    BY <1>1, <2>1, StoreEffect DEF Store
<1>4. CASE u.raised /\ v = [u EXCEPT !.activity[id].status = "Failed"]
  <2>1. /\ u = [activity |-> u.activity, charged |-> u.charged, expiring |-> u.expiring,
                raised |-> u.raised, faults |-> u.faults]
        /\ u.activity \in {activity, Marked(id, "Success", key)}
        /\ u.charged \in {chargedConv, chargedConv \cup {id}}
        /\ u.expiring \in {expiringConv, expiringConv \cup {key}}
        /\ u.faults = convFaults + 1
    BY <1>1, <1>4, UpdateShape DEF Outcome
  <2>2. /\ v.activity = [u.activity EXCEPT ![id].status = "Failed"] /\ v.charged = u.charged
        /\ v.expiring = u.expiring /\ v.faults = u.faults
    BY <1>4, <2>1
  <2>3. convFaults \in Nat /\ activity \in [Ids -> Activities]
    BY DEF RowsTyped
  <2>4. u.activity \in [Ids -> Activities]
    BY <2>1, <2>3, MarkedRow
  <2>5. /\ v.activity \in [Ids -> Activities]
        /\ \A o \in Ids \ {id} : v.activity[o] = u.activity[o]
        /\ v.activity[id].status = "Failed" /\ v.activity[id].key = u.activity[id].key
    <3>1. u.activity[id] \in Activities
      BY <2>4
    <3>2. v.activity[id] = [u.activity[id] EXCEPT !.status = "Failed"]
      BY <2>2, <2>4
    <3>3. v.activity[id] = [status |-> "Failed", key |-> u.activity[id].key]
      BY <3>1, <3>2 DEF Activities
    <3>a. u.activity[id].key \in ObjectKeys
      BY <3>1 DEF Activities
    <3>4. v.activity[id] \in Activities
      BY <3>a, <3>3 DEF Activities
    <3> QED
      BY <2>2, <2>4, <3>3, <3>4
  <2> QED
    BY <1>1, <2>1, <2>2, <2>3, <2>5, MarkedRow DEF Store, Effect
<1> QED
  BY <1>1, <1>2, <1>3, <1>4 DEF AfterRaise

-----------------------------------------------------------------------------
(* What each step does *)

\* The call's own await and answer.
CallOnly(c) ==
    /\ \A o \in SyncCalls \ {c} : conv'[o] = conv[o]
    /\ conv' \in [SyncCalls -> Calls]

LEMMA CallMoves ==
    ASSUME CallsTyped, NEW c \in SyncCalls
    PROVE  /\ \A step \in ConvPlaces : Await(c, step) => CallOnly(c) /\ conv'[c].at = step
           /\ \A code \in Replies : Answer(c, code) => CallOnly(c) /\ conv'[c].at = "answered"
<1>1. conv \in [SyncCalls -> Calls] /\ conv[c] \in Calls /\ "answered" \in ConvPlaces
  BY DEF CallsTyped, ConvPlaces
<1>2. ASSUME NEW step \in ConvPlaces, Await(c, step) PROVE CallOnly(c) /\ conv'[c].at = step
  <2>1. conv' = [conv EXCEPT ![c] = [at |-> step, reply |-> conv[c].reply]]
    <3>1. conv'[c] = [conv[c] EXCEPT !.at = step]
      BY <1>1, <1>2 DEF Await
    <3>2. conv[c] = [at |-> conv[c].at, reply |-> conv[c].reply]
      BY <1>1 DEF Calls
    <3>3. conv'[c] = [at |-> step, reply |-> conv[c].reply]
      BY <3>1, <3>2
    <3> QED
      BY <1>1, <1>2, <3>3 DEF Await
  <2> QED
    BY <1>1, <2>1 DEF CallOnly, Calls
<1>3. ASSUME NEW code \in Replies, Answer(c, code)
      PROVE  CallOnly(c) /\ conv'[c].at = "answered"
  BY <1>1, <1>3 DEF CallOnly, Calls, Answer
<1> QED
  BY <1>2, <1>3

\* Nothing but the await moves, and not past the logging of a row.
Quiet(c) ==
    /\ CallOnly(c) /\ UNCHANGED <<recordVars, objects, jobRow, zipJob, told, convFaults>>
    /\ \/ conv[c].at = "idle" /\ conv'[c].at = "screening"
       \/ conv'[c].at = "answered"
       \/ conv[c].at = "rendering" /\ conv'[c].at = "closing"
       \/ /\ conv[c].at \in {"admission", "queued", "converting"}
          /\ conv'[c].at \in {"queued", "converting", "gray"}

\* The row is logged, and the job id claimed.
Starts(c) ==
    /\ CallOnly(c) /\ UNCHANGED <<chargedConv, expiringConv, objects, zipJob, told>>
    /\ conv[c].at \in {"idle", "screening"} /\ conv'[c].at \in {"answered", "admission", "rendering"}
    /\ activity' = [activity EXCEPT ![c].status = InProgress]
    /\ \/ UNCHANGED jobRow
       \/ /\ JobIdOf[c] # None /\ ~JobConflict(c)
          /\ jobRow' = [jobRow EXCEPT ![JobIdOf[c]] =
                           [project |-> ProjectOf[c], status |-> "", key |-> None]]
    /\ convFaults' \in {convFaults, convFaults + 1}

\* The outcome is recorded, and answered.
Answers(c) ==
    /\ CallOnly(c) /\ UNCHANGED <<zipJob, told>>
    /\ \/ conv[c].at \in {"admission", "queued", "converting", "gray", "rendering", "closing"}
       \/ conv[c].at # "answered" /\ activity[c].status # "absent"
    /\ conv'[c].at = "answered"
    /\ \/ /\ Effect(c, "Success", c) /\ objects' = objects \cup {c}
          /\ jobRow' \in {jobRow, SettledJobs(c, "success")}
       \/ /\ Effect(c, "Failed", None) /\ UNCHANGED objects
          /\ jobRow' \in {jobRow, SettledJobs(c, "failed")}

LEMMA RecordEffect ==
    ASSUME RowsTyped, NEW c \in SyncCalls, NEW s \in {"Success", "Failed"}, NEW key \in ObjectKeys,
           Record(c, s, key)
    PROVE  /\ Effect(c, s, key)
           /\ jobRow' \in {jobRow, SettledJobs(c, IF s = "Success" THEN "success" ELSE "failed")}
<1>1. PICK u \in Updates(c, s, key), lost \in BOOLEAN :
        /\ Store([u EXCEPT !.faults = @ + IF lost THEN 1 ELSE 0])
        /\ jobRow' = IF lost THEN jobRow
                     ELSE SettledJobs(c, IF s = "Success" THEN "success" ELSE "failed")
  BY DEF Record
<1> DEFINE n == IF lost THEN 1 ELSE 0
<1>2. c \in Ids
  BY Names
<1>3. u = [activity |-> u.activity, charged |-> u.charged, expiring |-> u.expiring,
           raised |-> u.raised, faults |-> u.faults]
  BY <1>2, UpdateShape DEF Outcome
<1>4. /\ activity' = u.activity /\ chargedConv' = u.charged /\ expiringConv' = u.expiring
      /\ convFaults' = u.faults + n
  BY <1>1, <1>3 DEF Store
<1>5. n \in Nat
  OBVIOUS
<1> HIDE DEF n
<1> QED
  BY <1>1, <1>2, <1>4, <1>5, StoreEffect

LEMMA DeliverAnswers ==
    ASSUME CallsTyped, RowsTyped, NEW c \in SyncCalls, Deliver(c), UNCHANGED <<zipJob, told>>,
           conv[c].at \in {"admission", "queued", "converting", "gray", "rendering", "closing"}
    PROVE  Answers(c)
<1>1. c \in ObjectKeys /\ None \in ObjectKeys /\ 200 \in Replies /\ 500 \in Replies
  BY Names
<1>2. CASE objects' = objects \cup {c} /\ Record(c, "Success", c) /\ Answer(c, 200)
  <2>1. Effect(c, "Success", c) /\ jobRow' \in {jobRow, SettledJobs(c, "success")}
    BY <1>1, <1>2, RecordEffect
  <2>2. CallOnly(c) /\ conv'[c].at = "answered"
    BY <1>1, <1>2, CallMoves
  <2> QED
    BY <1>2, <2>1, <2>2 DEF Answers
<1>3. CASE FailCall(c, 500)
  <2>1. Effect(c, "Failed", None) /\ jobRow' \in {jobRow, SettledJobs(c, "failed")}
    BY <1>1, <1>3, RecordEffect DEF FailCall
  <2>2. CallOnly(c) /\ conv'[c].at = "answered"
    BY <1>1, <1>3, CallMoves DEF FailCall
  <2> QED
    BY <1>3, <2>1, <2>2 DEF Answers, FailCall
<1> QED
  BY <1>2, <1>3 DEF Deliver

LEMMA FailAnswers ==
    ASSUME CallsTyped, RowsTyped, NEW c \in SyncCalls, NEW code \in Nat, FailCall(c, code),
           UNCHANGED <<zipJob, told>>,
           conv[c].at \in {"admission", "queued", "converting", "gray", "rendering", "closing"}
    PROVE  Answers(c)
<1>1. None \in ObjectKeys /\ code \in Replies
  BY Names
<1>2. Effect(c, "Failed", None) /\ jobRow' \in {jobRow, SettledJobs(c, "failed")}
  BY <1>1, RecordEffect DEF FailCall
<1>3. CallOnly(c) /\ conv'[c].at = "answered"
  BY <1>1, CallMoves DEF FailCall
<1> QED
  BY <1>2, <1>3 DEF Answers, FailCall

\* A step of a synchronous request is one of the three.
LEMMA CallShape ==
    ASSUME CallsTyped, RowsTyped, NEW c \in SyncCalls,
           (c \in Uploads /\ UploadStep(c)) \/ (c \in UrlCalls /\ UrlStep(c)) \/ TimeOutCall(c)
    PROVE  \/ Quiet(c) \/ Starts(c) \/ Answers(c)
           \/ UNCHANGED <<conv, recordVars, objects, jobRow, zipJob, told, convFaults>>
<1>n. 400 \in Replies /\ 402 \in Replies /\ 409 \in Replies /\ 504 \in Replies
  BY Names
<1>1. CASE RefuseUpload(c) \/ RefuseUrl(c)
  BY <1>1, <1>n, CallMoves DEF RefuseUpload, RefuseUrl, Quiet
<1>2. CASE StartUpload(c) \/ StartUrl(c)
  <2>1. /\ UNCHANGED <<chargedConv, expiringConv, objects, zipJob, told>>
        /\ conv[c].at \in {"idle", "screening"}
        /\ activity' = [activity EXCEPT ![c].status = InProgress]
    BY <1>2 DEF StartUpload, StartUrl
  <2>2. CallOnly(c) /\ conv'[c].at \in {"answered", "admission", "rendering"}
    BY <1>2, <1>n, CallMoves DEF StartUpload, StartUrl, ConvPlaces
  <2>3. /\ \/ UNCHANGED jobRow
           \/ /\ JobIdOf[c] # None /\ ~JobConflict(c)
              /\ jobRow' = [jobRow EXCEPT ![JobIdOf[c]] =
                               [project |-> ProjectOf[c], status |-> "", key |-> None]]
        /\ convFaults' \in {convFaults, convFaults + 1}
    BY <1>2 DEF StartUpload, StartUrl, ClaimJob, SpendFault
  <2> QED
    BY <2>1, <2>2, <2>3 DEF Starts
<1>3. CASE Admit(c) \/ AcquireSlot(c) \/ StartGray(c) \/ ReceiveUrl(c)
  BY <1>3, CallMoves DEF Admit, AcquireSlot, StartGray, ReceiveUrl, Quiet, ConvPlaces
<1>c. CASE CancelRender(c)
  BY <1>c, CallMoves DEF CancelRender, Quiet, ConvPlaces
<1>4. CASE TurnAway(c)
  BY <1>4, FailAnswers DEF TurnAway
<1>5. CASE ConvertOk(c)
  BY <1>5, DeliverAnswers DEF ConvertOk
<1>6. CASE ConvertRaises(c)
  BY <1>6, FailAnswers DEF ConvertRaises, HoldsPermit
<1>7. CASE DetachedEnds(c)
  BY <1>7 DEF DetachedEnds
<1>8. CASE RenderOk(c) \/ RenderRaises(c)
  BY <1>8, DeliverAnswers, FailAnswers DEF RenderOk, RenderRaises
<1>9. CASE TimeOutCall(c)
  <2>1. CallOnly(c) /\ conv'[c].at = "answered" /\ conv[c].at # "answered"
    BY <1>9, <1>n, CallMoves DEF TimeOutCall
  <2>2. UNCHANGED <<objects, jobRow, zipJob, told>>
    BY <1>9 DEF TimeOutCall
  <2>3. CASE activity[c].status = "absent"
    BY <1>9, <2>1, <2>2, <2>3 DEF TimeOutCall, Quiet
  <2>4. CASE activity[c].status # "absent"
    <3>1. PICK u \in Updates(c, "Failed", None) : Store(u)
      BY <1>9, <2>4 DEF TimeOutCall
    <3>2. c \in Ids /\ None \in ObjectKeys
      BY Names
    <3>a. "Failed" \in {"Success", "Failed"}
      OBVIOUS
    <3>b. Outcome(u, c, "Failed", None)
      BY <3>a, <3>2, UpdateShape, ZenonT(60)
    <3>3. u.faults = u.faults + 0
      BY <3>b DEF Outcome
    <3>4. Effect(c, "Failed", None)
      BY <3>1, <3>2, <3>3, StoreEffect DEF Store
    <3> QED
      BY <2>1, <2>2, <2>4, <3>4 DEF Answers
  <2> QED
    BY <2>3, <2>4
<1>10. CASE CloseRender(c)
  <2>1. CallOnly(c) /\ conv'[c].at = "answered" /\ conv[c].at = "closing"
    BY <1>10, <1>n, CallMoves DEF CloseRender
  <2>2. UNCHANGED <<objects, jobRow, zipJob, told>>
    BY <1>10 DEF CloseRender
  <2>3. PICK u \in Updates(c, "Failed", None) : Store(u)
    BY <1>10 DEF CloseRender
  <2>4. c \in Ids /\ None \in ObjectKeys
    BY Names
  <2>a. "Failed" \in {"Success", "Failed"}
    OBVIOUS
  <2>5. Outcome(u, c, "Failed", None)
    BY <2>a, <2>4, UpdateShape, ZenonT(60)
  <2>6. u.faults = u.faults + 0
    BY <2>5 DEF Outcome
  <2>7. Effect(c, "Failed", None)
    BY <2>3, <2>4, <2>6, StoreEffect DEF Store
  <2> QED
    BY <2>1, <2>2, <2>7 DEF Answers
<1>11. CASE c \in Uploads /\ UploadStep(c)
  BY <1>1, <1>2, <1>3, <1>4, <1>5, <1>6, <1>7, <1>11 DEF UploadStep
<1>12. CASE c \in UrlCalls /\ UrlStep(c)
  BY <1>1, <1>2, <1>3, <1>c, <1>8, <1>10, <1>12 DEF UrlStep
<1> QED
  BY <1>9, <1>11, <1>12

-----------------------------------------------------------------------------
(* What each step of a batch does *)

TaskOnly(b) ==
    /\ UNCHANGED <<conv, jobRow>>
    /\ zipJob' \in [AsyncCalls -> ZipJobs] /\ \A d \in AsyncCalls \ {b} : zipJob'[d] = zipJob[d]

\* The rows are logged, all of them or the first few.
Submits(b) ==
    /\ TaskOnly(b) /\ zipJob[b].at = "idle"
    /\ UNCHANGED <<chargedConv, expiringConv, objects, told>>
    /\ activity' \in [Ids -> Activities] /\ convFaults' \in {convFaults, convFaults + 1}
    /\ \A id \in Ids :
          \/ id \in ItemsOf(b) /\ activity'[id] = [status |-> InProgress, key |-> None]
          \/ activity'[id] = activity[id]
    /\ \/ /\ zipJob'[b].at = "render" /\ zipJob'[b].i = 1 /\ zipJob'[b].files = {}
          /\ \A id \in ItemsOf(b) : activity'[id].status = InProgress
       \/ zipJob'[b].at = "broken" /\ zipJob'[b].files = zipJob[b].files

Renders(b) ==
    LET id == Item(b)
        z == zipJob[b]
        y == zipJob'[b]
    IN  /\ TaskOnly(b) /\ z.at = "render" /\ y.zip = z.zip /\ y.i = z.i + 1
        /\ y.at = IF z.i = UrlCount[b] THEN (IF z.zip THEN "bundle" ELSE "settled") ELSE "render"
        /\ \/ Effect(id, "Failed", None) /\ y.files = z.files /\ UNCHANGED objects
           \/ /\ z.zip /\ Effect(id, "Success", None)
              /\ y.files = z.files \cup {id} /\ UNCHANGED objects
           \/ /\ ~z.zip /\ Effect(id, "Success", id)
              /\ y.files = z.files /\ objects' = objects \cup {id}
        /\ \/ UNCHANGED told
           \/ \E verdict \in {"success", "failed"} : told' = [told EXCEPT ![id] = verdict]

Bundles(b) ==
    LET z == zipJob[b]
        y == zipJob'[b]
    IN  /\ TaskOnly(b) /\ z.at = "bundle" /\ y.zip = z.zip /\ y.files = z.files
        /\ UNCHANGED recordVars
        /\ \/ /\ z.files = {} /\ y.at = "settled" /\ told' = [told EXCEPT ![b] = "failed"]
              /\ UNCHANGED <<objects, convFaults>>
           \/ /\ z.files # {} /\ y.at = "stamp" /\ y.i = 1 /\ objects' = objects \cup {b}
              /\ UNCHANGED <<told, convFaults>>
           \/ /\ y.at = "abort" /\ y.i = 1 /\ convFaults' = convFaults + 1
              /\ UNCHANGED <<told, objects>>

Stamps(b) ==
    LET id == Item(b)
        z == zipJob[b]
        y == zipJob'[b]
    IN  /\ TaskOnly(b) /\ z.at = "stamp" /\ z.i <= UrlCount[b] /\ y.zip = z.zip
        /\ y.files = z.files /\ UNCHANGED <<objects, told>>
        /\ \/ /\ id \notin z.files /\ y.at = "stamp" /\ y.i = z.i + 1
              /\ UNCHANGED <<recordVars, convFaults>>
           \/ /\ id \in z.files /\ Effect(id, "Success", b)
              /\ \/ y.at = "stamp" /\ y.i = z.i + 1 /\ convFaults' = convFaults
                 \/ y.at = "abort" /\ y.i = 1 /\ convFaults' > convFaults

Aborts(b) ==
    LET z == zipJob[b]
        y == zipJob'[b]
    IN  /\ TaskOnly(b) /\ z.at = "abort" /\ z.i <= UrlCount[b] /\ y.zip = z.zip
        /\ y.files = z.files /\ y.at = "abort" /\ y.i = z.i + 1
        /\ Effect(Item(b), "Failed", None) /\ UNCHANGED <<objects, told>>

Notifies(b) ==
    LET z == zipJob[b]
        y == zipJob'[b]
    IN  /\ TaskOnly(b) /\ z.at \in {"stamp", "abort"} /\ z.i > UrlCount[b]
        /\ y.zip = z.zip /\ y.files = z.files /\ y.at = "settled"
        /\ told' = [told EXCEPT ![b] = IF z.at = "stamp" THEN "success" ELSE "failed"]
        /\ UNCHANGED <<recordVars, objects, convFaults>>

\* What EXCEPT leaves of a job.
LEMMA ZipMoves ==
    ASSUME TasksTyped, NEW b \in AsyncCalls, NEW y \in ZipJobs,
           zipJob' = [zipJob EXCEPT ![b] = y], UNCHANGED <<conv, jobRow>>
    PROVE  TaskOnly(b) /\ zipJob'[b] = y
BY DEF TasksTyped, TaskOnly

LEMMA LogShape ==
    ASSUME RowsTyped, TasksTyped, NEW b \in AsyncCalls, NEW zip \in BOOLEAN, LogBatch(b, zip),
           zipJob[b].at = "idle",
           UNCHANGED <<conv, chargedConv, expiringConv, objects, jobRow, told>>
    PROVE  Submits(b)
<1>1. /\ activity \in [Ids -> Activities] /\ zipJob \in [AsyncCalls -> ZipJobs]
      /\ zipJob[b] \in ZipJobs
  BY DEF RowsTyped, TasksTyped
<1>2. [NoActivity EXCEPT !.status = InProgress] = [status |-> InProgress, key |-> None]
  <2>1. /\ NoActivity = [status |-> NoActivity.status, key |-> NoActivity.key]
        /\ NoActivity.key = None
    BY DEF NoActivity
  <2>2. [NoActivity EXCEPT !.status = InProgress]
          = [status |-> InProgress, key |-> NoActivity.key]
    BY <2>1
  <2> QED
    BY <2>1, <2>2
<1>3. [status |-> InProgress, key |-> None] \in Activities
  BY Names DEF Activities
<1>4. /\ UrlCount[b] \in Nat
      /\ ItemsOf(b) \subseteq Ids /\ ItemsOf(b) = {Pages[b][i] : i \in 1..UrlCount[b]}
  BY Addresses, Names
<1>5. CASE /\ activity' = [id \in DOMAIN activity |-> IF id \in ItemsOf(b)
                              THEN [NoActivity EXCEPT !.status = InProgress] ELSE activity[id]]
           /\ zipJob' = [zipJob EXCEPT ![b] = [NoZipJob EXCEPT !.at = "render", !.zip = zip]]
           /\ UNCHANGED convFaults
  <2>1. activity' = [id \in Ids |-> IF id \in ItemsOf(b)
                       THEN [status |-> InProgress, key |-> None] ELSE activity[id]]
    BY <1>1, <1>2, <1>5
  <2> DEFINE y == [NoZipJob EXCEPT !.at = "render", !.zip = zip]
  <2>2. y \in ZipJobs /\ y.at = "render" /\ y.i = 1 /\ y.files = {}
    <3>1. NoZipJob \in ZipJobs /\ NoZipJob.i = 1 /\ NoZipJob.files = {}
      BY DEF NoZipJob, ZipJobs, ZipPlaces
    <3>2. y.at = "render" /\ y.i = NoZipJob.i /\ y.files = NoZipJob.files /\ y.zip = zip
      BY <3>1 DEF ZipJobs
    <3>3. y \in ZipJobs
      BY <3>1 DEF ZipJobs, ZipPlaces
    <3> QED
      BY <3>1, <3>2, <3>3
  <2> HIDE DEF y
  <2>5. TaskOnly(b) /\ zipJob'[b] = y
    BY <1>5, <2>2, ZipMoves DEF y
  <2>6. activity' \in [Ids -> Activities]
    BY <1>1, <1>3, <2>1
  <2> QED
    <3>1. /\ \A id \in ItemsOf(b) : activity'[id] = [status |-> InProgress, key |-> None]
          /\ \A id \in Ids \ ItemsOf(b) : activity'[id] = activity[id]
      BY <1>4, <2>1
    <3>2. zipJob'[b].at = "render" /\ zipJob'[b].i = 1 /\ zipJob'[b].files = {}
      BY <2>2, <2>5
    <3>3. \A id \in ItemsOf(b) : activity'[id].status = InProgress
      BY <3>1
    <3> QED
      BY <1>5, <2>5, <2>6, <3>1, <3>2, <3>3 DEF Submits
<1>6. ASSUME NEW k \in 0..UrlCount[b] - 1,
             activity' = [id \in DOMAIN activity |-> IF id \in {Pages[b][i] : i \in 1..k}
                            THEN [NoActivity EXCEPT !.status = InProgress] ELSE activity[id]],
             zipJob' = [zipJob EXCEPT ![b].at = "broken"], SpendFault
      PROVE  Submits(b)
  <2>1. {Pages[b][i] : i \in 1..k} \subseteq ItemsOf(b)
    BY <1>4
  <2>2. activity' = [id \in Ids |-> IF id \in {Pages[b][i] : i \in 1..k}
                       THEN [status |-> InProgress, key |-> None] ELSE activity[id]]
    BY <1>1, <1>2, <1>6
  <2>3. zipJob'[b] = [zipJob[b] EXCEPT !.at = "broken"]
    BY <1>1, <1>6
  <2>4. zipJob'[b] = [at |-> "broken", zip |-> zipJob[b].zip, i |-> zipJob[b].i,
                      files |-> zipJob[b].files]
    BY <1>1, <2>3 DEF ZipJobs
  <2>5. zipJob'[b] \in ZipJobs
    BY <1>1, <2>4 DEF ZipJobs, ZipPlaces
  <2>6. TaskOnly(b)
    BY <1>1, <1>6, <2>5 DEF TaskOnly
  <2>7. activity' \in [Ids -> Activities]
    BY <1>1, <1>3, <2>2
  <2>8. \A id \in Ids :
          \/ id \in ItemsOf(b) /\ activity'[id] = [status |-> InProgress, key |-> None]
          \/ activity'[id] = activity[id]
    BY <2>1, <2>2
  <2>9. zipJob'[b].at = "broken" /\ zipJob'[b].files = zipJob[b].files
    BY <2>4
  <2> QED
    BY <1>6, <2>6, <2>7, <2>8, <2>9 DEF Submits, SpendFault
<1> QED
  BY <1>5, <1>6 DEF LogBatch

LEMMA ItemKnown ==
    ASSUME TasksTyped, NEW b \in AsyncCalls, zipJob[b].i <= UrlCount[b]
    PROVE  /\ Item(b) \in ItemsOf(b) /\ Item(b) \in Ids /\ Item(b) \in BatchItems
           /\ zipJob[b].i \in 1..UrlCount[b]
<1>1. zipJob[b].i \in 1..UrlCount[b]
  BY Addresses DEF TasksTyped, ZipJobs
<1> QED
  BY <1>1, Addresses, Names DEF Item

\* Where the next address takes a job.
NextJobs(b, files, y) ==
    /\ y \in ZipJobs /\ y.zip = zipJob[b].zip /\ y.i = zipJob[b].i + 1 /\ y.files = files
    /\ y.at = IF zipJob[b].i = UrlCount[b]
              THEN (IF zipJob[b].zip THEN "bundle" ELSE "settled") ELSE "render"

LEMMA NextJob ==
    ASSUME TasksTyped, NEW b \in AsyncCalls, zipJob[b].at = "render",
           NEW files \in SUBSET BatchItems
    PROVE  LET y == [NextItem(b) EXCEPT !.files = files]
           IN  NextJobs(b, files, y)
<1>1. zipJob[b] \in ZipJobs
  BY DEF TasksTyped
<1> DEFINE z == zipJob[b]
           place == IF z.i = UrlCount[b] THEN (IF z.zip THEN "bundle" ELSE "settled") ELSE z.at
<1>2. NextItem(b) = [zipJob[b] EXCEPT !.i = z.i + 1, !.at = place]
  BY <1>1 DEF NextItem
<1>3. place \in ZipPlaces
  BY <1>1 DEF ZipJobs, ZipPlaces
<1>4. z.i + 1 \in Nat \ {0}
  BY <1>1 DEF ZipJobs
<1> HIDE DEF place
<1>a. NextItem(b) = [at |-> place, zip |-> z.zip, i |-> z.i + 1, files |-> z.files]
  BY <1>1, <1>2 DEF ZipJobs
<1>b. z.zip \in BOOLEAN /\ z.files \in SUBSET BatchItems
  BY <1>1 DEF ZipJobs
<1>5. /\ NextItem(b) \in ZipJobs /\ NextItem(b).zip = z.zip /\ NextItem(b).i = z.i + 1
      /\ NextItem(b).at = place
  BY <1>a, <1>b, <1>3, <1>4 DEF ZipJobs
<1> DEFINE y == [NextItem(b) EXCEPT !.files = files]
<1>6. y \in ZipJobs /\ y.zip = z.zip /\ y.i = z.i + 1 /\ y.at = place /\ y.files = files
  BY <1>5 DEF ZipJobs
<1>7. place = IF z.i = UrlCount[b] THEN (IF z.zip THEN "bundle" ELSE "settled") ELSE "render"
  BY DEF place
<1> HIDE DEF y
<1>8. NextJobs(b, files, y)
  BY <1>6, <1>7 DEF NextJobs
<1> QED
  BY <1>8 DEF y

\* A job that only moves to another place, or another address.
MovedJob(b, p, n, y) ==
    /\ y \in ZipJobs /\ y.zip = zipJob[b].zip /\ y.i = n /\ y.files = zipJob[b].files /\ y.at = p

LEMMA JobMoves ==
    ASSUME TasksTyped, NEW b \in AsyncCalls, NEW p \in ZipPlaces
    PROVE  /\ MovedJob(b, p, zipJob[b].i, [zipJob[b] EXCEPT !.at = p])
           /\ MovedJob(b, p, 1, [zipJob[b] EXCEPT !.at = p, !.i = 1])
           /\ MovedJob(b, zipJob[b].at, zipJob[b].i + 1, [zipJob[b] EXCEPT !.i = zipJob[b].i + 1])
<1>1. zipJob[b] \in ZipJobs
  BY DEF TasksTyped
<1>2. MovedJob(b, p, zipJob[b].i, [zipJob[b] EXCEPT !.at = p])
  BY <1>1 DEF MovedJob, ZipJobs
<1>3. MovedJob(b, p, 1, [zipJob[b] EXCEPT !.at = p, !.i = 1])
  <2>1. ASSUME NEW n \in Nat \ {0} PROVE MovedJob(b, p, n, [zipJob[b] EXCEPT !.at = p, !.i = n])
    <3> DEFINE y == [zipJob[b] EXCEPT !.at = p, !.i = n]
    <3>1. y \in ZipJobs
      BY <1>1 DEF ZipJobs
    <3>2. y.zip = zipJob[b].zip /\ y.i = n /\ y.files = zipJob[b].files /\ y.at = p
      BY <1>1 DEF ZipJobs
    <3> QED
      BY <3>1, <3>2 DEF MovedJob
  <2>2. 1 \in Nat \ {0}
    OBVIOUS
  <2> QED
    BY <2>1, <2>2, Zenon
<1>4. MovedJob(b, zipJob[b].at, zipJob[b].i + 1, [zipJob[b] EXCEPT !.i = zipJob[b].i + 1])
  BY <1>1 DEF MovedJob, ZipJobs
<1> QED
  BY <1>2, <1>3, <1>4

LEMMA StoredEffect ==
    ASSUME RowsTyped, NEW id \in Ids, NEW s \in {"Success", "Failed"}, NEW key \in ObjectKeys,
           NEW u \in Updates(id, s, key), Store(u)
    PROVE  Effect(id, s, key) /\ (u.raised => convFaults' > convFaults)
                              /\ (~u.raised => convFaults' = convFaults)
<1>1. Outcome(u, id, s, key)
  BY UpdateShape, ZenonT(60)
<1>2. /\ activity' = u.activity /\ chargedConv' = u.charged /\ expiringConv' = u.expiring
      /\ convFaults' = u.faults + 0
  BY <1>1 DEF Store, Outcome
<1>3. Effect(id, s, key)
  BY <1>2, StoreEffect
<1>4. convFaults \in Nat
  BY DEF RowsTyped
<1> QED
  BY <1>1, <1>2, <1>3, <1>4 DEF Outcome

\* What a step of a background task is.
TaskMoves(b) ==
    Submits(b) \/ Renders(b) \/ Bundles(b) \/ Stamps(b) \/ Aborts(b) \/ Notifies(b)

LEMMA ZipItemShape ==
    ASSUME RowsTyped, TasksTyped, NEW b \in AsyncCalls, ZipItem(b)
    PROVE  Renders(b)
<1>1. zipJob[b].at = "render" /\ zipJob[b].zip /\ UNCHANGED <<conv, jobRow, objects, told>>
  BY DEF ZipItem, FailItem
<1>2. /\ Item(b) \in Ids /\ Item(b) \in BatchItems /\ None \in ObjectKeys
      /\ zipJob[b] \in ZipJobs
  BY <1>1, ItemKnown, Names DEF TasksTyped
<1>3. CASE FailItem(b) /\ zipJob' = [zipJob EXCEPT ![b] = NextItem(b)]
  <2>1. Effect(Item(b), "Failed", None)
    BY <1>2, <1>3, StoredEffect DEF FailItem
  <2>2. NextItem(b) = [NextItem(b) EXCEPT !.files = zipJob[b].files]
    BY <1>2 DEF NextItem, ZipJobs
  <2>3. NextJobs(b, zipJob[b].files, NextItem(b))
    <3>1. zipJob[b].files \in SUBSET BatchItems
      BY <1>2 DEF ZipJobs
    <3> QED
      BY <1>1, <2>2, <3>1, NextJob
  <2>4. TaskOnly(b) /\ zipJob'[b] = NextItem(b)
    BY <1>1, <1>3, <2>3, ZipMoves DEF NextJobs
  <2> QED
    BY <1>1, <2>1, <2>3, <2>4 DEF Renders, NextJobs
<1>4. CASE /\ TellItem(b, None)
           /\ zipJob' = [zipJob EXCEPT ![b] = [NextItem(b) EXCEPT !.files = @ \cup {Item(b)}]]
  <2> DEFINE files == zipJob[b].files \cup {Item(b)}
             y == [NextItem(b) EXCEPT !.files = files]
  <2>1. Effect(Item(b), "Success", None)
    BY <1>2, <1>4, TellEffect
  <2>2. NextItem(b).files = zipJob[b].files
    BY <1>2 DEF NextItem, ZipJobs
  <2>3. zipJob' = [zipJob EXCEPT ![b] = y]
    BY <1>4, <2>2
  <2>4. files \in SUBSET BatchItems
    BY <1>2 DEF ZipJobs
  <2>5. NextJobs(b, files, y)
    <3> HIDE DEF files
    <3> QED
      BY <1>1, <2>4, NextJob
  <2> HIDE DEF y
  <2>6. TaskOnly(b) /\ zipJob'[b] = y
    BY <1>1, <2>3, <2>5, ZipMoves DEF NextJobs
  <2> QED
    BY <1>1, <2>1, <2>5, <2>6 DEF Renders, NextJobs
<1> QED
  BY <1>3, <1>4 DEF ZipItem

LEMMA SingleItemShape ==
    ASSUME RowsTyped, TasksTyped, NEW b \in AsyncCalls, SingleItem(b)
    PROVE  Renders(b)
<1> DEFINE id == Item(b)
<1>1. /\ zipJob[b].at = "render" /\ ~zipJob[b].zip /\ UNCHANGED <<conv, jobRow>>
      /\ zipJob' = [zipJob EXCEPT ![b] = NextItem(b)]
  BY DEF SingleItem
<1>2. /\ id \in Ids /\ id \in BatchItems /\ id \in ObjectKeys /\ None \in ObjectKeys
      /\ zipJob[b] \in ZipJobs
  BY <1>1, ItemKnown, Names DEF TasksTyped
<1>3. NextJobs(b, zipJob[b].files, NextItem(b))
  <2>1. NextItem(b) = [NextItem(b) EXCEPT !.files = zipJob[b].files]
    BY <1>2 DEF NextItem, ZipJobs
  <2>2. zipJob[b].files \in SUBSET BatchItems
    BY <1>2 DEF ZipJobs
  <2> QED
    BY <1>1, <2>1, <2>2, NextJob
<1>4. TaskOnly(b) /\ zipJob'[b] = NextItem(b)
  BY <1>1, <1>3, ZipMoves DEF NextJobs
<1>5. CASE FailItem(b) /\ told' = [told EXCEPT ![id] = "failed"]
  <2>1. Effect(id, "Failed", None) /\ UNCHANGED objects
    BY <1>2, <1>5, StoredEffect DEF FailItem
  <2> QED
    BY <1>1, <1>3, <1>4, <1>5, <2>1 DEF Renders, NextJobs
<1>6. CASE /\ objects' = objects \cup {id} /\ TellItem(b, id)
           /\ told' = [told EXCEPT ![id] = "success"]
  <2>1. Effect(id, "Success", id)
    BY <1>2, <1>6, TellEffect
  <2> QED
    BY <1>1, <1>3, <1>4, <1>6, <2>1 DEF Renders, NextJobs
<1> QED
  BY <1>5, <1>6 DEF SingleItem

LEMMA StampShape ==
    ASSUME RowsTyped, TasksTyped, NEW b \in AsyncCalls, StampRow(b)
    PROVE  Stamps(b)
<1> DEFINE id == Item(b)
<1>1. /\ zipJob[b].at = "stamp" /\ zipJob[b].i <= UrlCount[b]
      /\ UNCHANGED <<conv, jobRow, objects, told>>
  BY DEF StampRow
<1>2. id \in Ids /\ b \in ObjectKeys /\ "stamp" \in ZipPlaces /\ "abort" \in ZipPlaces
  BY <1>1, ItemKnown, Names DEF ZipPlaces
<1> DEFINE next == [zipJob[b] EXCEPT !.i = zipJob[b].i + 1]
           abort == [zipJob[b] EXCEPT !.at = "abort", !.i = 1]
<1>3. MovedJob(b, "stamp", zipJob[b].i + 1, next) /\ MovedJob(b, "abort", 1, abort)
  <2>1. MovedJob(b, zipJob[b].at, zipJob[b].i + 1, next) /\ MovedJob(b, "abort", 1, abort)
    BY <1>2, JobMoves, Zenon
  <2> QED
    BY <1>1, <2>1 DEF MovedJob
<1> HIDE DEF next, abort
<1>4. CASE id \notin zipJob[b].files /\ zipJob' = [zipJob EXCEPT ![b] = next]
           /\ UNCHANGED <<recordVars, convFaults>>
  <2>1. TaskOnly(b) /\ zipJob'[b] = next
    BY <1>1, <1>3, <1>4, ZipMoves DEF MovedJob
  <2> QED
    BY <1>1, <1>3, <1>4, <2>1 DEF Stamps, MovedJob
<1>5. ASSUME id \in zipJob[b].files, NEW u \in Updates(id, "Success", b), Store(u),
             zipJob' = IF u.raised THEN [zipJob EXCEPT ![b] = abort]
                       ELSE [zipJob EXCEPT ![b] = next]
      PROVE  Stamps(b)
  <2>1. /\ Effect(id, "Success", b)
        /\ u.raised => convFaults' > convFaults
        /\ ~u.raised => convFaults' = convFaults
    BY <1>2, <1>5, StoredEffect
  <2>2. CASE u.raised
    <3>1. TaskOnly(b) /\ zipJob'[b] = abort
      BY <1>1, <1>3, <1>5, <2>2, ZipMoves DEF MovedJob
    <3> QED
      BY <1>1, <1>3, <1>5, <2>1, <2>2, <3>1 DEF Stamps, MovedJob
  <2>3. CASE ~u.raised
    <3>1. TaskOnly(b) /\ zipJob'[b] = next
      BY <1>1, <1>3, <1>5, <2>3, ZipMoves DEF MovedJob
    <3> QED
      BY <1>1, <1>3, <1>5, <2>1, <2>3, <3>1 DEF Stamps, MovedJob
  <2> QED
    BY <2>2, <2>3
<1>6. /\ zipJob \in [AsyncCalls -> ZipJobs]
      /\ next = [zipJob[b] EXCEPT !.i = @ + 1]
  BY DEF next, TasksTyped
<1>7. /\ [zipJob EXCEPT ![b].i = @ + 1] = [zipJob EXCEPT ![b] = next]
      /\ [zipJob EXCEPT ![b].at = "abort", ![b].i = 1] = [zipJob EXCEPT ![b] = abort]
  BY <1>6 DEF abort
<1>8. CASE id \notin zipJob[b].files
  BY <1>4, <1>7, <1>8 DEF StampRow
<1>9. CASE id \in zipJob[b].files
  <2>1. PICK u \in Updates(id, "Success", b) :
          /\ Store(u)
          /\ zipJob' = IF u.raised THEN [zipJob EXCEPT ![b].at = "abort", ![b].i = 1]
                       ELSE [zipJob EXCEPT ![b].i = @ + 1]
    BY <1>9 DEF StampRow
  <2> QED
    BY <1>5, <1>7, <1>9, <2>1
<1> QED
  BY <1>8, <1>9

LEMMA BundleShape ==
    ASSUME RowsTyped, TasksTyped, NEW b \in AsyncCalls, BundleBatch(b)
    PROVE  Bundles(b)
<1>1. zipJob[b].at = "bundle" /\ UNCHANGED <<conv, jobRow, recordVars>>
  BY DEF BundleBatch
<1>2. "settled" \in ZipPlaces /\ "stamp" \in ZipPlaces /\ "abort" \in ZipPlaces
  BY DEF ZipPlaces
<1>3. zipJob \in [AsyncCalls -> ZipJobs]
  BY DEF TasksTyped
<1>4. CASE /\ zipJob[b].files = {} /\ zipJob' = [zipJob EXCEPT ![b].at = "settled"]
           /\ told' = [told EXCEPT ![b] = "failed"] /\ UNCHANGED <<objects, convFaults>>
  <2> DEFINE y == [zipJob[b] EXCEPT !.at = "settled"]
  <2>1. MovedJob(b, "settled", zipJob[b].i, y) /\ zipJob' = [zipJob EXCEPT ![b] = y]
    BY <1>2, <1>4, JobMoves
  <2> HIDE DEF y
  <2>2. TaskOnly(b) /\ zipJob'[b] = y
    BY <1>1, <2>1, ZipMoves DEF MovedJob
  <2> QED
    BY <1>1, <1>4, <2>1, <2>2 DEF Bundles, MovedJob
<1>5. CASE /\ zipJob[b].files # {} /\ objects' = objects \cup {b}
           /\ zipJob' = [zipJob EXCEPT ![b].at = "stamp", ![b].i = 1]
           /\ UNCHANGED <<told, convFaults>>
  <2> DEFINE y == [zipJob[b] EXCEPT !.at = "stamp", !.i = 1]
  <2>1. MovedJob(b, "stamp", 1, y) /\ zipJob' = [zipJob EXCEPT ![b] = y]
    BY <1>2, <1>3, <1>5, JobMoves
  <2> HIDE DEF y
  <2>2. TaskOnly(b) /\ zipJob'[b] = y
    BY <1>1, <2>1, ZipMoves DEF MovedJob
  <2> QED
    BY <1>1, <1>5, <2>1, <2>2 DEF Bundles, MovedJob
<1>6. CASE /\ SpendFault /\ zipJob' = [zipJob EXCEPT ![b].at = "abort", ![b].i = 1]
           /\ UNCHANGED <<told, objects>>
  <2> DEFINE y == [zipJob[b] EXCEPT !.at = "abort", !.i = 1]
  <2>1. MovedJob(b, "abort", 1, y) /\ zipJob' = [zipJob EXCEPT ![b] = y]
    BY <1>2, <1>3, <1>6, JobMoves
  <2> HIDE DEF y
  <2>2. TaskOnly(b) /\ zipJob'[b] = y
    BY <1>1, <2>1, ZipMoves DEF MovedJob
  <2> QED
    BY <1>1, <1>6, <2>1, <2>2 DEF Bundles, MovedJob, SpendFault
<1> QED
  BY <1>4, <1>5, <1>6 DEF BundleBatch

LEMMA AbortShape ==
    ASSUME RowsTyped, TasksTyped, NEW b \in AsyncCalls, AbortRow(b)
    PROVE  Aborts(b)
<1>1. zipJob[b].at = "abort" /\ zipJob[b].i <= UrlCount[b] /\ UNCHANGED <<conv, jobRow, objects, told>>
  BY DEF AbortRow
<1>2. Item(b) \in Ids /\ None \in ObjectKeys /\ "abort" \in ZipPlaces
  BY <1>1, ItemKnown, Names DEF ZipPlaces
<1> DEFINE y == [zipJob[b] EXCEPT !.i = zipJob[b].i + 1]
<1>3. MovedJob(b, "abort", zipJob[b].i + 1, y)
  <2>1. MovedJob(b, zipJob[b].at, zipJob[b].i + 1, y)
    BY <1>2, JobMoves, Zenon
  <2> QED
    BY <1>1, <2>1 DEF MovedJob
<1>4. zipJob' = [zipJob EXCEPT ![b] = y]
  BY DEF AbortRow
<1> HIDE DEF y
<1>5. TaskOnly(b) /\ zipJob'[b] = y
  BY <1>1, <1>3, <1>4, ZipMoves DEF MovedJob
<1>6. Effect(Item(b), "Failed", None)
  BY <1>2, StoredEffect DEF AbortRow
<1> QED
  BY <1>1, <1>3, <1>5, <1>6 DEF Aborts, MovedJob

LEMMA NotifyShape ==
    ASSUME TasksTyped, NEW b \in AsyncCalls, NotifyBatch(b)
    PROVE  Notifies(b)
<1>1. /\ zipJob[b].at \in {"stamp", "abort"} /\ zipJob[b].i > UrlCount[b]
      /\ told' = [told EXCEPT ![b] = IF zipJob[b].at = "stamp" THEN "success" ELSE "failed"]
      /\ UNCHANGED <<conv, recordVars, objects, jobRow, convFaults>>
  BY DEF NotifyBatch
<1> DEFINE y == [zipJob[b] EXCEPT !.at = "settled"]
<1>2. MovedJob(b, "settled", zipJob[b].i, y) /\ zipJob' = [zipJob EXCEPT ![b] = y]
  BY JobMoves DEF NotifyBatch, ZipPlaces
<1> HIDE DEF y
<1>3. TaskOnly(b) /\ zipJob'[b] = y
  BY <1>1, <1>2, ZipMoves DEF MovedJob
<1> QED
  BY <1>1, <1>2, <1>3 DEF Notifies, MovedJob

LEMMA TaskShape ==
    ASSUME RowsTyped, TasksTyped, NEW b \in AsyncCalls,
           SubmitBatch(b) \/ SubmitWebsite(b) \/ TaskStep(b)
    PROVE  TaskMoves(b)
<1>1. CASE SubmitBatch(b) \/ SubmitWebsite(b)
  <2>1. /\ zipJob[b].at = "idle"
        /\ UNCHANGED <<conv, chargedConv, expiringConv, objects, jobRow, told>>
    BY <1>1 DEF SubmitBatch, SubmitWebsite
  <2>2. \E zip \in BOOLEAN : LogBatch(b, zip)
    <3>1. CASE SubmitBatch(b)
      BY <3>1 DEF SubmitBatch
    <3>2. CASE SubmitWebsite(b)
      <4>1. LogBatch(b, TRUE) /\ TRUE \in BOOLEAN
        BY <3>2 DEF SubmitWebsite
      <4> QED
        BY <4>1, Zenon
    <3> QED
      BY <1>1, <3>1, <3>2
  <2> QED
    BY <2>1, <2>2, LogShape DEF TaskMoves
<1>2. CASE TaskStep(b)
  BY <1>2, ZipItemShape, SingleItemShape, BundleShape, StampShape, AbortShape, NotifyShape
     DEF TaskStep, TaskMoves
<1> QED
  BY <1>1, <1>2

-----------------------------------------------------------------------------
(* The admission gate *)

Inside == {c \in Uploads : conv[c].at \in InSection}
CallStep(c) == (c \in Uploads /\ UploadStep(c)) \/ (c \in UrlCalls /\ UrlStep(c)) \/ TimeOutCall(c)

\* Where a step takes a request, and what it does to the two counters.
Enters(c) ==
    /\ c \in Uploads /\ CallOnly(c) /\ conv[c].at = "admission" /\ conv'[c].at = "queued"
    /\ AdmissionOpen(c)
    /\ pendingConversions' = pendingConversions + 1 /\ pendingBytes' = pendingBytes + SizeOf[c]
Leaves(c) ==
    /\ c \in Uploads /\ CallOnly(c) /\ conv[c].at \in InSection /\ conv'[c].at = "answered"
    /\ pendingConversions' = pendingConversions - 1 /\ pendingBytes' = pendingBytes - SizeOf[c]
Advances(c) ==
    /\ c \in Uploads /\ CallOnly(c) /\ UNCHANGED <<pendingConversions, pendingBytes>>
    /\ \/ /\ conv[c].at = "queued" /\ Cardinality(HoldsPermit) < MaxConcurrentConversions
          /\ conv'[c].at = "converting"
       \/ conv[c].at = "converting" /\ conv'[c].at = "gray"
Outside(c) ==
    /\ CallOnly(c) /\ UNCHANGED <<pendingConversions, pendingBytes>>
    /\ conv[c].at \notin InSection /\ conv'[c].at \notin InSection
    /\ c \in Uploads => conv'[c].at \notin {"screening", "rendering", "closing"}
    /\ c \in UrlCalls => conv'[c].at \notin {"admission"}
Rests == UNCHANGED <<conv, pendingConversions, pendingBytes>>

LEMMA FailGoes ==
    ASSUME CallsTyped, NEW c \in SyncCalls, NEW code \in Nat, FailCall(c, code)
    PROVE  CallOnly(c) /\ conv'[c].at = "answered"
<1>1. code \in Replies
  BY Names
<1> QED
  BY <1>1, CallMoves DEF FailCall

LEMMA DeliverGoes ==
    ASSUME CallsTyped, NEW c \in SyncCalls, Deliver(c)
    PROVE  CallOnly(c) /\ conv'[c].at = "answered"
<1>1. 200 \in Replies
  BY Names
<1> QED
  BY <1>1, CallMoves, FailGoes DEF Deliver

LEMMA GateMoves ==
    ASSUME CallsTyped, NEW c \in SyncCalls, CallStep(c)
    PROVE  Enters(c) \/ Leaves(c) \/ Advances(c) \/ Outside(c) \/ Rests
<1>n. 400 \in Replies /\ 402 \in Replies /\ 409 \in Replies /\ 504 \in Replies
  BY Names
<1>t. /\ c \in Uploads => c \notin UrlCalls /\ conv[c].at \notin {"screening", "rendering", "closing"}
      /\ c \in UrlCalls => conv[c].at \notin {"admission", "queued", "converting", "gray"}
      /\ c \in Uploads \/ c \in UrlCalls
  BY DEF CallsTyped, SyncCalls
<1>p. /\ {"idle", "screening", "answered", "rendering", "closing", "admission"} \subseteq ConvPlaces
      /\ {"queued", "converting", "gray"} \subseteq ConvPlaces
  BY DEF ConvPlaces
<1>1. CASE (c \in Uploads /\ RefuseUpload(c)) \/ (c \in UrlCalls /\ RefuseUrl(c))
  BY <1>1, <1>n, CallMoves DEF RefuseUpload, RefuseUrl, Outside, InSection
<1>2. CASE c \in Uploads /\ StartUpload(c)
  BY <1>2, <1>n, <1>t, <1>p, CallMoves DEF StartUpload, Outside, InSection
<1>3. CASE c \in UrlCalls /\ StartUrl(c)
  BY <1>3, <1>n, <1>t, <1>p, CallMoves DEF StartUrl, Outside, InSection
<1>4. CASE c \in UrlCalls /\ ReceiveUrl(c)
  BY <1>4, <1>t, <1>p, CallMoves DEF ReceiveUrl, Outside, InSection
<1>5. CASE c \in Uploads /\ Admit(c)
  BY <1>5, <1>p, CallMoves DEF Admit, Enters
<1>6. CASE c \in Uploads /\ TurnAway(c)
  BY <1>6, FailGoes DEF TurnAway, Outside, InSection
<1>7. CASE c \in Uploads /\ (AcquireSlot(c) \/ StartGray(c))
  BY <1>7, <1>p, CallMoves DEF AcquireSlot, StartGray, Advances
<1>8. CASE c \in Uploads /\ ConvertOk(c)
  BY <1>8, DeliverGoes DEF ConvertOk, Leaves, LeaveSection, InSection
<1>9. CASE c \in Uploads /\ ConvertRaises(c)
  BY <1>9, FailGoes DEF ConvertRaises, Leaves, LeaveSection, InSection, HoldsPermit
<1>10. CASE DetachedEnds(c)
  BY <1>10 DEF DetachedEnds, Rests
<1>11. CASE c \in UrlCalls /\ (RenderOk(c) \/ RenderRaises(c))
  BY <1>11, DeliverGoes, FailGoes DEF RenderOk, RenderRaises, Outside, InSection
<1>c. CASE c \in UrlCalls /\ CancelRender(c)
  BY <1>c, <1>t, <1>p, CallMoves DEF CancelRender, Outside, InSection
<1>d. CASE c \in UrlCalls /\ CloseRender(c)
  BY <1>d, <1>n, CallMoves DEF CloseRender, Outside, InSection
<1>12. CASE TimeOutCall(c)
  <2>1. CallOnly(c) /\ conv'[c].at = "answered"
    BY <1>12, <1>n, CallMoves DEF TimeOutCall
  <2>2. CASE conv[c].at \in InSection
    BY <1>12, <1>t, <2>1, <2>2 DEF TimeOutCall, Leaves, LeaveSection, InSection
  <2>3. CASE conv[c].at \notin InSection
    BY <1>12, <2>1, <2>3 DEF TimeOutCall, Outside, InSection
  <2> QED
    BY <2>2, <2>3
<1>13. CASE c \in Uploads /\ UploadStep(c)
  <2>1. \/ RefuseUpload(c) \/ StartUpload(c) \/ Admit(c) \/ TurnAway(c) \/ AcquireSlot(c)
        \/ StartGray(c) \/ ConvertOk(c) \/ ConvertRaises(c) \/ DetachedEnds(c)
    BY <1>13 DEF UploadStep
  <2>2. c \in Uploads
    BY <1>13
  <2> QED
    BY <1>1, <1>2, <1>5, <1>6, <1>7, <1>8, <1>9, <1>10, <2>1, <2>2
<1>14. CASE c \in UrlCalls /\ UrlStep(c)
  BY <1>1, <1>3, <1>4, <1>11, <1>c, <1>d, <1>14, Zenon DEF UrlStep
<1> QED
  BY <1>12, <1>13, <1>14 DEF CallStep

LEMMA CallsTypedStep ==
    ASSUME CallsTyped, NEW c \in SyncCalls,
           Enters(c) \/ Leaves(c) \/ Advances(c) \/ Outside(c) \/ Rests
    PROVE  CallsTyped'
<1>1. CASE Rests
  BY <1>1 DEF Rests, CallsTyped
<1>2. CASE Enters(c) \/ Leaves(c) \/ Advances(c) \/ Outside(c)
  <2>1. CallOnly(c)
    BY <1>2 DEF Enters, Leaves, Advances, Outside
  <2>2. /\ c \in Uploads => c \notin UrlCalls /\ conv'[c].at \notin {"screening", "rendering", "closing"}
        /\ c \in UrlCalls => conv'[c].at \notin {"admission", "queued", "converting", "gray"}
    BY <1>2 DEF Enters, Leaves, Advances, Outside, InSection
  <2> QED
    BY <2>1, <2>2 DEF CallsTyped, CallOnly, SyncCalls
<1> QED
  BY <1>1, <1>2

\* The gate's part of the inductive invariant.
LEMMA AdmissionStep ==
    ASSUME CallsTyped, AdmissionAgrees, NEW c \in SyncCalls,
           Enters(c) \/ Leaves(c) \/ Advances(c) \/ Outside(c) \/ Rests
    PROVE  AdmissionAgrees'
<1>1. /\ pendingConversions = Cardinality(Inside) /\ pendingBytes = SumOf(SizeOf, Inside)
      /\ pendingConversions <= MaxPendingConversions /\ pendingBytes <= MaxPendingBytes
      /\ Cardinality(HoldsPermit) <= MaxConcurrentConversions
  BY DEF AdmissionAgrees, Inside
<1>2. /\ HoldsPermit = {d \in Uploads : conv[d].at \in {"converting", "gray"}}
      /\ HoldsPermit' = {d \in Uploads : conv'[d].at \in {"converting", "gray"}}
  <2>1. CallsTyped'
    BY CallsTypedStep
  <2> QED
    BY <2>1 DEF CallsTyped, HoldsPermit, SyncCalls
<1>3. /\ IsFiniteSet(Inside) /\ IsFiniteSet(HoldsPermit)
      /\ Inside \subseteq Uploads /\ HoldsPermit \subseteq Uploads
  <2>1. Inside \subseteq Uploads /\ HoldsPermit \subseteq Uploads
    BY <1>2 DEF Inside
  <2> QED
    BY <2>1, FS_Subset
<1>4. /\ Cardinality(Inside) \in Nat /\ Cardinality(HoldsPermit) \in Nat
      /\ SumOf(SizeOf, Inside) \in Nat /\ \A d \in Uploads : SizeOf[d] \in Nat
  BY <1>3, FS_CardinalityType, SumNat
<1>5. SUFFICES /\ pendingConversions' = Cardinality(Inside') /\ pendingBytes' = SumOf(SizeOf, Inside')
               /\ pendingConversions' <= MaxPendingConversions /\ pendingBytes' <= MaxPendingBytes
               /\ Cardinality(HoldsPermit') <= MaxConcurrentConversions
  BY DEF AdmissionAgrees, Inside
<1>6. CASE Rests
  BY <1>1, <1>6 DEF Rests, Inside, HoldsPermit
<1>7. CASE Enters(c)
  <2>1. /\ c \in Uploads /\ c \notin Inside /\ Inside' = Inside \cup {c}
        /\ HoldsPermit' = HoldsPermit
    BY <1>2, <1>7 DEF Enters, CallOnly, Inside, InSection, SyncCalls
  <2>2. Cardinality(Inside') = Cardinality(Inside) + 1
    BY <1>3, <2>1, FS_AddElement
  <2>3. SumOf(SizeOf, Inside') = SumOf(SizeOf, Inside) + SizeOf[c]
    <3>1. \A y \in Inside \cup {c} : SizeOf[y] \in Int
      BY <1>3, <1>4, <2>1
    <3> QED
      BY <1>3, <2>1, <3>1, SumPut
  <2> QED
    BY <1>1, <1>4, <1>7, <2>1, <2>2, <2>3 DEF Enters, AdmissionOpen
<1>8. CASE Leaves(c)
  <2>1. /\ c \in Uploads /\ c \in Inside /\ Inside' = Inside \ {c}
        /\ HoldsPermit' \subseteq HoldsPermit
    BY <1>2, <1>8 DEF Leaves, CallOnly, Inside, InSection, SyncCalls
  <2>2. Cardinality(Inside') = Cardinality(Inside) - 1
    BY <1>3, <2>1, FS_RemoveElement
  <2>3. SumOf(SizeOf, Inside) = SizeOf[c] + SumOf(SizeOf, Inside')
    <3>1. \A y \in Inside : SizeOf[y] \in Int
      BY <1>3, <1>4
    <3> QED
      BY <1>3, <2>1, <3>1, SumTake
  <2>4. Cardinality(HoldsPermit') <= Cardinality(HoldsPermit)
    BY <1>3, <2>1, FS_Subset
  <2>5. SumOf(SizeOf, Inside') \in Nat /\ Cardinality(HoldsPermit') \in Nat
    <3>1. Inside' \subseteq Inside /\ IsFiniteSet(Inside') /\ IsFiniteSet(HoldsPermit')
      BY <1>3, <2>1, FS_Subset
    <3> QED
      BY <1>3, <1>4, <3>1, SumNat, FS_CardinalityType
  <2> QED
    BY <1>1, <1>4, <1>8, <2>1, <2>2, <2>3, <2>4, <2>5 DEF Leaves
<1>9. CASE Advances(c)
  <2>1. Inside' = Inside
    BY <1>9 DEF Advances, CallOnly, Inside, InSection, SyncCalls
  <2>2. \/ HoldsPermit' = HoldsPermit
        \/ /\ HoldsPermit' = HoldsPermit \cup {c}
           /\ c \notin HoldsPermit /\ Cardinality(HoldsPermit) < MaxConcurrentConversions
    BY <1>2, <1>9 DEF Advances, CallOnly, SyncCalls
  <2>3. Cardinality(HoldsPermit') <= MaxConcurrentConversions
    <3>1. CASE HoldsPermit' = HoldsPermit
      BY <1>1, <3>1
    <3>2. CASE /\ HoldsPermit' = HoldsPermit \cup {c} /\ c \notin HoldsPermit
               /\ Cardinality(HoldsPermit) < MaxConcurrentConversions
      <4>1. Cardinality(HoldsPermit') = Cardinality(HoldsPermit) + 1
        BY <1>3, <3>2, FS_AddElement
      <4> QED
        BY <1>4, <3>2, <4>1
    <3> QED
      BY <2>2, <3>1, <3>2
  <2> QED
    BY <1>1, <1>9, <2>1, <2>3 DEF Advances
<1>10. CASE Outside(c)
  <2>1. Inside' = Inside /\ HoldsPermit' = HoldsPermit
    BY <1>2, <1>10 DEF Outside, CallOnly, Inside, InSection, SyncCalls
  <2> QED
    BY <1>1, <1>10, <2>1 DEF Outside
<1> QED
  BY <1>6, <1>7, <1>8, <1>9, <1>10

-----------------------------------------------------------------------------
(* Job rows, and the types of all of it *)

\* What settling a job does: only to a row of the caller's own project.
JobsKept(c, s, jobs) ==
    /\ jobs \in [JobIds -> JobRows]
    /\ \A j \in JobIds :
          \/ jobs[j] = jobRow[j]
          \/ /\ j = JobIdOf[c] /\ jobs[j].project = ProjectOf[c] /\ jobs[j].status = s
             /\ jobRow[j].project = ProjectOf[c]
             /\ jobs[j].key = IF s = "success" THEN c ELSE jobRow[j].key

LEMMA JobsSettle ==
    ASSUME jobRow \in [JobIds -> JobRows], NEW c \in SyncCalls, NEW s \in {"success", "failed"}
    PROVE  JobsKept(c, s, SettledJobs(c, s)) /\ JobsKept(c, s, jobRow)
<1> DEFINE j == JobIdOf[c]
           key == IF s = "success" THEN c ELSE jobRow[j].key
           row == [jobRow[j] EXCEPT !.status = s, !.key = key]
<1>1. JobsKept(c, s, jobRow)
  BY DEF JobsKept
<1>2. CASE j \in JobIds /\ jobRow[j].project = ProjectOf[c] /\ j # None
  <2>1. jobRow[j] \in JobRows
    BY <1>2
  <2>2. SettledJobs(c, s) = [jobRow EXCEPT ![j] = row]
    <3>1. SettledJobs(c, s)
            = [jobRow EXCEPT ![j].status = s, ![j].key = IF s = "success" THEN c ELSE @]
      BY <1>2 DEF SettledJobs
    <3> QED
      BY <1>2, <3>1
  <2>a. key \in ObjectKeys
    BY <2>1, Names DEF JobRows
  <2> HIDE DEF key
  <2>3. row \in JobRows
    BY <2>1, <2>a DEF JobRows
  <2>4. row.project = ProjectOf[c] /\ row.status = s /\ row.key = key
    BY <1>2, <2>1 DEF JobRows
  <2> HIDE DEF row
  <2>5. /\ [jobRow EXCEPT ![j] = row] \in [JobIds -> JobRows]
        /\ [jobRow EXCEPT ![j] = row][j] = row
        /\ \A o \in JobIds \ {j} : [jobRow EXCEPT ![j] = row][o] = jobRow[o]
    BY <1>2, <2>3
  <2> QED
    BY <1>1, <1>2, <2>2, <2>4, <2>5 DEF JobsKept, key
<1>3. CASE ~(j \in JobIds /\ jobRow[j].project = ProjectOf[c] /\ j # None)
  <2>1. SettledJobs(c, s) = jobRow
    BY <1>3, Names DEF SettledJobs
  <2> QED
    BY <1>1, <2>1
<1> QED
  BY <1>1, <1>2, <1>3

\* What logging a row and claiming a job do.
LEMMA StartRow ==
    ASSUME RowsTyped, NEW c \in SyncCalls, activity' = [activity EXCEPT ![c].status = InProgress]
    PROVE  /\ activity' \in [Ids -> Activities] /\ \A o \in Ids \ {c} : activity'[o] = activity[o]
           /\ activity'[c].status = InProgress /\ activity'[c].key = activity[c].key
<1>1. activity \in [Ids -> Activities] /\ c \in Ids /\ activity[c] \in Activities
  BY Names DEF RowsTyped
<1> DEFINE row == [status |-> InProgress, key |-> activity[c].key]
<1>2. activity' = [activity EXCEPT ![c] = row]
  <2>1. [activity[c] EXCEPT !.status = InProgress] = row
    BY <1>1 DEF Activities
  <2> QED
    BY <1>1, <2>1
<1>3. row \in Activities
  BY <1>1 DEF Activities
<1>4. row.status = InProgress /\ row.key = activity[c].key
  OBVIOUS
<1> HIDE DEF row
<1> QED
  BY <1>1, <1>2, <1>3, <1>4

LEMMA CallTyped ==
    ASSUME ConvTyped, NEW c \in SyncCalls, CallStep(c)
    PROVE  ConvTyped'
<1>1. CallsTyped /\ RowsTyped /\ TasksTyped
  BY DEF ConvTyped
<1>2. CallsTyped'
  BY <1>1, GateMoves, CallsTypedStep, Zenon
<1>3. \/ Quiet(c) \/ Starts(c) \/ Answers(c)
      \/ UNCHANGED <<conv, recordVars, objects, jobRow, zipJob, told, convFaults>>
  BY <1>1, CallShape DEF CallStep
<1>4. UNCHANGED <<zipJob, told>>
  BY <1>3 DEF Quiet, Starts, Answers
<1>5. TasksTyped'
  BY <1>1, <1>4 DEF TasksTyped
<1>6. c \in Ids /\ c \in ObjectKeys /\ None \in ObjectKeys
  BY Names
<1>7. CASE UNCHANGED <<recordVars, objects, jobRow, convFaults>>
  BY <1>2, <1>5, <1>7 DEF ConvTyped, RowsTyped, recordVars
<1>8. CASE Starts(c)
  <2>1. activity' \in [Ids -> Activities]
    BY <1>1, <1>8, StartRow DEF Starts
  <2>2. jobRow' \in [JobIds -> JobRows]
    <3>1. CASE UNCHANGED jobRow
      BY <3>1 DEF ConvTyped
    <3>2. CASE /\ JobIdOf[c] # None
               /\ jobRow' = [jobRow EXCEPT ![JobIdOf[c]] =
                                [project |-> ProjectOf[c], status |-> "", key |-> None]]
      <4>1. [project |-> ProjectOf[c], status |-> "", key |-> None] \in JobRows
        BY <1>6 DEF JobRows
      <4> QED
        BY <3>2, <4>1 DEF ConvTyped
    <3> QED
      BY <1>8, <3>1, <3>2 DEF Starts
  <2>3. RowsTyped'
    <3>1. /\ UNCHANGED <<chargedConv, expiringConv>>
          /\ convFaults' \in {convFaults, convFaults + 1}
      BY <1>8 DEF Starts
    <3>2. convFaults' \in Nat
      BY <1>1, <3>1 DEF RowsTyped
    <3> QED
      BY <1>1, <2>1, <3>1, <3>2 DEF RowsTyped
  <2>4. objects' = objects
    BY <1>8 DEF Starts
  <2> QED
    BY <1>2, <1>5, <2>2, <2>3, <2>4 DEF ConvTyped
<1>9. CASE Answers(c)
  <2>1. RowsTyped'
    BY <1>1, <1>6, <1>9 DEF RowsTyped, Answers, Effect
  <2>2. objects' \subseteq ObjectKeys
    BY <1>6, <1>9 DEF ConvTyped, Answers
  <2>3. jobRow' \in [JobIds -> JobRows]
    <3>1. jobRow' \in {jobRow, SettledJobs(c, "success"), SettledJobs(c, "failed")}
      BY <1>9 DEF Answers
    <3> QED
      BY <3>1, JobsSettle DEF ConvTyped, JobsKept
  <2> QED
    BY <1>2, <1>5, <2>1, <2>2, <2>3 DEF ConvTyped
<1> QED
  BY <1>3, <1>7, <1>8, <1>9 DEF Quiet

LEMMA TaskTyped ==
    ASSUME ConvTyped, NEW b \in AsyncCalls, TaskMoves(b)
    PROVE  ConvTyped'
<1>1. CallsTyped /\ RowsTyped /\ TasksTyped
  BY DEF ConvTyped
<1>2. TaskOnly(b)
  BY DEF TaskMoves, Submits, Renders, Bundles, Stamps, Aborts, Notifies
<1>3. CallsTyped' /\ jobRow' \in [JobIds -> JobRows]
  BY <1>1, <1>2 DEF TaskOnly, CallsTyped, ConvTyped
<1>4. b \in ObjectKeys /\ None \in ObjectKeys
  BY Names
<1>5. zipJob[b] \in ZipJobs /\ zipJob'[b] \in ZipJobs /\ UrlCount[b] \in Nat \ {0}
  BY <1>1, <1>2, Addresses DEF TaskOnly, TasksTyped
<1>6. SUFFICES /\ RowsTyped' /\ objects' \subseteq ObjectKeys
               /\ told' \in [BatchItems \cup AsyncCalls -> {None, "success", "failed"}]
               /\ zipJob'[b].at = "render" => zipJob'[b].i <= UrlCount[b]
  BY <1>1, <1>2, <1>3 DEF ConvTyped, TasksTyped, TaskOnly
<1>7. CASE Submits(b)
  BY <1>1, <1>5, <1>7 DEF Submits, ConvTyped, RowsTyped, TasksTyped
<1>8. CASE Renders(b)
  <2>1. /\ Item(b) \in Ids /\ Item(b) \in BatchItems /\ Item(b) \in ObjectKeys
        /\ zipJob[b].i \in 1..UrlCount[b]
    BY <1>1, <1>8, ItemKnown, Names DEF Renders, TasksTyped
  <2>2. RowsTyped'
    BY <1>1, <1>4, <1>8, <2>1 DEF RowsTyped, Renders, Effect
  <2>3. objects' \subseteq ObjectKeys
    BY <1>8, <2>1 DEF ConvTyped, Renders
  <2>4. told' \in [BatchItems \cup AsyncCalls -> {None, "success", "failed"}]
    BY <1>1, <1>8, <2>1 DEF TasksTyped, Renders
  <2>5. zipJob'[b].at = "render" => zipJob'[b].i <= UrlCount[b]
    BY <1>5, <1>8, <2>1 DEF Renders
  <2> QED
    BY <2>2, <2>3, <2>4, <2>5
<1>9. CASE Bundles(b)
  BY <1>1, <1>4, <1>9 DEF Bundles, ConvTyped, RowsTyped, TasksTyped, recordVars
<1>10. CASE Stamps(b)
  <2>1. Item(b) \in Ids
    BY <1>1, <1>10, ItemKnown DEF Stamps
  <2>2. RowsTyped'
    BY <1>1, <1>4, <1>10, <2>1 DEF RowsTyped, Stamps, Effect, recordVars
  <2> QED
    BY <1>1, <1>10, <2>2 DEF Stamps, ConvTyped, TasksTyped
<1>11. CASE Aborts(b)
  <2>1. Item(b) \in Ids
    BY <1>1, <1>11, ItemKnown DEF Aborts
  <2>2. RowsTyped'
    BY <1>1, <1>4, <1>11, <2>1 DEF RowsTyped, Aborts, Effect
  <2> QED
    BY <1>1, <1>11, <2>2 DEF Aborts, ConvTyped, TasksTyped
<1>12. CASE Notifies(b)
  BY <1>1, <1>12 DEF Notifies, ConvTyped, RowsTyped, TasksTyped, recordVars
<1> QED
  BY <1>7, <1>8, <1>9, <1>10, <1>11, <1>12 DEF TaskMoves

-----------------------------------------------------------------------------
(* The records: the inductive invariant *)

\* A synchronous request: no row before it is logged, then one in progress that is
\* neither charged nor keyed until the answer.
CallStand(c) ==
    LET row == activity[c]
    IN  /\ conv[c].at \in {"idle", "screening"} => row.status = "absent"
        /\ conv[c].at \in {"admission", "queued", "converting", "gray", "rendering", "closing"} =>
              row.status = InProgress
        /\ conv[c].at # "answered" => row.status \in {"absent", InProgress}

\* A row's money: charged just when successful unless a store call failed, keyed only by
\* what was uploaded, and registered for deletion where the plan keeps nothing.
MoneyOk(id) ==
    LET row == activity[id]
    IN  /\ convFaults = 0 => (id \in chargedConv <=> row.status = "Success")
        /\ row.key # None => row.key \in objects
        /\ NoStoragePlan /\ convFaults = 0 /\ id \in SyncCalls /\ row.status = "Success" =>
              row.key \in expiringConv \cup {None}

\* A job that says success names an upload of a request of this id and project.
JobOk(j) ==
    jobRow[j].status = "success" =>
        /\ jobRow[j].key \in SyncCalls /\ jobRow[j].key \in objects
        /\ JobIdOf[jobRow[j].key] = j /\ ProjectOf[jobRow[j].key] = jobRow[j].project

\* The row of the k-th address of a batch, by where its task stands.
RowStand(b, k) ==
    LET z == zipJob[b]
        id == Pages[b][k]
        row == activity[id]
    IN  /\ z.at = "idle" => row.status = "absent"
        /\ z.at = "render" /\ k >= z.i => row.status = InProgress
        /\ z.zip /\ z.at \in {"render", "bundle", "stamp"} /\ row.status = "Success" =>
              id \in z.files
        /\ /\ convFaults = 0
           /\ \/ z.at = "render" /\ k < z.i
              \/ z.at \in {"bundle", "stamp"}
              \/ z.at = "settled" /\ z.zip
           => row.status # InProgress
        /\ z.at = "stamp" /\ k < z.i /\ id \in z.files => row.status = "Success" /\ row.key = b
        /\ z.at = "abort" /\ k < z.i /\ convFaults = 1 => row.status # "Success"
        /\ z.at = "settled" /\ z.zip /\ told[b] = "success" =>
              /\ row.status = "Success" <=> id \in z.files
              /\ id \in z.files => row.key = b
        /\ z.at = "settled" /\ z.zip /\ told[b] # "success" /\ convFaults <= 1 =>
              row.status # "Success"

BatchStand(b) ==
    LET z == zipJob[b]
    IN  /\ z.files \subseteq ItemsOf(b)
        /\ z.at = "stamp" => b \in objects /\ z.files # {}
        /\ z.at = "abort" => convFaults >= 1
        /\ z.at = "bundle" => z.zip
        /\ z.at = "settled" /\ z.zip /\ told[b] = "success" => b \in objects /\ z.files # {}
        /\ \A k \in 1..UrlCount[b] : RowStand(b, k)

RecordsInv ==
    /\ \A c \in SyncCalls : CallStand(c)
    /\ \A id \in Ids : MoneyOk(id)
    /\ \A j \in JobIds : JobOk(j)
    /\ \A b \in AsyncCalls : BatchStand(b)

\* What a step that is about others leaves of a row.
Grows ==
    /\ objects \subseteq objects' /\ expiringConv \subseteq expiringConv'
    /\ convFaults \in Nat /\ convFaults' \in Nat /\ convFaults <= convFaults'
Spares(id) == activity'[id] = activity[id] /\ (id \in chargedConv' <=> id \in chargedConv)
SparesBatch(b) ==
    zipJob'[b] = zipJob[b] /\ told'[b] = told[b] /\ \A id \in ItemsOf(b) : Spares(id)

LEMMA CallFrame ==
    ASSUME ConvTyped, NEW c \in SyncCalls, CallStep(c)
    PROVE  Grows /\ (\A id \in Ids \ {c} : Spares(id)) /\ UNCHANGED <<zipJob, told>>
<1>1. \/ Quiet(c) \/ Starts(c) \/ Answers(c)
      \/ UNCHANGED <<conv, recordVars, objects, jobRow, zipJob, told, convFaults>>
  BY CallShape DEF CallStep, ConvTyped
<1>2. RowsTyped /\ convFaults \in Nat
  BY DEF ConvTyped, RowsTyped
<1>3. CASE UNCHANGED <<recordVars, objects, zipJob, told, convFaults>>
  BY <1>2, <1>3 DEF Grows, Spares, recordVars
<1>4. CASE Starts(c)
  <2>1. \A o \in Ids \ {c} : activity'[o] = activity[o]
    BY <1>2, <1>4, StartRow DEF Starts
  <2>2. convFaults' \in {convFaults, convFaults + 1}
    BY <1>4 DEF Starts
  <2>3. convFaults' \in Nat /\ convFaults <= convFaults'
    BY <1>2, <2>2
  <2> QED
    BY <1>2, <1>4, <2>1, <2>3 DEF Starts, Grows, Spares
<1>5. CASE Answers(c)
  <2>1. Effect(c, "Success", c) \/ Effect(c, "Failed", None)
    BY <1>5 DEF Answers
  <2>2. objects \subseteq objects' /\ UNCHANGED <<zipJob, told>>
    BY <1>5 DEF Answers
  <2> QED
    BY <1>2, <2>1, <2>2 DEF Effect, Grows, Spares
<1> QED
  BY <1>1, <1>3, <1>4, <1>5 DEF Quiet

LEMMA TaskFrame ==
    ASSUME ConvTyped, NEW b \in AsyncCalls, TaskMoves(b)
    PROVE  /\ Grows /\ UNCHANGED <<conv, jobRow>>
           /\ \A id \in Ids \ ItemsOf(b) : Spares(id)
           /\ \A d \in AsyncCalls \ {b} : SparesBatch(d)
<1>1. TaskOnly(b) /\ RowsTyped /\ TasksTyped /\ convFaults \in Nat
  BY DEF TaskMoves, Submits, Renders, Bundles, Stamps, Aborts, Notifies, ConvTyped, RowsTyped
<1>2. ASSUME Grows, \A id \in Ids \ ItemsOf(b) : Spares(id),
             \A d \in AsyncCalls \ {b} : told'[d] = told[d]
      PROVE  \A d \in AsyncCalls \ {b} : SparesBatch(d)
  BY <1>1, <1>2, Addresses, Names DEF TaskOnly, SparesBatch
<1>3. ASSUME NEW id \in ItemsOf(b), NEW s, NEW key, Effect(id, s, key), objects \subseteq objects'
      PROVE  Grows /\ \A o \in Ids \ ItemsOf(b) : Spares(o)
  BY <1>1, <1>3 DEF Effect, Grows, Spares
<1>4. ASSUME UNCHANGED <<recordVars, convFaults>>, objects \subseteq objects'
      PROVE  Grows /\ \A o \in Ids : Spares(o)
  BY <1>1, <1>4 DEF Grows, Spares, recordVars
<1>5. SUFFICES /\ Grows /\ \A id \in Ids \ ItemsOf(b) : Spares(id)
               /\ \A d \in AsyncCalls \ {b} : told'[d] = told[d]
  BY <1>1, <1>2 DEF TaskOnly
<1>6. \A d \in AsyncCalls : d \notin BatchItems
  OBVIOUS
<1>7. CASE Submits(b)
  <2>1. convFaults' \in {convFaults, convFaults + 1}
    BY <1>7 DEF Submits
  <2>2. convFaults' \in Nat /\ convFaults <= convFaults'
    BY <1>1, <2>1
  <2> QED
    BY <1>1, <1>7, <2>2 DEF Submits, Grows, Spares
<1>8. CASE Renders(b)
  <2>1. Item(b) \in ItemsOf(b) /\ Item(b) \in BatchItems
    BY <1>1, <1>8, ItemKnown DEF Renders, TasksTyped
  <2>2. /\ \E s, key : Effect(Item(b), s, key)
        /\ objects \subseteq objects'
        /\ \A d \in AsyncCalls \ {b} : told'[d] = told[d]
    BY <1>1, <1>6, <1>8, <2>1 DEF Renders, TasksTyped
  <2> QED
    BY <1>3, <2>1, <2>2
<1>9. CASE Bundles(b)
  <2>1. Grows
    BY <1>1, <1>9 DEF Bundles, Grows, recordVars
  <2> QED
    BY <1>1, <1>9, <2>1 DEF Bundles, Spares, TasksTyped, recordVars
<1>10. CASE Stamps(b)
  <2>1. Item(b) \in ItemsOf(b)
    BY <1>1, <1>10, ItemKnown DEF Stamps
  <2> QED
    BY <1>3, <1>4, <1>10, <2>1 DEF Stamps
<1>11. CASE Aborts(b)
  <2>1. Item(b) \in ItemsOf(b)
    BY <1>1, <1>11, ItemKnown DEF Aborts
  <2> QED
    BY <1>3, <1>11, <2>1 DEF Aborts
<1>12. CASE Notifies(b)
  BY <1>1, <1>4, <1>12 DEF Notifies, TasksTyped
<1> QED
  BY <1>7, <1>8, <1>9, <1>10, <1>11, <1>12 DEF TaskMoves

LEMMA MoneySpared ==
    ASSUME NEW id \in Ids, MoneyOk(id), Grows, Spares(id)
    PROVE  MoneyOk(id)'
<1>1. convFaults' = 0 => convFaults = 0
  BY DEF Grows
<1> QED
  BY <1>1 DEF MoneyOk, Grows, Spares

LEMMA BatchSpared ==
    ASSUME NEW b \in AsyncCalls, BatchStand(b), Grows, SparesBatch(b)
    PROVE  BatchStand(b)'
<1>1. /\ convFaults' = 0 => convFaults = 0
      /\ convFaults' = 1 => convFaults = 1 \/ convFaults = 0
      /\ convFaults' <= 1 => convFaults <= 1
      /\ convFaults >= 1 => convFaults' >= 1 /\ convFaults # 0
  BY DEF Grows
<1>2. \A k \in 1..UrlCount[b] : Pages[b][k] \in ItemsOf(b)
  BY Addresses
<1>3. ASSUME NEW k \in 1..UrlCount[b] PROVE RowStand(b, k)'
  <2>1. RowStand(b, k) /\ (zipJob[b].at = "abort" => convFaults >= 1)
    BY DEF BatchStand
  <2>2. activity'[Pages[b][k]] = activity[Pages[b][k]]
    BY <1>2 DEF SparesBatch, Spares
  <2>3. zipJob'[b] = zipJob[b] /\ told'[b] = told[b]
    BY DEF SparesBatch
  <2> QED
    BY <1>1, <2>1, <2>2, <2>3 DEF RowStand
<1> QED
  BY <1>1, <1>3 DEF BatchStand, SparesBatch, Grows

LEMMA CallRecords ==
    ASSUME ConvTyped, RecordsInv, NEW c \in SyncCalls, CallStep(c)
    PROVE  RecordsInv'
<1>1. \/ Quiet(c) \/ Starts(c) \/ Answers(c)
      \/ UNCHANGED <<conv, recordVars, objects, jobRow, zipJob, told, convFaults>>
  BY CallShape DEF CallStep, ConvTyped
<1>2. Grows /\ (\A id \in Ids \ {c} : Spares(id)) /\ UNCHANGED <<zipJob, told>>
  BY CallFrame
<1>3. /\ c \in Ids /\ c \notin BatchItems /\ c # None /\ RowsTyped /\ BatchItems \subseteq Ids
      /\ \A b \in AsyncCalls : ItemsOf(b) \subseteq BatchItems
  BY Names, Addresses DEF ConvTyped
<1>4. \A b \in AsyncCalls : BatchStand(b)'
  <2>1. \A b \in AsyncCalls : SparesBatch(b)
    BY <1>2, <1>3 DEF SparesBatch
  <2> QED
    BY <1>2, <2>1, BatchSpared DEF RecordsInv
<1>5. \A id \in Ids \ {c} : MoneyOk(id)'
  BY <1>2, MoneySpared DEF RecordsInv
<1>6. \A d \in SyncCalls \ {c} : CallStand(d)'
  <2>1. conv' = conv \/ CallOnly(c)
    BY <1>1 DEF Quiet, Starts, Answers
  <2> QED
    BY <1>2, <2>1, Names DEF CallOnly, Spares, RecordsInv, CallStand
<1>7. CallStand(c) /\ MoneyOk(c) /\ \A j \in JobIds : JobOk(j)
  BY <1>3 DEF RecordsInv
<1>8. SUFFICES CallStand(c)' /\ MoneyOk(c)' /\ \A j \in JobIds : JobOk(j)'
  BY <1>4, <1>5, <1>6 DEF RecordsInv
<1>9. CASE UNCHANGED <<recordVars, objects, jobRow, convFaults>> /\ (Quiet(c) \/ UNCHANGED conv)
  <2>1. CallStand(c)'
    BY <1>7, <1>9 DEF CallStand, Quiet, recordVars
  <2>2. MoneyOk(c)' /\ \A j \in JobIds : JobOk(j)'
    BY <1>7, <1>9 DEF MoneyOk, JobOk, recordVars
  <2> QED
    BY <2>1, <2>2
<1>10. CASE Starts(c)
  <2>1. activity'[c].status = InProgress /\ activity'[c].key = activity[c].key
    BY <1>3, <1>10, StartRow DEF Starts
  <2>2. activity[c].status = "absent"
    BY <1>7, <1>10 DEF Starts, CallStand
  <2>3. CallStand(c)'
    BY <1>10, <2>1 DEF Starts, CallStand
  <2>4. MoneyOk(c)'
    <3>1. convFaults' = 0 => convFaults = 0
      BY <1>2 DEF Grows
    <3>2. UNCHANGED <<chargedConv, objects>>
      BY <1>10 DEF Starts
    <3> QED
      BY <1>7, <2>1, <2>2, <3>1, <3>2, Words DEF MoneyOk
  <2>5. ASSUME NEW j \in JobIds PROVE JobOk(j)'
    <3>1. jobRow'[j] = jobRow[j] \/ jobRow'[j].status = ""
      <4> DEFINE row == [project |-> ProjectOf[c], status |-> "", key |-> None]
      <4>1. row.status = ""
        OBVIOUS
      <4> HIDE DEF row
      <4>2. jobRow' = jobRow \/ jobRow' = [jobRow EXCEPT ![JobIdOf[c]] = row]
        BY <1>10 DEF Starts, row
      <4> QED
        BY <4>1, <4>2 DEF ConvTyped
    <3> QED
      BY <1>7, <1>10, <3>1 DEF Starts, JobOk
  <2> QED
    BY <2>3, <2>4, <2>5
<1>11. CASE Answers(c)
  <2>1. activity[c].status = InProgress
    BY <1>7, <1>11 DEF Answers, CallStand
  <2>2. CallStand(c)'
    BY <1>11 DEF Answers, CallStand
  <2>3. MoneyOk(c)'
    <3>1. convFaults' = 0 => convFaults = 0 /\ convFaults' = convFaults
      BY <1>2 DEF Grows
    <3>2. FirstSuccess(c, "Success") /\ ~FirstSuccess(c, "Failed")
      BY <2>1, Words DEF FirstSuccess
    <3>3. CASE Effect(c, "Success", c) /\ objects' = objects \cup {c}
      BY <1>3, <1>7, <2>1, <3>1, <3>2, <3>3, Words DEF MoneyOk, Effect
    <3>4. CASE Effect(c, "Failed", None) /\ UNCHANGED objects
      BY <1>3, <1>7, <2>1, <3>1, <3>2, <3>4, Words DEF MoneyOk, Effect
    <3> QED
      BY <1>11, <3>3, <3>4 DEF Answers
  <2>4. ASSUME NEW j \in JobIds PROVE JobOk(j)'
    <3>1. \/ JobsKept(c, "success", jobRow') /\ c \in objects'
          \/ JobsKept(c, "failed", jobRow')
      BY <1>11, JobsSettle DEF Answers, ConvTyped
    <3>2. objects \subseteq objects'
      BY <1>2 DEF Grows
    <3> QED
      BY <1>7, <3>1, <3>2 DEF JobsKept, JobOk
  <2> QED
    BY <2>2, <2>3, <2>4
<1> QED
  BY <1>1, <1>9, <1>10, <1>11 DEF Quiet

\* What an update does to the money of an address's row.
LEMMA ItemMoney ==
    ASSUME NEW id \in BatchItems, MoneyOk(id), Grows, NEW s \in {"Success", "Failed"},
           NEW key, key # None => key \in objects', Effect(id, s, key),
           s = "Failed" /\ convFaults' = 0 => activity[id].status # "Success"
    PROVE  MoneyOk(id)'
<1>1. convFaults' = 0 => convFaults = 0 /\ convFaults' = convFaults
  BY DEF Grows
<1>2. id \notin SyncCalls /\ objects \subseteq objects'
  BY DEF Grows
<1>3. activity'[id].key # None => activity'[id].key \in objects'
  BY <1>2 DEF MoneyOk, Effect
<1>4. ASSUME convFaults' = 0
      PROVE  id \in chargedConv' <=> activity'[id].status = "Success"
  BY <1>1, <1>4 DEF MoneyOk, Effect, FirstSuccess
<1> QED
  BY <1>2, <1>3, <1>4 DEF MoneyOk

\* The addresses of a batch, by number.
LEMMA ByNumber ==
    ASSUME ConvTyped, NEW b \in AsyncCalls
    PROVE  /\ \A k \in 1..UrlCount[b] : /\ Pages[b][k] \in ItemsOf(b) /\ Pages[b][k] \in Ids
                                        /\ Pages[b][k] \in BatchItems /\ k \in Nat
           /\ ItemsOf(b) \subseteq BatchItems /\ ItemsOf(b) \subseteq Ids
           /\ zipJob[b].i \in Nat /\ UrlCount[b] \in Nat \ {0}
           /\ \A k \in 1..UrlCount[b] : k # zipJob[b].i /\ zipJob[b].i \in 1..UrlCount[b] =>
                 Pages[b][k] # Item(b)
<1>1. zipJob[b] \in ZipJobs
  BY DEF ConvTyped, TasksTyped
<1> QED
  BY <1>1, Addresses, Names DEF Item, ZipJobs

LEMMA SubmitsRecords ==
    ASSUME ConvTyped, RecordsInv, NEW b \in AsyncCalls, Submits(b), Grows
    PROVE  BatchStand(b)' /\ \A id \in ItemsOf(b) : MoneyOk(id)'
<1>1. BatchStand(b) /\ zipJob[b].at = "idle"
  BY DEF RecordsInv, Submits
<1>2. \A id \in ItemsOf(b) : MoneyOk(id) /\ activity[id].status = "absent"
  <2>1. \A k \in 1..UrlCount[b] : RowStand(b, k)
    BY <1>1 DEF BatchStand
  <2> QED
    BY <1>1, <2>1, ByNumber, Addresses DEF RecordsInv, RowStand
<1>3. convFaults' = 0 => convFaults = 0
  BY DEF Grows
<1>4. ASSUME NEW id \in ItemsOf(b) PROVE MoneyOk(id)'
  <2>1. id \in Ids /\ id \notin SyncCalls
    BY ByNumber
  <2>2. activity'[id] = activity[id] \/ activity'[id] = [status |-> InProgress, key |-> None]
    BY <2>1 DEF Submits
  <2>3. activity'[id].status # "Success" /\ (convFaults' = 0 => id \notin chargedConv)
    BY <1>2, <1>3, <2>2, Words DEF MoneyOk
  <2>4. activity'[id].key # None => activity'[id].key \in objects
    BY <1>2, <2>2 DEF MoneyOk
  <2> QED
    BY <2>1, <2>3, <2>4 DEF MoneyOk, Submits
<1>5. CASE /\ zipJob'[b].at = "render" /\ zipJob'[b].i = 1 /\ zipJob'[b].files = {}
           /\ \A id \in ItemsOf(b) : activity'[id].status = InProgress
  <2>1. \A k \in 1..UrlCount[b] : RowStand(b, k)'
    BY <1>5, ByNumber, Words DEF RowStand
  <2> QED
    BY <1>4, <1>5, <2>1 DEF BatchStand
<1>6. CASE zipJob'[b].at = "broken" /\ zipJob'[b].files = zipJob[b].files
  <2>1. \A k \in 1..UrlCount[b] : RowStand(b, k)'
    BY <1>6 DEF RowStand
  <2> QED
    BY <1>1, <1>4, <1>6, <2>1 DEF BatchStand
<1> QED
  BY <1>5, <1>6 DEF Submits

LEMMA RendersRecords ==
    ASSUME ConvTyped, RecordsInv, NEW b \in AsyncCalls, Renders(b), Grows
    PROVE  BatchStand(b)' /\ \A id \in ItemsOf(b) : MoneyOk(id)'
<1> DEFINE z == zipJob[b]
           y == zipJob'[b]
           n == z.i
<1>0. PICK id \in BatchItems : id = Item(b)
  BY ItemKnown DEF ConvTyped, TasksTyped, Renders
<1>1. /\ z.at = "render" /\ y.zip = z.zip /\ y.i = n + 1
      /\ y.at = IF n = UrlCount[b] THEN (IF z.zip THEN "bundle" ELSE "settled") ELSE "render"
      /\ BatchStand(b) /\ TasksTyped
  BY DEF Renders, RecordsInv, ConvTyped
<1>2. n \in 1..UrlCount[b] /\ id \in ItemsOf(b) /\ id \in BatchItems /\ id \in Ids
  BY <1>0, <1>1, ItemKnown DEF TasksTyped
<1>3. RowStand(b, n) /\ id = Pages[b][n] /\ activity[id].status = InProgress
  <2>1. RowStand(b, n) /\ id = Pages[b][n] /\ n >= n
    BY <1>0, <1>1, <1>2 DEF BatchStand, Item
  <2> QED
    BY <1>1, <2>1 DEF RowStand
<1>4. \E s \in {"Success", "Failed"}, key \in {None, id} :
         /\ Effect(id, s, key) /\ (key # None => key \in objects')
         /\ z.zip /\ s = "Success" => y.files = z.files \cup {id}
         /\ ~(z.zip /\ s = "Success") => y.files = z.files
  BY <1>0 DEF Renders
<1>5. PICK s \in {"Success", "Failed"}, key \in {None, id} :
         /\ Effect(id, s, key) /\ (key # None => key \in objects')
         /\ z.zip /\ s = "Success" => y.files = z.files \cup {id}
         /\ ~(z.zip /\ s = "Success") => y.files = z.files
  BY <1>4
<1>e. Effect(id, s, key) /\ (key # None => key \in objects')
  BY <1>5
<1>6. /\ \A o \in Ids \ {id} : activity'[o] = activity[o]
      /\ activity'[id].status \in {InProgress, s, "Failed"}
      /\ convFaults' = 0 => activity'[id].status = s /\ convFaults = 0
  BY <1>3, <1>e DEF Effect, Grows
<1>7. \A o \in ItemsOf(b) : MoneyOk(o)'
  <2>1. MoneyOk(id)'
    BY <1>2, <1>3, <1>e, ItemMoney, Words DEF RecordsInv
  <2>2. ASSUME NEW o \in ItemsOf(b) \ {id} PROVE MoneyOk(o)'
    <3>1. o \in Ids /\ MoneyOk(o)
      BY ByNumber DEF RecordsInv
    <3>2. Spares(o)
      BY <1>e, <3>1 DEF Effect, Spares
    <3> QED
      BY <3>1, <3>2, MoneySpared
  <2> QED
    BY <2>1, <2>2
<1>8. z.files \subseteq y.files /\ y.files \subseteq ItemsOf(b)
  BY <1>1, <1>2, <1>5 DEF BatchStand
<1>9. ASSUME NEW k \in 1..UrlCount[b] PROVE RowStand(b, k)'
  <2>1. RowStand(b, k) /\ k \in Nat /\ Pages[b][k] \in Ids /\ n \in Nat /\ UrlCount[b] \in Nat
    BY <1>1, ByNumber DEF BatchStand
  <2>2. CASE k = n
    <3>1. Pages[b][k] = id
      BY <1>3, <2>2
    <3>2. y.zip /\ activity'[id].status = "Success" => id \in y.files
      BY <1>1, <1>5, <1>6, Words
    <3>3. convFaults' = 0 => activity'[id].status # InProgress
      BY <1>6, Words
    <3>4. ~(k >= y.i) /\ (y.at = "settled" => ~y.zip)
      BY <1>1, <2>1, <2>2
    <3> QED
      BY <1>1, <3>1, <3>2, <3>3, <3>4 DEF RowStand
  <2>3. CASE k # n
    <3>1. Pages[b][k] # id /\ activity'[Pages[b][k]] = activity[Pages[b][k]]
      BY <1>0, <1>2, <1>6, <2>1, <2>3, ByNumber
    <3>2. k >= n + 1 => k >= n
      BY <2>1
    <3>3. k < n + 1 => k < n
      BY <2>1, <2>3
    <3>4. y.at # "render" => k < n
      BY <1>1, <2>1, <2>3
    <3>5. (y.at = "settled" => ~y.zip) /\ y.at \in {"render", "bundle", "settled"}
      BY <1>1
    <3> QED
      BY <1>1, <1>6, <1>8, <2>1, <3>1, <3>2, <3>3, <3>4, <3>5 DEF RowStand
  <2> QED
    BY <2>2, <2>3
<1> QED
  BY <1>1, <1>7, <1>8, <1>9 DEF BatchStand

LEMMA BundlesRecords ==
    ASSUME ConvTyped, RecordsInv, NEW b \in AsyncCalls, Bundles(b), Grows
    PROVE  BatchStand(b)' /\ \A id \in ItemsOf(b) : MoneyOk(id)'
<1> DEFINE z == zipJob[b]
           y == zipJob'[b]
<1>1. /\ z.at = "bundle" /\ y.zip = z.zip /\ y.files = z.files /\ UNCHANGED recordVars
      /\ BatchStand(b) /\ z.zip
  BY DEF Bundles, RecordsInv, BatchStand
<1>2. convFaults \in Nat /\ (convFaults' = 0 => convFaults = 0)
  BY DEF Grows
<1>3. \A id \in ItemsOf(b) : MoneyOk(id)'
  <2>1. \A id \in Ids : Spares(id)
    BY <1>1 DEF Spares, recordVars
  <2> QED
    BY <2>1, MoneySpared, ByNumber DEF RecordsInv
<1>4. told \in [BatchItems \cup AsyncCalls -> {None, "success", "failed"}]
  BY DEF ConvTyped, TasksTyped
<1>5. \A k \in 1..UrlCount[b] : RowStand(b, k) /\ k \in Nat /\ ~(k < 1)
  BY <1>1, ByNumber DEF BatchStand
<1>6. CASE /\ z.files = {} /\ y.at = "settled" /\ told' = [told EXCEPT ![b] = "failed"]
           /\ UNCHANGED <<objects, convFaults>>
  <2>1. told'[b] = "failed"
    BY <1>4, <1>6
  <2>2. \A k \in 1..UrlCount[b] : RowStand(b, k)'
    BY <1>1, <1>5, <1>6, <2>1 DEF RowStand, recordVars
  <2> QED
    BY <1>1, <1>3, <1>6, <2>1, <2>2 DEF BatchStand
<1>7. CASE /\ z.files # {} /\ y.at = "stamp" /\ y.i = 1 /\ objects' = objects \cup {b}
           /\ UNCHANGED <<told, convFaults>>
  <2>1. \A k \in 1..UrlCount[b] : RowStand(b, k)'
    BY <1>1, <1>5, <1>7 DEF RowStand, recordVars
  <2> QED
    BY <1>1, <1>3, <1>7, <2>1 DEF BatchStand
<1>8. CASE /\ y.at = "abort" /\ y.i = 1 /\ convFaults' = convFaults + 1
           /\ UNCHANGED <<told, objects>>
  <2>1. \A k \in 1..UrlCount[b] : RowStand(b, k)'
    BY <1>1, <1>5, <1>8 DEF RowStand, recordVars
  <2>2. convFaults' >= 1
    BY <1>2, <1>8
  <2> QED
    BY <1>1, <1>3, <1>8, <2>1, <2>2 DEF BatchStand
<1> QED
  BY <1>6, <1>7, <1>8 DEF Bundles

\* An update of one row, seen from the rest of its batch.
LEMMA OthersKept ==
    ASSUME ConvTyped, RecordsInv, NEW b \in AsyncCalls, Grows, NEW s, NEW key, NEW id \in ItemsOf(b),
           Effect(id, s, key), MoneyOk(id)'
    PROVE  /\ \A o \in ItemsOf(b) : MoneyOk(o)'
           /\ \A o \in ItemsOf(b) \ {id} : activity'[o] = activity[o]
<1>1. ASSUME NEW o \in ItemsOf(b) \ {id} PROVE MoneyOk(o)' /\ activity'[o] = activity[o]
  <2>1. o \in Ids /\ MoneyOk(o)
    BY ByNumber DEF RecordsInv
  <2>2. Spares(o)
    BY <2>1 DEF Effect, Spares
  <2> QED
    BY <2>1, <2>2, MoneySpared DEF Spares
<1> QED
  BY <1>1

LEMMA StampsRecords ==
    ASSUME ConvTyped, RecordsInv, NEW b \in AsyncCalls, Stamps(b), Grows
    PROVE  BatchStand(b)' /\ \A id \in ItemsOf(b) : MoneyOk(id)'
<1> DEFINE z == zipJob[b]
           y == zipJob'[b]
           n == z.i
<1>0. PICK id \in BatchItems : id = Item(b)
  BY ItemKnown DEF ConvTyped, TasksTyped, Stamps
<1>1. /\ z.at = "stamp" /\ n <= UrlCount[b] /\ y.zip = z.zip /\ y.files = z.files
      /\ UNCHANGED <<objects, told>> /\ BatchStand(b) /\ TasksTyped
      /\ b \in objects /\ b # None /\ b \in ObjectKeys /\ z.files # {}
  BY Names DEF Stamps, RecordsInv, ConvTyped, BatchStand
<1>2. n \in 1..UrlCount[b] /\ id \in ItemsOf(b) /\ id \in BatchItems /\ id \in Ids
  BY <1>0, <1>1, ItemKnown
<1>3. RowStand(b, n) /\ id = Pages[b][n]
  BY <1>0, <1>1, <1>2 DEF BatchStand, Item
<1>k. \A k \in 1..UrlCount[b] :
         /\ RowStand(b, k) /\ k \in Nat /\ Pages[b][k] \in ItemsOf(b)
         /\ k # n => Pages[b][k] # id
  BY <1>0, <1>1, <1>2, ByNumber DEF BatchStand
<1>n. n \in Nat /\ UrlCount[b] \in Nat
  BY ByNumber
<1>4. CASE /\ id \notin z.files /\ y.at = "stamp" /\ y.i = n + 1
           /\ UNCHANGED <<recordVars, convFaults>>
  <2>1. ASSUME NEW k \in 1..UrlCount[b] PROVE RowStand(b, k)'
    <3>1. k < n + 1 /\ Pages[b][k] \in z.files => k < n
      BY <1>3, <1>4, <1>k, <1>n
    <3>2. RowStand(b, k) /\ UNCHANGED activity
      BY <1>4, <1>k DEF recordVars
    <3> QED
      BY <1>1, <1>4, <3>1, <3>2 DEF RowStand
  <2>2. \A o \in Ids : Spares(o)
    BY <1>4 DEF Spares, recordVars
  <2>3. \A o \in ItemsOf(b) : MoneyOk(o)'
    BY <2>2, MoneySpared, ByNumber DEF RecordsInv
  <2> QED
    BY <1>1, <1>4, <2>1, <2>3 DEF BatchStand
<1>5. CASE id \in z.files /\ Effect(id, "Success", b)
  <2>1. MoneyOk(id)'
    BY <1>1, <1>2, <1>5, ItemMoney DEF RecordsInv
  <2>2. /\ \A o \in ItemsOf(b) : MoneyOk(o)'
        /\ \A o \in ItemsOf(b) \ {id} : activity'[o] = activity[o]
    BY <1>2, <1>5, <2>1, OthersKept
  <2>3. CASE y.at = "stamp" /\ y.i = n + 1 /\ convFaults' = convFaults
    <3>1. activity'[id].status = "Success" /\ activity'[id].key = b
      BY <1>1, <1>5, <2>3 DEF Effect
    <3>2. ASSUME NEW k \in 1..UrlCount[b] PROVE RowStand(b, k)'
      <4>1. CASE k = n
        BY <1>1, <1>3, <1>5, <2>3, <3>1, <4>1, Words DEF RowStand
      <4>2. CASE k # n
        <5>1. RowStand(b, k) /\ activity'[Pages[b][k]] = activity[Pages[b][k]]
          BY <1>k, <2>2, <4>2
        <5>2. k < n + 1 => k < n
          BY <1>k, <1>n, <4>2
        <5> QED
          BY <1>1, <2>3, <5>1, <5>2 DEF RowStand
      <4> QED
        BY <4>1, <4>2
    <3> QED
      BY <1>1, <2>2, <2>3, <3>2 DEF BatchStand
  <2>4. CASE y.at = "abort" /\ y.i = 1 /\ convFaults' > convFaults
    <3>1. \A k \in 1..UrlCount[b] : ~(k < 1)
      BY <1>k
    <3>2. \A k \in 1..UrlCount[b] : RowStand(b, k)'
      BY <2>4, <3>1 DEF RowStand
    <3>3. convFaults' >= 1
      BY <2>4 DEF Grows
    <3> QED
      BY <1>1, <2>2, <2>4, <3>2, <3>3 DEF BatchStand
  <2> QED
    BY <1>0, <1>1, <1>4, <1>5, <2>3, <2>4 DEF Stamps
<1> QED
  BY <1>0, <1>4, <1>5 DEF Stamps

LEMMA AbortsRecords ==
    ASSUME ConvTyped, RecordsInv, NEW b \in AsyncCalls, Aborts(b), Grows
    PROVE  BatchStand(b)' /\ \A id \in ItemsOf(b) : MoneyOk(id)'
<1> DEFINE z == zipJob[b]
           y == zipJob'[b]
           n == z.i
<1>0. PICK id \in BatchItems : id = Item(b)
  BY ItemKnown DEF ConvTyped, TasksTyped, Aborts
<1>1. /\ z.at = "abort" /\ n <= UrlCount[b] /\ y.files = z.files /\ y.at = "abort"
      /\ y.i = n + 1 /\ Effect(id, "Failed", None)
      /\ BatchStand(b) /\ TasksTyped /\ convFaults >= 1
  BY <1>0 DEF Aborts, RecordsInv, ConvTyped, BatchStand
<1>2. n \in 1..UrlCount[b] /\ id \in ItemsOf(b) /\ id \in BatchItems /\ id = Pages[b][n]
  BY <1>0, <1>1, ItemKnown DEF Item
<1>3. \A k \in 1..UrlCount[b] :
         /\ RowStand(b, k) /\ k \in Nat /\ Pages[b][k] \in ItemsOf(b)
         /\ k # n => Pages[b][k] # id
  BY <1>0, <1>1, <1>2, ByNumber DEF BatchStand
<1>4. convFaults' >= 1 /\ convFaults' # 0 /\ (convFaults' = 1 => convFaults = 1)
  BY <1>1 DEF Grows
<1>5. MoneyOk(id)'
  BY <1>1, <1>2, <1>4, ItemMoney, ByNumber DEF RecordsInv
<1>6. /\ \A o \in ItemsOf(b) : MoneyOk(o)'
      /\ \A o \in ItemsOf(b) \ {id} : activity'[o] = activity[o]
  BY <1>1, <1>2, <1>5, OthersKept
<1>7. ASSUME NEW k \in 1..UrlCount[b] PROVE RowStand(b, k)'
  <2>1. CASE k = n
    <3>1. convFaults' = 1 => activity'[id].status = "Failed"
      BY <1>1, <1>4 DEF Effect
    <3> QED
      BY <1>1, <1>2, <2>1, <3>1 DEF RowStand
  <2>2. CASE k # n
    <3>1. k < n + 1 => k < n
      BY <1>2, <1>3, <2>2
    <3>2. RowStand(b, k) /\ activity'[Pages[b][k]] = activity[Pages[b][k]]
      BY <1>3, <1>6, <2>2
    <3> QED
      BY <1>1, <1>4, <3>1, <3>2 DEF RowStand
  <2> QED
    BY <2>1, <2>2
<1> QED
  BY <1>1, <1>4, <1>6, <1>7 DEF BatchStand

LEMMA NotifiesRecords ==
    ASSUME ConvTyped, RecordsInv, NEW b \in AsyncCalls, Notifies(b), Grows
    PROVE  BatchStand(b)' /\ \A id \in ItemsOf(b) : MoneyOk(id)'
<1> DEFINE z == zipJob[b]
           y == zipJob'[b]
<1>1. /\ z.at \in {"stamp", "abort"} /\ z.i > UrlCount[b] /\ y.zip = z.zip /\ y.files = z.files
      /\ y.at = "settled" /\ UNCHANGED <<activity, chargedConv, expiringConv, objects, convFaults>>
      /\ told' = [told EXCEPT ![b] = IF z.at = "stamp" THEN "success" ELSE "failed"]
      /\ BatchStand(b)
  BY DEF Notifies, RecordsInv, recordVars
<1>2. told'[b] = IF z.at = "stamp" THEN "success" ELSE "failed"
  BY <1>1 DEF ConvTyped, TasksTyped
<1>3. \A id \in ItemsOf(b) : MoneyOk(id)'
  <2>1. \A id \in Ids : Spares(id)
    BY <1>1 DEF Spares
  <2> QED
    BY <2>1, MoneySpared, ByNumber DEF RecordsInv
<1>4. convFaults \in Nat /\ (convFaults <= 1 /\ convFaults >= 1 => convFaults = 1)
  BY DEF Grows
<1>5. ASSUME NEW k \in 1..UrlCount[b] PROVE RowStand(b, k)'
  <2>1. RowStand(b, k) /\ k < z.i
    BY <1>1, ByNumber DEF BatchStand
  <2>2. CASE z.at = "stamp"
    BY <1>1, <1>2, <2>1, <2>2 DEF RowStand
  <2>3. CASE z.at = "abort"
    <3>1. convFaults >= 1 /\ convFaults # 0
      BY <1>1, <1>4, <2>3 DEF BatchStand
    <3> QED
      BY <1>1, <1>2, <1>4, <2>1, <2>3, <3>1 DEF RowStand
  <2> QED
    BY <1>1, <2>2, <2>3
<1> QED
  BY <1>1, <1>2, <1>3, <1>5 DEF BatchStand

LEMMA TaskRecords ==
    ASSUME ConvTyped, RecordsInv, NEW b \in AsyncCalls, TaskMoves(b)
    PROVE  RecordsInv'
<1>1. /\ Grows /\ UNCHANGED <<conv, jobRow>>
      /\ \A id \in Ids \ ItemsOf(b) : Spares(id)
      /\ \A d \in AsyncCalls \ {b} : SparesBatch(d)
  BY TaskFrame
<1>2. BatchStand(b)' /\ \A id \in ItemsOf(b) : MoneyOk(id)'
  BY <1>1, SubmitsRecords, RendersRecords, BundlesRecords, StampsRecords, AbortsRecords,
     NotifiesRecords DEF TaskMoves
<1>3. \A d \in AsyncCalls \ {b} : BatchStand(d)'
  BY <1>1, BatchSpared DEF RecordsInv
<1>4. \A id \in Ids \ ItemsOf(b) : MoneyOk(id)'
  BY <1>1, MoneySpared DEF RecordsInv
<1>5. \A c \in SyncCalls : CallStand(c)'
  <2>1. \A c \in SyncCalls : c \in Ids \ ItemsOf(b)
    BY Names, ByNumber
  <2> QED
    BY <1>1, <2>1 DEF RecordsInv, CallStand, Spares
<1>6. \A j \in JobIds : JobOk(j)'
  BY <1>1 DEF RecordsInv, JobOk, Grows
<1> QED
  BY <1>2, <1>3, <1>4, <1>5, <1>6 DEF RecordsInv

-----------------------------------------------------------------------------
(* The specification keeps it *)

ConvInv == ConvTyped /\ AdmissionAgrees /\ RecordsInv

LEMMA ConvStart ==
    ASSUME ConvInit
    PROVE  ConvInv
<1>1. /\ \A c \in SyncCalls : conv[c] = [at |-> "idle", reply |-> None]
      /\ \A id \in Ids : activity[id] = [status |-> "absent", key |-> None]
      /\ \A b \in AsyncCalls : zipJob[b] = [at |-> "idle", zip |-> FALSE, i |-> 1, files |-> {}]
      /\ \A j \in JobIds : jobRow[j] = [project |-> None, status |-> None, key |-> None]
  BY DEF ConvInit, Uncalled, NoActivity, NoZipJob, NoJobRow, Ids
<1>2. None \in ObjectKeys /\ None \in Replies
  BY Names
<1>3. CallsTyped
  <2>1. [at |-> "idle", reply |-> None] \in Calls
    BY <1>2 DEF Calls, ConvPlaces
  <2>2. conv \in [SyncCalls -> Calls]
    BY <1>1, <2>1 DEF ConvInit
  <2> QED
    BY <1>1, <2>2, Names DEF CallsTyped
<1>4. RowsTyped
  <2>1. [status |-> "absent", key |-> None] \in Activities
    BY <1>2 DEF Activities
  <2>2. activity \in [Ids -> Activities]
    BY <1>1, <2>1 DEF ConvInit, Ids
  <2> QED
    BY <2>2 DEF RowsTyped, ConvInit
<1>5. TasksTyped
  <2>1. [at |-> "idle", zip |-> FALSE, i |-> 1, files |-> {}] \in ZipJobs
    BY DEF ZipJobs, ZipPlaces
  <2>2. zipJob \in [AsyncCalls -> ZipJobs]
    BY <1>1, <2>1 DEF ConvInit
  <2> QED
    BY <1>1, <2>2 DEF TasksTyped, ConvInit
<1>6. jobRow \in [JobIds -> JobRows]
  <2>1. [project |-> None, status |-> None, key |-> None] \in JobRows
    BY <1>2 DEF JobRows
  <2> QED
    BY <1>1, <2>1 DEF ConvInit
<1>7. AdmissionAgrees
  <2>1. Inside = {} /\ HoldsPermit = {}
    BY <1>1, Names DEF Inside, HoldsPermit, InSection
  <2>2. /\ Cardinality({}) = 0 /\ SumOf(SizeOf, {}) = 0
    BY FS_EmptySet, SumFirst
  <2>3. /\ pendingConversions = Cardinality(Inside) /\ pendingBytes = SumOf(SizeOf, Inside)
        /\ pendingConversions <= MaxPendingConversions /\ pendingBytes <= MaxPendingBytes
        /\ Cardinality(HoldsPermit) <= MaxConcurrentConversions
    BY <2>1, <2>2 DEF ConvInit
  <2> QED
    BY <2>3 DEF AdmissionAgrees, Inside
<1>8. RecordsInv
  <2>1. \A c \in SyncCalls : CallStand(c)
    BY <1>1, Names DEF CallStand
  <2>2. \A id \in Ids : MoneyOk(id)
    BY <1>1 DEF MoneyOk, ConvInit
  <2>3. None # "success"
    BY DEF None
  <2>4. \A j \in JobIds : JobOk(j)
    BY <1>1, <2>3 DEF JobOk
  <2>5. \A b \in AsyncCalls : BatchStand(b)
    <3>1. \A b \in AsyncCalls : \A k \in 1..UrlCount[b] : RowStand(b, k)
      BY <1>1, Addresses, Names DEF RowStand
    <3> QED
      BY <1>1, <3>1 DEF BatchStand
  <2> QED
    BY <2>1, <2>2, <2>4, <2>5 DEF RecordsInv
<1> QED
  BY <1>3, <1>4, <1>5, <1>6, <1>7, <1>8 DEF ConvInv, ConvTyped, ConvInit

LEMMA ConvKept ==
    ASSUME ConvInv, [ConvNext]_convVars
    PROVE  ConvInv'
<1>1. CASE UNCHANGED convVars
  BY <1>1 DEF ConvInv, convVars, recordVars, ConvTyped, CallsTyped, RowsTyped, TasksTyped,
              AdmissionAgrees, HoldsPermit, RecordsInv, CallStand, MoneyOk, JobOk, BatchStand,
              RowStand
<1>2. ASSUME NEW c \in SyncCalls, CallStep(c) PROVE ConvInv'
  <2>1. ConvTyped' /\ RecordsInv'
    BY <1>2, CallTyped, CallRecords DEF ConvInv
  <2>2. AdmissionAgrees'
    <3>1. Enters(c) \/ Leaves(c) \/ Advances(c) \/ Outside(c) \/ Rests
      BY <1>2, GateMoves DEF ConvInv, ConvTyped
    <3> QED
      BY <3>1, AdmissionStep DEF ConvInv, ConvTyped
  <2> QED
    BY <2>1, <2>2 DEF ConvInv
<1>3. ASSUME NEW b \in AsyncCalls, SubmitBatch(b) \/ SubmitWebsite(b) \/ TaskStep(b)
      PROVE  ConvInv'
  <2>1. TaskMoves(b)
    BY <1>3, TaskShape DEF ConvInv, ConvTyped
  <2>2. ConvTyped' /\ RecordsInv'
    BY <2>1, TaskTyped, TaskRecords DEF ConvInv
  <2>3. UNCHANGED <<conv, pendingConversions, pendingBytes>>
    BY <1>3 DEF SubmitBatch, SubmitWebsite, TaskStep, ZipItem, SingleItem, BundleBatch, StampRow,
                AbortRow, NotifyBatch
  <2>4. AdmissionAgrees'
    BY <2>3 DEF ConvInv, AdmissionAgrees, HoldsPermit
  <2> QED
    BY <2>2, <2>4 DEF ConvInv
<1> QED
  BY <1>1, <1>2, <1>3, Names DEF ConvNext, CallStep

\* Whatever the calls, the batches and the limits, the state stays of its type.
THEOREM ConvTypeCorrect == ConvSpec => []ConvTyped
<1>1. ConvInv => ConvTyped
  BY DEF ConvInv
<1> QED
  BY <1>1, ConvStart, ConvKept, PTL DEF ConvSpec

\* handle_file_conversion's gate: its two counters are the requests between the increments
\* and the finally, whichever way each leaves, and both limits and the semaphore hold.
THEOREM AdmissionAlwaysAgrees == ConvSpec => []AdmissionAgrees
<1>1. ConvInv => AdmissionAgrees
  BY DEF ConvInv
<1> QED
  BY <1>1, ConvStart, ConvKept, PTL DEF ConvSpec

-----------------------------------------------------------------------------
(* The invariant says what the records promise *)

LEMMA SettledFollows ==
    ASSUME ConvInv
    PROVE  SettledBatchAgrees
<1>1. SUFFICES ASSUME NEW b \in AsyncCalls, zipJob[b].at = "settled", zipJob[b].zip
               PROVE  LET good == {id \in ItemsOf(b) : activity[id].status = "Success"}
                      IN  /\ told[b] = "success" =>
                                /\ good # {} /\ good = zipJob[b].files /\ b \in objects
                                /\ \A id \in good : activity[id].key = b
                                /\ BatchStatus(b).mode = "zip"
                          /\ convFaults <= 1 /\ good # {} => told[b] = "success"
                          /\ convFaults = 0 => BatchStatus(b).status # "processing"
  BY DEF SettledBatchAgrees
<1> DEFINE good == {id \in ItemsOf(b) : activity[id].status = "Success"}
           files == zipJob[b].files
<1>2. /\ files \subseteq ItemsOf(b)
      /\ told[b] = "success" => b \in objects /\ files # {}
      /\ \A id \in ItemsOf(b) :
            /\ convFaults = 0 => activity[id].status # InProgress
            /\ told[b] = "success" => /\ activity[id].status = "Success" <=> id \in files
                                      /\ id \in files => activity[id].key = b
            /\ told[b] # "success" /\ convFaults <= 1 => activity[id].status # "Success"
  <2>1. BatchStand(b) /\ \A k \in 1..UrlCount[b] : RowStand(b, k)
    BY DEF ConvInv, RecordsInv, BatchStand
  <2>2. \A id \in ItemsOf(b) : \E k \in 1..UrlCount[b] : id = Pages[b][k]
    BY Addresses
  <2> QED
    BY <1>1, <2>1, <2>2 DEF BatchStand, RowStand
<1> HIDE DEF files
<1>3. told[b] = "success" => /\ good # {} /\ good = files /\ b \in objects
                             /\ \A id \in good : activity[id].key = b
  BY <1>2
<1>4. ASSUME told[b] = "success" PROVE BatchStatus(b).mode = "zip"
  <2> DEFINE rows == {id \in ItemsOf(b) : activity[id].status # "absent"}
             With(s) == {id \in rows : activity[id].status = s}
             keys == {activity[id].key : id \in With("Success")} \ {None}
  <2>1. With("Success") = good
    OBVIOUS
  <2>2. {activity[id].key : id \in good} = {b}
    BY <1>3, <1>4
  <2>3. keys = {b}
    BY <2>1, <2>2
  <2> HIDE DEF keys
  <2>4. BatchStatus(b).mode = IF keys = {b} THEN "zip" ELSE "individual"
    BY DEF BatchStatus, keys
  <2> QED
    BY <2>3, <2>4
<1>5. ASSUME convFaults = 0 PROVE BatchStatus(b).status # "processing"
  <2> DEFINE rows == {id \in ItemsOf(b) : activity[id].status # "absent"}
             With(s) == {id \in rows : activity[id].status = s}
  <2>1. With(InProgress) = {}
    BY <1>2, <1>5
  <2>2. BatchStatus(b).status \in {IF With(InProgress) # {} THEN "processing" ELSE "completed",
                                   "completed", "failed", "partial"}
    BY <2>1 DEF BatchStatus
  <2> QED
    BY <2>1, <2>2
<1> QED
  BY <1>2, <1>3, <1>4, <1>5 DEF files

LEMMA ChargesFollow ==
    ASSUME ConvInv
    PROVE  ChargesMatchWork
BY DEF ConvInv, RecordsInv, MoneyOk, ChargesMatchWork, Ids

LEMMA JobsFollow ==
    ASSUME ConvInv
    PROVE  JobRowTruthful
<1>1. SUFFICES ASSUME NEW c \in SyncCalls, JobIdOf[c] # None,
                      JobReply(JobIdOf[c], ProjectOf[c]) = "success"
               PROVE  LET j == JobIdOf[c]
                      IN  /\ jobRow[j].key \in objects /\ JobIdOf[jobRow[j].key] = j
                          /\ ProjectOf[jobRow[j].key] = ProjectOf[c]
  BY DEF JobRowTruthful
<1>2. jobRow[JobIdOf[c]].status = "success" /\ jobRow[JobIdOf[c]].project = ProjectOf[c]
  BY <1>1 DEF JobReply
<1>3. JobOk(JobIdOf[c])
  BY <1>1, Names DEF ConvInv, RecordsInv
<1> QED
  BY <1>2, <1>3 DEF JobOk

\* Batches, money and job rows: what a settled archive's callback says is what its rows
\* and its object say; only work that was done is charged, and a row names an object that
\* exists; a job's success names an upload of its own.
THEOREM ConversionsAlwaysRecorded == ConvSpec => []ConversionRecords
<1>1. ConvInv => ConversionRecords
  BY SettledFollows, ChargesFollow, JobsFollow DEF ConversionRecords
<1> QED
  BY <1>1, ConvStart, ConvKept, PTL DEF ConvSpec

=============================================================================
