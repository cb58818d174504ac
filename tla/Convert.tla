------------------------------ MODULE Convert ------------------------------
(***************************************************************************)
(* The /v1/convert endpoints: uploads converted in the gateway behind the  *)
(* admission gate, addresses rendered while the caller waits, batches of   *)
(* addresses in one background task, the activity rows and job rows they   *)
(* leave, what is charged, and the timeout middleware.                     *)
(*                                                                         *)
(* One event loop, synchronous store calls: a step lasts from one await to *)
(* the next.  The stamping of a batch's rows is split, one transaction a   *)
(* step, and OnLoop keeps everything else out meanwhile.  An object is     *)
(* named by the call, item or batch that uploaded it.                      *)
(***************************************************************************)
EXTENDS UploadGate, FiniteSets, SequencesExt

CONSTANTS
    Uploads, UrlCalls,      \* synchronous requests
    JobIdOf, ProjectOf,     \* client-supplied job_id (or None), caller's project
    SizeOf,                 \* bytes of an upload
    AsyncCalls,             \* asynchronous requests: a list of addresses or a site
    Pages,                  \* the activity row of each address of each, in order
    ZipModes,               \* output_format of each: subset of BOOLEAN
    MaxPendingConversions, MaxPendingBytes, MaxConcurrentConversions,
    OpsGrant,               \* what check_ops_quota still admits
    NoStoragePlan,          \* storage_bytes = 0: outputs expire
    Gray,                   \* pdf_options.grayscale requests
    MaxConvertFaults        \* bound: store or storage calls that raise

SyncCalls == Uploads \cup UrlCalls
UrlCount == [b \in AsyncCalls |-> Len(Pages[b])]
ItemsOf(b) == ToSet(Pages[b])
BatchItems == UNION {ItemsOf(b) : b \in AsyncCalls}
JobIds == {JobIdOf[c] : c \in SyncCalls} \ {None}

\* Calls, rows and batches are named by identifiers of their own.
ASSUME ConvertAssumption ==
    /\ IsFiniteSet(Uploads) /\ Uploads \cap UrlCalls = {} /\ Gray \subseteq Uploads
    /\ SizeOf \in [Uploads -> Nat] /\ ZipModes \subseteq BOOLEAN
    /\ \A b \in AsyncCalls : Pages[b] \in Seq(BatchItems) /\ UrlCount[b] > 0
    /\ \A b, d \in AsyncCalls : \A i \in 1..UrlCount[b], k \in 1..UrlCount[d] :
          Pages[b][i] = Pages[d][k] => b = d /\ i = k
    /\ SyncCalls \cap BatchItems = {} /\ AsyncCalls \cap (SyncCalls \cup BatchItems) = {}
    /\ None \notin SyncCalls \cup BatchItems \cup AsyncCalls
    /\ MaxPendingConversions \in Nat /\ MaxPendingBytes \in Nat
    /\ MaxConcurrentConversions \in Nat \ {0} /\ MaxConvertFaults \in Nat

VARIABLES
    conv,            \* each synchronous request: its await, its answer
    activity,        \* ch_activity rows
    chargedConv,     \* keys v1:conversion:<activity> in the usage ledger
    objects,         \* uploaded outputs
    expiringConv,    \* outputs registered for deletion
    jobRow,          \* conversion jobs
    pendingConversions, pendingBytes,
    detached,        \* threads of cancelled conversions that still run
    zipJob,          \* background task of each batch
    told,            \* verdict sent to the callback and the mail
    convFaults

recordVars == <<activity, chargedConv, expiringConv>>
convVars == <<conv, recordVars, objects, jobRow, pendingConversions, pendingBytes, detached,
              zipJob, told, convFaults>>

InProgress == "In Progress"
Uncalled == [at |-> "idle", reply |-> None]
NoActivity == [status |-> "absent", key |-> None]
NoJobRow == [project |-> None, status |-> None, key |-> None]
NoZipJob == [at |-> "idle", zip |-> FALSE, i |-> 1, files |-> {}]

InSection == {"queued", "converting", "gray"}
HoldsPermit == {c \in SyncCalls : conv[c].at \in {"converting", "gray"}}
OnLoop == /\ \A b \in AsyncCalls : zipJob[b].at \notin {"stamp", "abort"}
          /\ \A c \in SyncCalls : conv[c].at # "admission"
FaultLeft == convFaults < MaxConvertFaults
SpendFault == FaultLeft /\ convFaults' = convFaults + 1

Answer(c, code) == conv' = [conv EXCEPT ![c] = [at |-> "answered", reply |-> code]]
Await(c, step)  == conv' = [conv EXCEPT ![c].at = step]

-----------------------------------------------------------------------------
(* Activity rows and job rows *)

\* update_activity_status: commits the row, then counts the first success in the
\* ledger, then in the storage counter, then registers the output for deletion;
\* it raises where one of the first three does
Updates(id, status, key) ==
    LET row == activity[id]
        written == [activity EXCEPT ![id] = [status |-> status,
                                             key |-> IF key = None THEN row.key ELSE key]]
        first == status = "Success" /\ row.status # "Success"
        charged == chargedConv \cup {id}
        expires == IF first /\ key # None /\ NoStoragePlan THEN expiringConv \cup {key}
                   ELSE expiringConv
        Result(a, ch, e, raised) ==
            [activity |-> a, charged |-> ch, expiring |-> e, raised |-> raised,
             faults |-> convFaults + IF raised THEN 1 ELSE 0]
    IN  {Result(written, IF first THEN charged ELSE chargedConv, expires, FALSE)}
        \cup (IF FaultLeft THEN {Result(activity, chargedConv, expiringConv, TRUE)} ELSE {})
        \cup (IF FaultLeft /\ first
              THEN {Result(written, chargedConv, expiringConv, TRUE),
                    Result(written, charged, expiringConv, TRUE)} ELSE {})

Store(u) ==
    /\ activity' = u.activity /\ chargedConv' = u.charged
    /\ expiringConv' = u.expiring /\ convFaults' = u.faults

\* create_conversion_job: inserts, or takes over a row of the caller's own project
JobConflict(c) ==
    JobIdOf[c] # None /\ jobRow[JobIdOf[c]].project \notin {None, ProjectOf[c]}
ClaimJob(c) ==
    IF JobIdOf[c] = None THEN UNCHANGED <<jobRow, convFaults>>
    ELSE \/ /\ jobRow' = [jobRow EXCEPT ![JobIdOf[c]] =
                              [project |-> ProjectOf[c], status |-> "", key |-> None]]
            /\ UNCHANGED convFaults
         \/ UNCHANGED jobRow /\ SpendFault

\* the outcome is written only to a row of the caller's project
SettledJobs(c, status) ==
    LET j == JobIdOf[c]
    IN  IF j = None THEN jobRow
        ELSE IF jobRow[j].project # ProjectOf[c] THEN jobRow
        ELSE [jobRow EXCEPT ![j].status = status,
                            ![j].key = IF status = "success" THEN c ELSE @]

\* GET /status/{job_id}
JobReply(j, project) ==
    CASE jobRow[j].project = None -> "not found"
      [] jobRow[j].project # project -> "denied"
      [] jobRow[j].status = "" -> "processing"
      [] OTHER -> jobRow[j].status

\* the row, then the job row; a store failure of either is swallowed
Record(c, status, key) ==
    \E u \in Updates(c, status, key), lost \in BOOLEAN :
        /\ lost => JobIdOf[c] # None /\ u.faults < MaxConvertFaults
        /\ Store([u EXCEPT !.faults = @ + IF lost THEN 1 ELSE 0])
        /\ jobRow' = IF lost THEN jobRow
                     ELSE SettledJobs(c, IF status = "Success" THEN "success" ELSE "failed")

\* every handler of an exception
FailCall(c, code) == Record(c, "Failed", None) /\ Answer(c, code) /\ UNCHANGED objects

\* the output is stored, or storing it raises
Deliver(c) ==
    \/ objects' = objects \cup {c} /\ Record(c, "Success", c) /\ Answer(c, 200)
    \/ FailCall(c, 500)

\* check_ops_quota
Affordable(units) == Cardinality(chargedConv) + units <= OpsGrant

-----------------------------------------------------------------------------
(* Uploads: forward_to_backend *)

MutAdmissionOpen(c) == pendingConversions < MaxPendingConversions
AdmissionOpen(c) ==
    /\ pendingConversions < MaxPendingConversions
    /\ pendingBytes + SizeOf[c] <= MaxPendingBytes

\* the route and the gates; nothing is recorded of a request they refuse
RefuseUpload(c) ==
    /\ OnLoop /\ conv[c].at = "idle"
    /\ Answer(c, IF Affordable(1) THEN 400 ELSE 402)
    /\ UNCHANGED <<recordVars, objects, jobRow, pendingConversions, pendingBytes, detached,
                   zipJob, told, convFaults>>

\* the row is logged, then the job id claimed: a conflict ends the request there
StartUpload(c) ==
    /\ OnLoop /\ conv[c].at = "idle" /\ Affordable(1)
    /\ activity' = [activity EXCEPT ![c].status = InProgress]
    /\ IF JobConflict(c)
       THEN Answer(c, 409) /\ UNCHANGED <<jobRow, convFaults>>
       ELSE Await(c, "admission") /\ ClaimJob(c)
    /\ UNCHANGED <<chargedConv, expiringConv, objects, pendingConversions, pendingBytes,
                   detached, zipJob, told>>

\* still in the same stretch of code: the gate is full, or the request enters
Admit(c) ==
    /\ conv[c].at = "admission" /\ AdmissionOpen(c)
    /\ pendingConversions' = pendingConversions + 1
    /\ pendingBytes' = pendingBytes + SizeOf[c]
    /\ Await(c, "queued")
    /\ UNCHANGED <<recordVars, objects, jobRow, detached, zipJob, told, convFaults>>

TurnAway(c) ==
    /\ conv[c].at = "admission" /\ ~AdmissionOpen(c)
    /\ FailCall(c, 503)
    /\ UNCHANGED <<pendingConversions, pendingBytes, detached, zipJob, told>>

\* _CONVERSION_SEMAPHORE
AcquireSlot(c) ==
    /\ OnLoop /\ conv[c].at = "queued"
    /\ Cardinality(HoldsPermit) < MaxConcurrentConversions
    /\ Await(c, "converting")
    /\ UNCHANGED <<recordVars, objects, jobRow, pendingConversions, pendingBytes, detached,
                   zipJob, told, convFaults>>

\* convert_to_grayscale, under the same permit
StartGray(c) ==
    /\ OnLoop /\ conv[c].at = "converting" /\ c \in Gray
    /\ Await(c, "gray")
    /\ UNCHANGED <<recordVars, objects, jobRow, pendingConversions, pendingBytes, detached,
                   zipJob, told, convFaults>>

MutLeaveSection(c) ==       \* a cancelled request skips it
    IF conv'[c].reply = 504 THEN UNCHANGED <<pendingConversions, pendingBytes>>
    ELSE pendingConversions' = pendingConversions - 1 /\ pendingBytes' = pendingBytes - SizeOf[c]
\* the finally around the conversion, whichever way it is left
LeaveSection(c) ==
    /\ pendingConversions' = pendingConversions - 1
    /\ pendingBytes' = pendingBytes - SizeOf[c]

ConvertOk(c) ==
    /\ OnLoop /\ conv[c].at = IF c \in Gray THEN "gray" ELSE "converting"
    /\ c \in Uploads
    /\ Deliver(c) /\ LeaveSection(c)
    /\ UNCHANGED <<detached, zipJob, told>>

\* bad input, an engine's own timeout, anything else
ConvertRaises(c) ==
    /\ OnLoop /\ c \in HoldsPermit
    /\ \E code \in {400, 500, 504} : FailCall(c, code)
    /\ LeaveSection(c)
    /\ UNCHANGED <<detached, zipJob, told>>

\* a thread nobody waits for any more comes to its end
DetachedEnds(c) ==
    /\ c \in detached /\ detached' = detached \ {c}
    /\ UNCHANGED <<conv, recordVars, objects, jobRow, pendingConversions, pendingBytes,
                   zipJob, told, convFaults>>

-----------------------------------------------------------------------------
(* Addresses rendered while the caller waits: handle_url_conversion *)

\* up to the first await, the screening of the address
ReceiveUrl(c) ==
    /\ OnLoop /\ conv[c].at = "idle"
    /\ Await(c, "screening")
    /\ UNCHANGED <<recordVars, objects, jobRow, pendingConversions, pendingBytes, detached,
                   zipJob, told, convFaults>>

\* private address, malformed options, no quota, no feature
RefuseUrl(c) ==
    /\ OnLoop /\ conv[c].at = "screening"
    /\ Answer(c, IF Affordable(1) THEN 400 ELSE 402)
    /\ UNCHANGED <<recordVars, objects, jobRow, pendingConversions, pendingBytes, detached,
                   zipJob, told, convFaults>>

StartUrl(c) ==
    /\ OnLoop /\ conv[c].at = "screening" /\ Affordable(1)
    /\ activity' = [activity EXCEPT ![c].status = InProgress]
    /\ IF JobConflict(c)
       THEN Answer(c, 409) /\ UNCHANGED <<jobRow, convFaults>>
       ELSE Await(c, "rendering") /\ ClaimJob(c)
    /\ UNCHANGED <<chargedConv, expiringConv, objects, pendingConversions, pendingBytes,
                   detached, zipJob, told>>

RenderOk(c) ==
    /\ OnLoop /\ conv[c].at = "rendering" /\ Deliver(c)
    /\ UNCHANGED <<pendingConversions, pendingBytes, detached, zipJob, told>>

RenderRaises(c) ==
    /\ OnLoop /\ conv[c].at = "rendering" /\ FailCall(c, 500)
    /\ UNCHANGED <<pendingConversions, pendingBytes, detached, zipJob, told>>

-----------------------------------------------------------------------------
(* TimeoutMiddleware *)

MutTimeOutCall(c) ==        \* the row's id never reached the middleware
    /\ OnLoop /\ conv[c].at \in {"queued", "converting", "gray", "screening"}
    /\ Answer(c, 504)
    /\ IF conv[c].at \in InSection THEN LeaveSection(c)
       ELSE UNCHANGED <<pendingConversions, pendingBytes>>
    /\ detached' = IF c \in HoldsPermit THEN detached \cup {c} ELSE detached
    /\ UNCHANGED <<recordVars, objects, jobRow, zipJob, told, convFaults>>
\* the request is cancelled at its await.  A cancellation is no Exception: the
\* handlers above do not run, only the finally; a conversion's thread runs on.
\* Then the row that was logged, if any, is failed, and 504 answered
TimeOutCall(c) ==
    /\ OnLoop /\ conv[c].at \in {"queued", "converting", "gray", "screening"}
    /\ Answer(c, 504)
    /\ IF activity[c].status = "absent" THEN UNCHANGED <<recordVars, convFaults>>
       ELSE \E u \in Updates(c, "Failed", None) : Store(u)
    /\ IF conv[c].at \in InSection THEN LeaveSection(c)
       ELSE UNCHANGED <<pendingConversions, pendingBytes>>
    /\ detached' = IF c \in HoldsPermit THEN detached \cup {c} ELSE detached
    /\ UNCHANGED <<objects, jobRow, zipJob, told>>

\* a render is cancelled too, but the finally of get_context then awaits the close of its
\* page, and the middleware awaits the request: no answer before the browser has closed
CancelRender(c) ==
    /\ OnLoop /\ conv[c].at = "rendering"
    /\ Await(c, "closing")
    /\ UNCHANGED <<recordVars, objects, jobRow, pendingConversions, pendingBytes, detached,
                   zipJob, told, convFaults>>

CloseRender(c) ==
    /\ OnLoop /\ conv[c].at = "closing"
    /\ Answer(c, 504)
    /\ \E u \in Updates(c, "Failed", None) : Store(u)
    /\ UNCHANGED <<objects, jobRow, pendingConversions, pendingBytes, detached, zipJob, told>>

-----------------------------------------------------------------------------
(* Batches of addresses *)

\* log_batch_activity_start: a transaction for each row
LogBatch(b, zip) ==
    \/ /\ activity' = [id \in DOMAIN activity |-> IF id \in ItemsOf(b)
                          THEN [NoActivity EXCEPT !.status = InProgress] ELSE activity[id]]
       /\ zipJob' = [zipJob EXCEPT ![b] = [NoZipJob EXCEPT !.at = "render", !.zip = zip]]
       /\ UNCHANGED convFaults
    \/ \E k \in 0..UrlCount[b] - 1 :
          /\ activity' = [id \in DOMAIN activity |->
                             IF id \in {Pages[b][i] : i \in 1..k}
                             THEN [NoActivity EXCEPT !.status = InProgress] ELSE activity[id]]
          /\ zipJob' = [zipJob EXCEPT ![b].at = "broken"]
          /\ SpendFault

\* async_mode: one task for the archive, or a task for each address
SubmitBatch(b) ==
    /\ OnLoop /\ zipJob[b].at = "idle" /\ Affordable(UrlCount[b])
    /\ \E zip \in ZipModes : (zip => UrlCount[b] > 1) /\ LogBatch(b, zip)
    /\ UNCHANGED <<conv, chargedConv, expiringConv, objects, jobRow, pendingConversions,
                   pendingBytes, detached, told>>

\* discover_website_urls: the plan's mode, the requested one if the plan has it
CrawlModes == {"none", "sitemap", "full"}
CrawlAccess(plan, wanted) == plan = "full" \/ (plan = "sitemap" /\ wanted = "sitemap")
CrawlMode(requested, plan) ==
    LET wanted == IF requested = "full" THEN "full" ELSE "sitemap"
    IN  IF ~CrawlAccess(plan, wanted) THEN "denied"
        ELSE IF requested = "auto" THEN plan ELSE requested

\* website-to-pdf, website-to-screenshot: always an archive
SubmitWebsite(b) ==
    /\ OnLoop /\ zipJob[b].at = "idle" /\ Affordable(UrlCount[b])
    /\ \E requested \in {"auto", "sitemap", "full"}, plan \in CrawlModes :
          CrawlMode(requested, plan) # "denied"
    /\ LogBatch(b, TRUE)
    /\ UNCHANGED <<conv, chargedConv, expiringConv, objects, jobRow, pendingConversions,
                   pendingBytes, detached, told>>

Item(b) == Pages[b][zipJob[b].i]
NextItem(b) == [zipJob[b] EXCEPT !.i = @ + 1,
                   !.at = IF zipJob[b].i = UrlCount[b]
                          THEN (IF zipJob[b].zip THEN "bundle" ELSE "settled") ELSE @]

\* what the handler of an exception leaves of a row that could not be told of its
\* success: failed, unless the store fails again
AfterRaise(b, u) ==
    IF ~u.raised THEN {u}
    ELSE {[u EXCEPT !.activity[Item(b)].status = "Failed"]}
         \cup (IF u.faults < MaxConvertFaults THEN {[u EXCEPT !.faults = @ + 1]} ELSE {})
TellItem(b, key) == \E u \in Updates(Item(b), "Success", key) :
                       \E v \in AfterRaise(b, u) : Store(v)

\* an exception on one address: its row is failed, and the batch goes on
FailItem(b) == (\E u \in Updates(Item(b), "Failed", None) : Store(u)) /\ UNCHANGED objects

\* process_batch_async, one address: the file goes into the archive before the row is
\* told.  Where telling it raises, the handler fails the row of a file already kept
ZipItem(b) ==
    /\ OnLoop /\ zipJob[b].at = "render" /\ zipJob[b].zip
    /\ \/ FailItem(b) /\ zipJob' = [zipJob EXCEPT ![b] = NextItem(b)]
       \/ /\ TellItem(b, None)
          /\ zipJob' = [zipJob EXCEPT ![b] = [NextItem(b) EXCEPT !.files = @ \cup {Item(b)}]]
          /\ UNCHANGED objects
    /\ UNCHANGED <<conv, jobRow, pendingConversions, pendingBytes, detached, told>>

\* process_single_async: the verdict is settled by the upload, the row after it
SingleItem(b) ==
    /\ OnLoop /\ zipJob[b].at = "render" /\ ~zipJob[b].zip
    /\ \/ FailItem(b) /\ told' = [told EXCEPT ![Item(b)] = "failed"]
       \/ /\ objects' = objects \cup {Item(b)}
          /\ TellItem(b, Item(b))
          /\ told' = [told EXCEPT ![Item(b)] = "success"]
    /\ zipJob' = [zipJob EXCEPT ![b] = NextItem(b)]
    /\ UNCHANGED <<conv, jobRow, pendingConversions, pendingBytes, detached>>

\* the archive is uploaded if it holds anything
BundleBatch(b) ==
    /\ OnLoop /\ zipJob[b].at = "bundle"
    /\ \/ /\ zipJob[b].files = {}
          /\ zipJob' = [zipJob EXCEPT ![b].at = "settled"]
          /\ told' = [told EXCEPT ![b] = "failed"]
          /\ UNCHANGED <<objects, convFaults>>
       \/ /\ zipJob[b].files # {}
          /\ objects' = objects \cup {b}
          /\ zipJob' = [zipJob EXCEPT ![b].at = "stamp", ![b].i = 1]
          /\ UNCHANGED <<told, convFaults>>
       \/ /\ zipJob[b].files # {} /\ SpendFault
          /\ zipJob' = [zipJob EXCEPT ![b].at = "abort", ![b].i = 1]
          /\ UNCHANGED <<told, objects>>
    /\ UNCHANGED <<conv, recordVars, jobRow, pendingConversions, pendingBytes, detached>>

\* the archive's key on each of its rows
StampRow(b) ==
    /\ zipJob[b].at = "stamp" /\ zipJob[b].i <= UrlCount[b]
    /\ IF Item(b) \notin zipJob[b].files
       THEN /\ zipJob' = [zipJob EXCEPT ![b].i = @ + 1]
            /\ UNCHANGED <<recordVars, convFaults>>
       ELSE \E u \in Updates(Item(b), "Success", b) :
               /\ Store(u)
               /\ zipJob' = IF u.raised THEN [zipJob EXCEPT ![b].at = "abort", ![b].i = 1]
                            ELSE [zipJob EXCEPT ![b].i = @ + 1]
    /\ UNCHANGED <<conv, objects, jobRow, pendingConversions, pendingBytes, detached, told>>

MutAbortRow(b) ==       \* only the rows still in progress
    /\ zipJob[b].at = "abort" /\ zipJob[b].i <= UrlCount[b]
    /\ IF activity[Item(b)].status = InProgress
       THEN \E u \in Updates(Item(b), "Failed", None) : Store(u)
       ELSE UNCHANGED <<recordVars, convFaults>>
    /\ zipJob' = [zipJob EXCEPT ![b].i = @ + 1]
    /\ UNCHANGED <<conv, objects, jobRow, pendingConversions, pendingBytes, detached, told>>
\* the whole batch aborted: every row is failed, the successful ones too
AbortRow(b) ==
    /\ zipJob[b].at = "abort" /\ zipJob[b].i <= UrlCount[b]
    /\ \E u \in Updates(Item(b), "Failed", None) : Store(u)
    /\ zipJob' = [zipJob EXCEPT ![b].i = @ + 1]
    /\ UNCHANGED <<conv, objects, jobRow, pendingConversions, pendingBytes, detached, told>>

\* mail and callback
NotifyBatch(b) ==
    /\ zipJob[b].at \in {"stamp", "abort"} /\ zipJob[b].i > UrlCount[b]
    /\ told' = [told EXCEPT ![b] = IF zipJob[b].at = "stamp" THEN "success" ELSE "failed"]
    /\ zipJob' = [zipJob EXCEPT ![b].at = "settled"]
    /\ UNCHANGED <<conv, recordVars, objects, jobRow, pendingConversions, pendingBytes,
                   detached, convFaults>>

\* GET /batch/{id}
BatchStatus(b) ==
    LET rows == {id \in ItemsOf(b) : activity[id].status # "absent"}
        With(s) == {id \in rows : activity[id].status = s}
        keys == {activity[id].key : id \in With("Success")} \ {None}
    IN  [status |-> IF With(InProgress) # {} THEN "processing"
                    ELSE IF With("Success") = rows THEN "completed"
                    ELSE IF With("Failed") = rows THEN "failed" ELSE "partial",
         mode   |-> IF keys = {b} THEN "zip" ELSE "individual"]

-----------------------------------------------------------------------------
ConvInit ==
    /\ conv = [c \in SyncCalls |-> Uncalled]
    /\ activity = [id \in SyncCalls \cup BatchItems |-> NoActivity]
    /\ chargedConv = {} /\ objects = {} /\ expiringConv = {} /\ detached = {}
    /\ jobRow = [j \in JobIds |-> NoJobRow]
    /\ pendingConversions = 0 /\ pendingBytes = 0
    /\ zipJob = [b \in AsyncCalls |-> NoZipJob]
    /\ told = [id \in BatchItems \cup AsyncCalls |-> None]
    /\ convFaults = 0

UploadStep(c) ==
    \/ RefuseUpload(c) \/ StartUpload(c) \/ Admit(c) \/ TurnAway(c) \/ AcquireSlot(c)
    \/ StartGray(c) \/ ConvertOk(c) \/ ConvertRaises(c) \/ DetachedEnds(c)
UrlStep(c) ==
    \/ ReceiveUrl(c) \/ RefuseUrl(c) \/ StartUrl(c) \/ RenderOk(c) \/ RenderRaises(c)
    \/ CancelRender(c) \/ CloseRender(c)
TaskStep(b) ==
    ZipItem(b) \/ SingleItem(b) \/ BundleBatch(b) \/ StampRow(b) \/ AbortRow(b) \/ NotifyBatch(b)

ConvNext ==
    \/ \E c \in Uploads : UploadStep(c)
    \/ \E c \in UrlCalls : UrlStep(c)
    \/ \E c \in SyncCalls : TimeOutCall(c)
    \/ \E b \in AsyncCalls : SubmitBatch(b) \/ SubmitWebsite(b) \/ TaskStep(b)

\* the loop runs what is ready, store calls return and the timer fires; what awaits the
\* browser or an engine (a render, its close, a conversion) may hang
ConvFairness ==
    /\ \A c \in Uploads : WF_convVars(Admit(c) \/ TurnAway(c))
    /\ \A c \in Uploads : WF_convVars(TimeOutCall(c))
    /\ \A c \in UrlCalls : WF_convVars(TimeOutCall(c) \/ CancelRender(c))
    /\ \A b \in AsyncCalls : WF_convVars(zipJob[b].at # "render" /\ TaskStep(b))

ConvSpec == ConvInit /\ [][ConvNext]_convVars /\ ConvFairness

-----------------------------------------------------------------------------
(* Properties *)

\* The admission gate: its two counters are exactly the requests inside the section
\* and their bytes, whatever way each of those leaves it (success, error, timeout),
\* and stay within their limits; the semaphore is never oversubscribed.
AdmissionAgrees ==
    LET inside == {c \in Uploads : conv[c].at \in InSection}
    IN  /\ pendingConversions = Cardinality(inside)
        /\ pendingBytes = SumOf(SizeOf, inside)
        /\ pendingConversions <= MaxPendingConversions /\ pendingBytes <= MaxPendingBytes
        /\ Cardinality(HoldsPermit) <= MaxConcurrentConversions

\* A settled archive job whose callback says success leaves rows that are all in the archive
\* it uploaded, stamped with its key; one that says failure leaves no successful row, unless
\* a second store call failed while the rows were being failed; the batch never reports
\* processing again.
SettledBatchAgrees ==
    \A b \in AsyncCalls : zipJob[b].at = "settled" /\ zipJob[b].zip =>
        LET good == {id \in ItemsOf(b) : activity[id].status = "Success"}
        IN  /\ told[b] = "success" => /\ good # {} /\ good = zipJob[b].files /\ b \in objects
                                      /\ \A id \in good : activity[id].key = b
                                      /\ BatchStatus(b).mode = "zip"
            /\ convFaults <= 1 /\ good # {} => told[b] = "success"
            /\ convFaults = 0 => BatchStatus(b).status # "processing"

\* Money and files: only work that was done is charged; a row left successful without
\* a store failure is charged and names an object that exists and, with no storage
\* plan, expires (a batch's archive does not: nothing registers it); nothing an aborted
\* batch or a failed request leaves behind can be charged twice (one ledger key).
ChargesMatchWork ==
    \A id \in SyncCalls \cup BatchItems :
        /\ id \in chargedConv /\ convFaults = 0 => activity[id].status = "Success"
        /\ activity[id].status = "Success" =>
              /\ convFaults = 0 => id \in chargedConv
              /\ activity[id].key # None => activity[id].key \in objects
              /\ NoStoragePlan /\ convFaults = 0 /\ id \in SyncCalls =>
                    activity[id].key \in expiringConv \cup {None}

\* A project that polls a job is told success only of an object of its own that was
\* uploaded under this id, and a foreign id tells nothing.
JobRowTruthful ==
    \A c \in SyncCalls : JobIdOf[c] # None =>
        LET j == JobIdOf[c]
        IN  JobReply(j, ProjectOf[c]) = "success" =>
                /\ jobRow[j].key \in objects
                /\ JobIdOf[jobRow[j].key] = j /\ ProjectOf[jobRow[j].key] = ProjectOf[c]

ConversionRecords == SettledBatchAgrees /\ ChargesMatchWork /\ JobRowTruthful

\* Every request the gateway took is answered whatever engine or render hangs, provided the
\* browser closes the page of a render that is cancelled, and every row it logged leaves
\* "In Progress", unless the store failed or the job id was another's.
RequestsEnd ==
    \A c \in SyncCalls :
        []<>(conv[c].at # "closing") =>
            (conv[c].at \notin {"idle", "answered"}
             ~> /\ conv[c].at = "answered"
                /\ convFaults = 0 /\ conv[c].reply # 409 => activity[c].status # InProgress)
=============================================================================
