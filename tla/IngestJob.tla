----------------------------- MODULE IngestJob -----------------------------
(***************************************************************************)
(* The durable /v2/ingest job: submit handlers, the single in-process      *)
(* worker, cancellation, webhook redelivery, crashes and restarts.         *)
(*                                                                         *)
(* Three kinds of state meet here.  The database rows (`job', `page',      *)
(* `billed') and the object store (`staged', `final', `sources') survive a *)
(* crash; the asyncio queue and the worker's local variables do not.       *)
(* Every await that reads or writes one of the durable stores is a step of *)
(* its own, because the HTTP handlers (cancel, retry-webhook, submit) run  *)
(* on the same event loop between any two of them.  The page rows of a job *)
(* are written by its worker only, so what list_pages returned is still    *)
(* what the rows say and no snapshot of them is kept.                      *)
(***************************************************************************)
EXTENDS Naturals, FiniteSets, Sequences

CONSTANTS
    Jobs,        \* job ids
    FileJobs,    \* the jobs submitted through POST /v2/ingest/files
    HookJobs,    \* the jobs submitted with a webhook_url
    MaxPages,    \* bound: most pages (or files) of one job
    Hashes,      \* content fingerprints
    Urls,        \* post-redirect addresses
    PageFields,  \* what a rendered page carries, see RenderUrl
    ChunksOf,    \* chunks that chunk_markdown yields for a content
    OpsQuota,    \* ops the project's period grants
    MaxCrashes,  \* bound: process deaths
    MaxFaults,   \* bound: failed database or object-store calls
    NoJob, NoUrl, NoHash

Pages == 1..MaxPages
Blobs == Hashes \cup {"blank", "absent"}   \* what an object key holds

ASSUME IngestAssumption ==
    /\ IsFiniteSet(Jobs) /\ FileJobs \subseteq Jobs /\ HookJobs \subseteq Jobs
    /\ NoJob \notin Jobs /\ NoUrl \notin Urls /\ NoHash \notin Hashes
    /\ Hashes \cap {"blank", "absent"} = {}
    /\ NoHash \notin {"blank", "absent"}
    /\ MaxPages \in Nat \ {0} /\ OpsQuota \in Nat
    /\ MaxCrashes \in Nat /\ MaxFaults \in Nat
    /\ ChunksOf \in [Hashes -> Nat \ {0}]

VARIABLES
    job,       \* ch_ingest_jobs: one row per job
    page,      \* ch_ingest_pages: page[j][p], p in insertion order
    billed,    \* usage ledger rows, keyed by job and page
    staged,    \* per-page staging objects
    final,     \* the assembled JSONL object of each job
    sources,   \* uploaded source objects of file jobs
    backstop,  \* sources registered in ch_scheduled_deletions
    queue,     \* the asyncio queue of job ids
    pc, cur, idx,    \* where the worker is: step, job, page
    tally,     \* processed / failed / chunks_total of this attempt
    denied,    \* quota_denied
    seen,      \* PageIdentitySet: urls and hashes
    rendered,  \* what the current page rendered to
    spool,     \* the on-disk spool of _assemble
    submit,    \* where each submit handler is
    retry,     \* a retry-webhook request between its POST and its row write
    received,  \* jobs whose completion webhook reached the endpoint
    up, crashes, faults

rowVars    == <<job, page, billed>>
objVars    == <<staged, final, sources, backstop>>
localVars  == <<tally, denied, seen, rendered, spool>>
clientVars == <<submit, retry, received>>
envVars    == <<up, crashes, faults>>
vars == <<rowVars, objVars, queue, pc, cur, idx, localVars, clientVars, envVars>>

-----------------------------------------------------------------------------
(* Rows and store calls *)

Active   == {"queued", "discovering", "processing"}
Terminal == {"completed", "failed", "canceled"}
Resumable == {"pending", "processing"}

NoRow  == [status |-> "none", discovered |-> 0, processed |-> 0, failed |-> 0,
           chunks |-> 0, output |-> FALSE, hook |-> "unset"]
NoPage == [status |-> "absent", chunks |-> 0, hash |-> NoHash, dup |-> FALSE]
NoFinal == [there |-> FALSE, parts |-> [p \in Pages |-> "absent"]]
NoRender == [url |-> NoUrl, hash |-> NoHash]
ZeroTally == [processed |-> 0, failed |-> 0, chunks |-> 0]
NothingSeen == [urls |-> {}, hashes |-> {}]

PagesIn(j, S) == {p \in Pages : page[j][p].status \in S}
HasPages(j)   == \E p \in Pages : page[j][p].status # "absent"
MutSourcesOf(j) == sources
SourcesOf(j)  == sources \cap ({j} \X Pages)
\* a sum over pages, counted as the disjoint union of each page's chunks
ChunksDone(j) == Cardinality(UNION {{p} \X (1..page[j][p].chunks) :
                                    p \in PagesIn(j, {"completed"})})

\* transition_status: one conditional UPDATE
MutTransitionStatus(j, new, from) == job' = [job EXCEPT ![j].status = new]
TransitionStatus(j, new, from) ==
    job' = IF job[j].status \in from THEN [job EXCEPT ![j].status = new] ELSE job
MutFailJob(j) == TransitionStatus(j, "error", Active)
FailJob(j) == TransitionStatus(j, "failed", Active)

\* set_pages_discovered and update_job_progress: guarded to active jobs
SetPagesDiscovered(j, n) ==
    job' = IF job[j].status \in Active THEN [job EXCEPT ![j].discovered = n] ELSE job
MutUpdateJobProgress(j, t) ==
    job' = [job EXCEPT ![j].processed = t.processed, ![j].failed = t.failed,
                       ![j].chunks = t.chunks]
UpdateJobProgress(j, t) ==
    job' = IF job[j].status \in Active
           THEN [job EXCEPT ![j].processed = t.processed, ![j].failed = t.failed,
                            ![j].chunks = t.chunks]
           ELSE job

\* complete_job: conditional on the job being active
MutCompleteJob(j, t) ==    \* keeps the running counters
    job' = IF job[j].status \in Active
           THEN [job EXCEPT ![j].status = "completed", ![j].output = TRUE]
           ELSE job
CompleteJob(j, t) ==
    job' = IF job[j].status \in Active
           THEN [job EXCEPT ![j].status = "completed", ![j].output = TRUE,
                            ![j].processed = t.processed, ![j].failed = t.failed,
                            ![j].chunks = t.chunks]
           ELSE job

\* fail_page and skip_page keep the row's chunk count and content hash
SetPageStatus(j, p, s) == page' = [page EXCEPT ![j][p].status = s]

\* check_ops_quota(user, 1) for a plan without overage
MutQuotaLeft == Cardinality(billed) <= OpsQuota
QuotaLeft == Cardinality(billed) < OpsQuota

\* PageIdentitySet: __init__, contains, and add for a page that contributed
MutReseed(j) == NothingSeen
Reseed(j) == [urls |-> {},
              hashes |-> {page[j][p].hash : p \in PagesIn(j, {"completed"})}]
IsDuplicate(r) == r.url \in seen.urls \/ r.hash \in seen.hashes
SeenWith(r, dup) == IF dup THEN seen
                    ELSE [urls |-> seen.urls \cup ({r.url} \ {NoUrl}),
                          hashes |-> seen.hashes \cup {r.hash}]

\* the counters process_job starts from
MutSeedTally(j) == ZeroTally
SeedTally(j) == [processed |-> Cardinality(PagesIn(j, {"completed"})),
                 failed |-> Cardinality(PagesIn(j, {"failed", "skipped"})),
                 chunks |-> ChunksDone(j)]

\* list_active_job_ids
MutActiveJobs == {j \in Jobs : job[j].status \in {"queued", "processing"}}
MutActiveJobs2 == {j \in Jobs : job[j].status \in {"discovering", "processing"}}
ActiveJobs == {j \in Jobs : job[j].status \in Active}

Fault == faults < MaxFaults /\ faults' = faults + 1
NoFault == UNCHANGED faults

-----------------------------------------------------------------------------
(* Submit handlers: POST /v2/ingest and POST /v2/ingest/files *)

InSubmit == {"accepted", "staging", "staged", "created", "paged"}

\* check_v2_feature and check_ops_quota: a refusal leaves nothing behind
AcceptSubmit(j) ==
    /\ up /\ submit[j] = "idle" /\ QuotaLeft
    /\ submit' = [submit EXCEPT ![j] = "accepted"]
    /\ UNCHANGED <<rowVars, objVars, queue, pc, cur, idx, localVars, retry, received,
                   envVars>>

CreateJob(j) ==
    /\ up
    /\ submit[j] = (IF j \in FileJobs THEN "staged" ELSE "accepted")
    /\ job' = [job EXCEPT ![j].status = "queued"]
    /\ submit' = [submit EXCEPT ![j] = "created"]
    /\ UNCHANGED <<page, billed, objVars, queue, pc, cur, idx, localVars, retry,
                   received, envVars>>

\* _stage_uploaded_files: upload one file, then register its backstop
StageUpload(j, p) ==
    /\ up /\ j \in FileJobs
    /\ submit[j] \in {"accepted", "staged"}
    /\ SourcesOf(j) = {j} \X (1..(p - 1))
    /\ sources' = sources \cup {<<j, p>>}
    /\ submit' = [submit EXCEPT ![j] = "staging"]
    /\ UNCHANGED <<rowVars, staged, final, backstop, queue, pc, cur, idx, localVars,
                   retry, received, envVars>>

\* schedule_file_cleanup swallows its errors
ScheduleFileCleanup(j, p) ==
    /\ up /\ submit[j] = "staging" /\ SourcesOf(j) = {j} \X (1..p)
    /\ \/ backstop' = backstop \cup {<<j, p>>} /\ NoFault
       \/ UNCHANGED backstop /\ Fault
    /\ submit' = [submit EXCEPT ![j] = "staged"]
    /\ UNCHANGED <<rowVars, staged, final, sources, queue, pc, cur, idx, localVars,
                   retry, received, up, crashes>>

CreateFilePages(j) ==
    /\ up /\ j \in FileJobs /\ submit[j] = "created"
    /\ page' = [page EXCEPT ![j] = [p \in Pages |->
                    IF <<j, p>> \in sources THEN [NoPage EXCEPT !.status = "pending"]
                    ELSE NoPage]]
    /\ submit' = [submit EXCEPT ![j] = "paged"]
    /\ UNCHANGED <<job, billed, objVars, queue, pc, cur, idx, localVars, retry,
                   received, envVars>>

Submit(j) ==
    /\ up /\ submit[j] = (IF j \in FileJobs THEN "paged" ELSE "created")
    /\ queue' = Append(queue, j)
    /\ submit' = [submit EXCEPT ![j] = "done"]
    /\ UNCHANGED <<rowVars, objVars, pc, cur, idx, localVars, retry, received, envVars>>

\* a store call of the submit handler raises: the uploads are discarded, best
\* effort, and the row (if create_job already committed) stays
SubmitFault(j) ==
    /\ up /\ Fault
    /\ submit[j] \in {"accepted", "staged"} \/ (j \in FileJobs /\ submit[j] = "created")
    /\ sources' \in {sources, sources \ SourcesOf(j)}
    /\ submit' = [submit EXCEPT ![j] = "failed"]
    /\ UNCHANGED <<rowVars, staged, final, backstop, queue, pc, cur, idx, localVars,
                   retry, received, up, crashes>>

\* TimeoutMiddleware cancels a submit handler that has not answered in time.  No
\* except clause of the handler catches the cancellation: uploads and row stay.  A
\* store call already in its thread still ends, which is the call ending just before.
TimeOutSubmit(j) ==
    /\ up /\ submit[j] \in InSubmit
    /\ submit' = [submit EXCEPT ![j] = "cut"]
    /\ UNCHANGED <<rowVars, objVars, queue, pc, cur, idx, localVars, retry, received,
                   envVars>>

\* DELETE /v2/ingest/{job_id}: cancel_job's conditional UPDATE
CancelJob(j) ==
    /\ up /\ job[j].status # "none"
    /\ TransitionStatus(j, "canceled", Active)
    /\ UNCHANGED <<page, billed, objVars, queue, pc, cur, idx, localVars, clientVars,
                   envVars>>

MutHookReady(j) == j \in HookJobs
HookReady(j) == j \in HookJobs /\ job[j].status = "completed"

\* POST /v2/ingest/{job_id}/retry-webhook; the endpoint may have received a
\* POST whose answer was lost
RetryWebhook(j) ==
    /\ up /\ HookReady(j) /\ retry[j] = "idle"
    /\ \E got, ok \in BOOLEAN :
          /\ ok => got
          /\ received' = IF got THEN received \cup {j} ELSE received
          /\ retry' = [retry EXCEPT ![j] = IF ok THEN "ok" ELSE "failed"]
    /\ UNCHANGED <<rowVars, objVars, queue, pc, cur, idx, localVars, submit, envVars>>

SetRetryDelivered(j) ==
    /\ up /\ retry[j] # "idle"
    /\ \/ job' = [job EXCEPT ![j].hook = retry[j]] /\ NoFault
       \/ UNCHANGED job /\ Fault
    /\ retry' = [retry EXCEPT ![j] = "idle"]
    /\ UNCHANGED <<page, billed, objVars, queue, pc, cur, idx, localVars, submit,
                   received, up, crashes>>

-----------------------------------------------------------------------------
(* The worker: process_job up to the page loop *)

\* _worker_loop takes the next id; process_job re-reads its row
StartJob ==
    /\ up /\ pc = "idle" /\ queue # <<>>
    /\ queue' = Tail(queue)
    /\ IF job[Head(queue)].status \in Terminal
       THEN UNCHANGED <<pc, cur>>
       ELSE pc' = "subscription" /\ cur' = Head(queue)
    /\ UNCHANGED <<rowVars, objVars, idx, localVars, clientVars, envVars>>

\* the effective subscription, then list_pages
LoadPages ==
    /\ pc = "subscription"
    /\ pc' = IF HasPages(cur) THEN "discovered" ELSE "discover"
    /\ UNCHANGED <<rowVars, objVars, queue, cur, idx, localVars, clientVars, envVars>>

SubscriptionUnavailable ==
    /\ pc = "subscription"
    /\ FailJob(cur)
    /\ pc' = "idle" /\ cur' = NoJob
    /\ UNCHANGED <<page, billed, objVars, queue, idx, localVars, clientVars, envVars>>

BeginDiscovery ==
    /\ pc = "discover"
    /\ TransitionStatus(cur, "discovering", {"queued", "discovering"})
    /\ IF job[cur].status \in {"queued", "discovering"}
       THEN pc' = "discovering" /\ UNCHANGED cur
       ELSE pc' = "idle" /\ cur' = NoJob
    /\ UNCHANGED <<page, billed, objVars, queue, idx, localVars, clientVars, envVars>>

\* _discover_urls followed by create_pages.  A file job has no discovery mode:
\* the request it would build is invalid, so its discovery always raises.
DiscoverPages(n) ==
    /\ pc = "discovering" /\ cur \notin FileJobs
    /\ page' = [page EXCEPT ![cur] = [p \in Pages |->
                   IF p <= n THEN [NoPage EXCEPT !.status = "pending"] ELSE NoPage]]
    /\ pc' = "discovered"
    /\ UNCHANGED <<job, billed, objVars, queue, cur, idx, localVars, clientVars, envVars>>

\* discovery rejected or crashed, or it found no URL
DiscoveryFails ==
    /\ pc = "discovering"
    /\ FailJob(cur)
    /\ pc' = "idle" /\ cur' = NoJob
    /\ UNCHANGED <<page, billed, objVars, queue, idx, localVars, clientVars, envVars>>

RecordDiscovered ==
    /\ pc = "discovered"
    /\ SetPagesDiscovered(cur, Cardinality(Pages \ PagesIn(cur, {"absent"})))
    /\ pc' = "begin"
    /\ UNCHANGED <<page, billed, objVars, queue, cur, idx, localVars, clientVars, envVars>>

\* transition to processing; counters and identities re-seeded from the rows
BeginProcessing ==
    /\ pc = "begin"
    /\ TransitionStatus(cur, "processing", Active)
    /\ IF job[cur].status \in Active
       THEN /\ pc' = "next" /\ idx' = 1 /\ denied' = FALSE
            /\ tally' = SeedTally(cur)
            /\ seen' = Reseed(cur)
            /\ UNCHANGED cur
       ELSE pc' = "idle" /\ cur' = NoJob /\ UNCHANGED <<idx, denied, tally, seen>>
    /\ UNCHANGED <<page, billed, objVars, queue, rendered, spool, clientVars, envVars>>

-----------------------------------------------------------------------------
(* The worker: the page loop *)

\* the next page this job still owes; the row is re-read for a cancel first
NextPage ==
    /\ pc = "next" /\ idx <= MaxPages
    /\ IF page[cur][idx].status \notin Resumable
       THEN idx' = idx + 1 /\ UNCHANGED pc
       ELSE /\ pc' = IF job[cur].status = "canceled" THEN "cleanup"
                     ELSE IF denied THEN "skip" ELSE "quota"
            /\ UNCHANGED idx
    /\ UNCHANGED <<rowVars, objVars, queue, cur, localVars, clientVars, envVars>>

PagesDone ==
    /\ pc = "next" /\ idx > MaxPages
    /\ pc' = "assemble"
    /\ UNCHANGED <<rowVars, objVars, queue, cur, idx, localVars, clientVars, envVars>>

CheckOpsQuota ==
    /\ pc = "quota"
    /\ pc' = IF QuotaLeft THEN "mark" ELSE "skip"
    /\ denied' = ~QuotaLeft
    /\ UNCHANGED <<rowVars, objVars, queue, cur, idx, tally, seen, rendered, spool,
                   clientVars, envVars>>

\* skip_page: quota denial, or an empty or blocked render
SkipPage ==
    /\ pc = "skip"
    /\ SetPageStatus(cur, idx, "skipped")
    /\ tally' = [tally EXCEPT !.failed = @ + 1]
    /\ pc' = "sync"
    /\ UNCHANGED <<job, billed, objVars, queue, cur, idx, denied, seen, rendered, spool,
                   clientVars, envVars>>

MarkPageProcessing ==
    /\ pc = "mark"
    /\ SetPageStatus(cur, idx, "processing")
    /\ pc' = "render"
    /\ UNCHANGED <<job, billed, objVars, queue, cur, idx, localVars, clientVars, envVars>>

\* _url_to_markdown: content, an address and a fingerprint.  It reads two fields of
\* the rendered page that the perceive_flow of this repository, the fallback of the
\* public mirror, does not define: there every such page raises, and RenderFails.
ReadFields == {"content_category", "content_type"}
RenderUrl(u, h) ==
    /\ pc = "render" /\ cur \notin FileJobs
    /\ ReadFields \subseteq PageFields
    /\ rendered' = [url |-> u, hash |-> h]
    /\ pc' = "stage"
    /\ UNCHANGED <<rowVars, objVars, queue, cur, idx, tally, denied, seen, spool,
                   clientVars, envVars>>

\* _file_to_markdown: needs the uploaded source
ConvertFile(h) ==
    /\ pc = "render" /\ cur \in FileJobs /\ <<cur, idx>> \in sources
    /\ rendered' = [url |-> NoUrl, hash |-> h]
    /\ pc' = "stage"
    /\ UNCHANGED <<rowVars, objVars, queue, cur, idx, tally, denied, seen, spool,
                   clientVars, envVars>>

\* EmptyPageError / BlockedPageError take the skip path, any other failure
\* (fetch, conversion, a source object that is gone) the fail path
RenderFails ==
    /\ pc = "render"
    /\ pc' \in {"skip", "fail"}
    /\ UNCHANGED <<rowVars, objVars, queue, cur, idx, localVars, clientVars, envVars>>

\* the upload of the page's JSONL: no record at all for a duplicate
StagePage ==
    /\ pc = "stage"
    /\ staged' = [staged EXCEPT ![cur][idx] =
                     IF IsDuplicate(rendered) THEN "blank" ELSE rendered.hash]
    /\ pc' = "complete"
    /\ UNCHANGED <<rowVars, final, sources, backstop, queue, cur, idx, localVars,
                   clientVars, envVars>>

\* a duplicate contributed nothing, so it is not billed
MutAfterComplete2(dup) == "sync"
AfterComplete(dup) == IF dup THEN "sync" ELSE "bill"

\* complete_page, then PageIdentitySet.add for a page that contributed
CompletePage ==
    /\ pc = "complete"
    /\ LET dup == IsDuplicate(rendered) IN
       /\ page' = [page EXCEPT ![cur][idx] =
             [status |-> "completed", hash |-> rendered.hash, dup |-> dup,
              chunks |-> IF dup THEN 0 ELSE ChunksOf[rendered.hash]]]
       /\ seen' = SeenWith(rendered, dup)
       /\ tally' = IF dup THEN [tally EXCEPT !.processed = @ + 1] ELSE tally
       /\ pc' = AfterComplete(dup)
    /\ UNCHANGED <<job, billed, objVars, queue, cur, idx, denied, rendered, spool,
                   clientVars, envVars>>

\* increment_ingest_usage: one ledger row per (job, page) key
BillPage ==
    /\ pc = "bill"
    /\ billed' = billed \cup {<<cur, idx>>}
    /\ tally' = [tally EXCEPT !.processed = @ + 1,
                              !.chunks = @ + page[cur][idx].chunks]
    /\ pc' = "sync"
    /\ UNCHANGED <<job, page, objVars, queue, cur, idx, denied, seen, rendered, spool,
                   clientVars, envVars>>

\* staging, completing or billing raises: the except clause fails the page
PageFaults ==
    /\ pc \in {"stage", "complete", "bill"} /\ Fault
    /\ pc' = "fail"
    /\ UNCHANGED <<rowVars, objVars, queue, cur, idx, localVars, clientVars, up, crashes>>

FailPage ==
    /\ pc = "fail"
    /\ SetPageStatus(cur, idx, "failed")
    /\ tally' = [tally EXCEPT !.failed = @ + 1]
    /\ pc' = "sync"
    /\ UNCHANGED <<job, billed, objVars, queue, cur, idx, denied, seen, rendered, spool,
                   clientVars, envVars>>

SyncProgress ==
    /\ pc = "sync"
    /\ UpdateJobProgress(cur, tally)
    /\ idx' = idx + 1 /\ pc' = "next" /\ rendered' = NoRender
    /\ UNCHANGED <<page, billed, objVars, queue, cur, tally, denied, seen, spool,
                   clientVars, envVars>>

-----------------------------------------------------------------------------
(* The worker: _assemble *)

Assemble ==
    /\ pc = "assemble"
    /\ pc' = IF job[cur].status = "canceled" THEN "cleanup"
             ELSE IF PagesIn(cur, {"completed"}) = {} THEN "fail_all" ELSE "stream"
    /\ idx' = 1
    /\ spool' = [p \in Pages |-> "absent"]
    /\ tally' = [processed |-> 0, chunks |-> 0,
                 failed |-> Cardinality(PagesIn(cur, {"failed", "skipped"}))]
    /\ UNCHANGED <<rowVars, objVars, queue, cur, denied, seen, rendered, clientVars,
                   envVars>>

\* stream one staged object into the spool
StreamPage ==
    /\ pc = "stream" /\ idx <= MaxPages
    /\ IF page[cur][idx].status = "completed"
       THEN /\ staged[cur][idx] # "absent"
            /\ spool' = [spool EXCEPT ![idx] = staged[cur][idx]]
            /\ tally' = [tally EXCEPT !.processed = @ + 1,
                                      !.chunks = @ + page[cur][idx].chunks]
       ELSE UNCHANGED <<spool, tally>>
    /\ idx' = idx + 1
    /\ UNCHANGED <<rowVars, objVars, queue, pc, cur, denied, seen, rendered, clientVars,
                   envVars>>

\* the staged object is missing or cannot be read: the page is demoted
DemotePage ==
    /\ pc = "stream" /\ idx <= MaxPages /\ page[cur][idx].status = "completed"
    /\ IF staged[cur][idx] = "absent" THEN NoFault ELSE Fault
    /\ SetPageStatus(cur, idx, "failed")
    /\ tally' = [tally EXCEPT !.failed = @ + 1]
    /\ idx' = idx + 1
    /\ UNCHANGED <<job, billed, objVars, queue, pc, cur, denied, seen, rendered, spool,
                   clientVars, up, crashes>>

StreamDone ==
    /\ pc = "stream" /\ idx > MaxPages
    /\ pc' = IF tally.processed = 0 THEN "fail_all" ELSE "upload"
    /\ UNCHANGED <<rowVars, objVars, queue, cur, idx, localVars, clientVars, envVars>>

\* "all pages failed or were skipped" / "lost before assembly"
FailAll ==
    /\ pc = "fail_all"
    /\ FailJob(cur)
    /\ pc' = "cleanup"
    /\ UNCHANGED <<page, billed, objVars, queue, cur, idx, localVars, clientVars, envVars>>

MutUploadFinal ==    \* drops the staging objects before the job is completed
    /\ pc = "upload"
    /\ final' = [final EXCEPT ![cur] = [there |-> TRUE, parts |-> spool]]
    /\ staged' = [staged EXCEPT ![cur] = [p \in Pages |-> "absent"]]
    /\ pc' = "finish"
    /\ UNCHANGED <<rowVars, sources, backstop, queue, cur, idx, localVars,
                   clientVars, envVars>>
UploadFinal ==
    /\ pc = "upload"
    /\ final' = [final EXCEPT ![cur] = [there |-> TRUE, parts |-> spool]]
    /\ pc' = "finish"
    /\ UNCHANGED <<rowVars, staged, sources, backstop, queue, cur, idx, localVars,
                   clientVars, envVars>>

MutAfterFinish(j) == IF j \in HookJobs THEN "webhook" ELSE "unstage"
AfterFinish(j) == IF job[j].status \notin Active THEN "discard"
                  ELSE IF j \in HookJobs THEN "webhook" ELSE "unstage"

\* complete_job; a cancel committed during assembly wins
FinishJob ==
    /\ pc = "finish"
    /\ CompleteJob(cur, tally)
    /\ pc' = AfterFinish(cur)
    /\ UNCHANGED <<page, billed, objVars, queue, cur, idx, localVars, clientVars, envVars>>

\* deliver_ingest_webhook: the POST, then the row write with its outcome.
\* A fault before the POST (no signing secret) or in the write is logged only.
DeliverWebhook ==
    /\ pc = "webhook"
    /\ \E got, ok \in BOOLEAN :
          /\ ok => got
          /\ received' = IF got THEN received \cup {cur} ELSE received
          /\ pc' = IF ok THEN "hook_ok" ELSE "hook_failed"
    /\ UNCHANGED <<rowVars, objVars, queue, cur, idx, localVars, submit, retry, envVars>>

SetWebhookDelivered ==
    /\ pc \in {"hook_ok", "hook_failed"}
    /\ job' = [job EXCEPT ![cur].hook = IF pc = "hook_ok" THEN "ok" ELSE "failed"]
    /\ pc' = "unstage"
    /\ UNCHANGED <<page, billed, objVars, queue, cur, idx, localVars, clientVars, envVars>>

WebhookFaults ==
    /\ pc \in {"webhook", "hook_ok", "hook_failed"} /\ Fault
    /\ pc' = "unstage"
    /\ UNCHANGED <<rowVars, objVars, queue, cur, idx, localVars, clientVars, up, crashes>>

DiscardFinal ==
    /\ pc = "discard"
    /\ \/ final' = [final EXCEPT ![cur] = NoFinal] /\ NoFault
       \/ UNCHANGED final /\ Fault     \* delete_from_storage swallows its errors
    /\ pc' = "unstage"
    /\ UNCHANGED <<rowVars, staged, sources, backstop, queue, cur, idx, localVars,
                   clientVars, up, crashes>>

\* delete the staging objects, one by one, best effort
Unstage ==
    /\ pc = "unstage"
    /\ \/ staged' = [staged EXCEPT ![cur] = [p \in Pages |-> "absent"]] /\ NoFault
       \/ /\ \E p \in Pages : staged' = [staged EXCEPT ![cur] = [q \in Pages |->
                                  IF q = p THEN @[q] ELSE "absent"]]
          /\ Fault
    /\ pc' = "cleanup"
    /\ UNCHANGED <<rowVars, final, sources, backstop, queue, cur, idx, localVars,
                   clientVars, up, crashes>>

\* _cleanup_source_files, and process_job returns
CleanupSourceFiles ==
    /\ pc = "cleanup"
    /\ \/ sources' = sources \ SourcesOf(cur) /\ NoFault
       \/ UNCHANGED sources /\ SourcesOf(cur) # {} /\ Fault
    /\ pc' = "idle" /\ cur' = NoJob
    /\ UNCHANGED <<rowVars, staged, final, backstop, queue, idx, localVars, clientVars,
                   up, crashes>>

-----------------------------------------------------------------------------
(* Failures *)

\* a store call outside any try clause raises: process_job propagates it,
\* _worker_loop logs it and goes on with the next id
Escapable == {"subscription", "discover", "discovered", "begin", "next", "quota",
              "skip", "mark", "fail", "sync", "assemble", "fail_all", "upload",
              "finish", "webhook"}
JobFaults ==
    /\ pc \in Escapable \/ (pc = "unstage" /\ job[cur].status = "completed")
    /\ Fault
    /\ pc' = "idle" /\ cur' = NoJob
    /\ UNCHANGED <<rowVars, objVars, queue, idx, localVars, clientVars, up, crashes>>

\* the process dies, or is shut down, between two awaits
Crash ==
    /\ up /\ crashes < MaxCrashes
    /\ up' = FALSE /\ crashes' = crashes + 1
    /\ queue' = <<>> /\ pc' = "idle" /\ cur' = NoJob /\ idx' = 1
    /\ tally' = ZeroTally /\ denied' = FALSE /\ seen' = NothingSeen
    /\ rendered' = NoRender /\ spool' = [p \in Pages |-> "absent"]
    /\ submit' = [j \in Jobs |-> IF submit[j] \in InSubmit \cup {"cut"}
                                 THEN "lost" ELSE submit[j]]
    /\ retry' = [j \in Jobs |-> "idle"]
    /\ UNCHANGED <<rowVars, objVars, received, faults>>

\* startup: re-enqueue every non-terminal job.  The scan orders them by row id;
\* rows are created in any order of the jobs, so any order may come out.
Restart ==
    /\ ~up /\ up' = TRUE
    /\ \/ /\ \E order \in [1..Cardinality(ActiveJobs) -> ActiveJobs] :
                /\ ActiveJobs = {order[i] : i \in DOMAIN order}
                /\ queue' = order
          /\ NoFault
       \/ queue' = <<>> /\ Fault     \* the resume scan failed; boot goes on
    /\ UNCHANGED <<rowVars, objVars, pc, cur, idx, localVars, clientVars, crashes>>

-----------------------------------------------------------------------------

Init ==
    /\ job = [j \in Jobs |-> NoRow]
    /\ page = [j \in Jobs |-> [p \in Pages |-> NoPage]]
    /\ billed = {}
    /\ staged = [j \in Jobs |-> [p \in Pages |-> "absent"]]
    /\ final = [j \in Jobs |-> NoFinal]
    /\ sources = {} /\ backstop = {} /\ queue = <<>>
    /\ pc = "idle" /\ cur = NoJob /\ idx = 1
    /\ tally = ZeroTally /\ denied = FALSE /\ seen = NothingSeen
    /\ rendered = NoRender /\ spool = [p \in Pages |-> "absent"]
    /\ submit = [j \in Jobs |-> "idle"] /\ retry = [j \in Jobs |-> "idle"]
    /\ received = {}
    /\ up = TRUE /\ crashes = 0 /\ faults = 0

SubmitStep(j) ==
    \/ AcceptSubmit(j) \/ CreateJob(j) \/ CreateFilePages(j) \/ Submit(j)
    \/ \E p \in Pages : StageUpload(j, p) \/ ScheduleFileCleanup(j, p)

RunStep ==
    \/ StartJob \/ LoadPages \/ SubscriptionUnavailable \/ BeginDiscovery
    \/ \E n \in Pages : DiscoverPages(n)
    \/ DiscoveryFails \/ RecordDiscovered \/ BeginProcessing
    \/ NextPage \/ PagesDone \/ CheckOpsQuota \/ SkipPage \/ MarkPageProcessing
    \/ \E u \in Urls, h \in Hashes : RenderUrl(u, h)
    \/ \E h \in Hashes : ConvertFile(h)
    \/ RenderFails \/ StagePage \/ CompletePage \/ BillPage \/ FailPage \/ SyncProgress
AssembleStep ==
    \/ Assemble \/ StreamPage \/ DemotePage \/ StreamDone \/ FailAll \/ UploadFinal
    \/ FinishJob \/ DeliverWebhook \/ SetWebhookDelivered \/ DiscardFinal \/ Unstage
    \/ CleanupSourceFiles
WorkerStep == RunStep \/ AssembleStep

Next ==
    \/ \E j \in Jobs : \/ SubmitStep(j) \/ SubmitFault(j) \/ TimeOutSubmit(j)
                       \/ CancelJob(j)
                       \/ RetryWebhook(j) \/ SetRetryDelivered(j)
    \/ WorkerStep \/ PageFaults \/ WebhookFaults \/ JobFaults \/ Crash \/ Restart

Spec == Init /\ [][Next]_vars

\* The event loop keeps running the worker, whose store and HTTP calls end, and the
\* service manager restarts a dead process.  Nothing bounds a crawl or a render: the
\* worker's steps that wait for the browser are left out.  A submit handler goes on
\* until it has enqueued its job or the request time-out cuts it.
Browsing == {"discovering", "render"}
Fairness ==
    /\ WF_vars(pc \notin Browsing /\ WorkerStep) /\ WF_vars(Restart)
    /\ \A j \in Jobs : WF_vars(CreateFilePages(j) \/ Submit(j) \/ TimeOutSubmit(j))
FairSpec == Spec /\ Fairness

-----------------------------------------------------------------------------
(* Properties *)

\* TypeOK: every row, object and local variable keeps its shape.
Statuses == {"none"} \cup Active \cup Terminal
JobRow  == [status : Statuses, discovered : Nat, processed : Nat, failed : Nat,
            chunks : Nat, output : BOOLEAN, hook : {"unset", "ok", "failed"}]
PageRow == [status : {"absent", "pending", "processing", "completed", "failed",
                      "skipped"},
            chunks : Nat, hash : Hashes \cup {NoHash}, dup : BOOLEAN]
Tally   == [processed : Nat, failed : Nat, chunks : Nat]
PageStep == {"quota", "skip", "mark", "render", "stage", "complete", "bill", "fail",
             "sync"}
Steps   == Escapable \cup {"idle", "discovering", "render", "stage", "complete", "bill",
                           "stream", "webhook", "hook_ok", "hook_failed", "discard",
                           "unstage", "cleanup"}
RowTypes ==
    /\ job \in [Jobs -> JobRow]
    /\ page \in [Jobs -> [Pages -> PageRow]]
    /\ billed \subseteq Jobs \X Pages
ObjectTypes ==
    /\ staged \in [Jobs -> [Pages -> Blobs]]
    /\ final \in [Jobs -> [there : BOOLEAN, parts : [Pages -> Blobs]]]
    /\ sources \subseteq Jobs \X Pages /\ backstop \subseteq Jobs \X Pages
WorkerTypes ==
    /\ queue \in Seq(Jobs)
    /\ pc \in Steps
    /\ cur \in Jobs \cup {NoJob} /\ (cur = NoJob <=> pc = "idle")
    /\ idx \in 1..(MaxPages + 1)
    /\ pc \in PageStep => idx \in Pages
    /\ tally \in Tally
    /\ denied \in BOOLEAN
    /\ seen \in [urls : SUBSET Urls, hashes : SUBSET (Hashes \cup {NoHash})]
    /\ rendered \in [url : Urls \cup {NoUrl}, hash : Hashes \cup {NoHash}]
    /\ pc \in {"stage", "complete"} => rendered.hash \in Hashes
    /\ spool \in [Pages -> Blobs]
ClientTypes ==
    /\ submit \in [Jobs -> InSubmit \cup {"idle", "done", "failed", "lost", "cut"}]
    /\ retry \in [Jobs -> {"idle", "ok", "failed"}]
    /\ received \subseteq Jobs
    /\ up \in BOOLEAN /\ crashes \in 0..MaxCrashes /\ faults \in 0..MaxFaults
TypeOK == RowTypes /\ ObjectTypes /\ WorkerTypes /\ ClientTypes

\* A completed page of a job that may still be assembled has its staging
\* object, holding exactly what the row says: complete_page runs only after a
\* successful upload, and staging objects are deleted only once the job is
\* terminal, whatever the crashes and cancels in between (_assemble relies on
\* it: "it must not be" missing).
StagedUntilTerminal ==
    \A j \in Jobs, p \in Pages :
        job[j].status \in Active /\ page[j][p].status = "completed" =>
            staged[j][p] = IF page[j][p].dup THEN "blank" ELSE page[j][p].hash

\* The row of a completed job describes its deliverable: the object is there,
\* total_chunks counts the chunks in it, pages_processed its pages, and every
\* discovered page is accounted for as processed or failed (_assemble: "never
\* report chunks the final file does not contain").
CompletedRowMatchesFinal ==
    \A j \in Jobs : job[j].status = "completed" =>
        LET parts == {p \in Pages : final[j].parts[p] # "absent"} IN
        /\ final[j].there /\ job[j].output
        /\ parts = PagesIn(j, {"completed"})
        /\ job[j].processed = Cardinality(parts)
        /\ job[j].processed + job[j].failed = job[j].discovered
        /\ job[j].discovered = Cardinality(PagesIn(j, {"completed", "failed", "skipped"}))
        /\ PagesIn(j, Resumable) = {}
        /\ job[j].chunks = Cardinality(UNION {{p} \X (1..ChunksOf[final[j].parts[p]]) :
                                  p \in {q \in Pages : final[j].parts[q] \in Hashes}})

\* No content is shipped twice in one deliverable, even when the pages were
\* processed by different attempts of the job (PageIdentitySet is re-seeded).
NoDuplicateContent ==
    \A j \in Jobs : \A p, q \in Pages :
        /\ job[j].status = "completed" /\ p # q
        /\ final[j].parts[p] \in Hashes
        => final[j].parts[p] # final[j].parts[q]

\* A page is charged only for content it put into the deliverable: duplicates,
\* empty, blocked and failed pages are never billed (usage.py: "our own render
\* failures never bill the caller"), across crashes too.  A store call that fails
\* after the bill, or at assembly, may lose a page that was billed.
NoChargeForNothing ==
    \A j \in Jobs, p \in Pages : faults = 0 /\ <<j, p>> \in billed =>
        /\ page[j][p].status = "completed" /\ ~page[j][p].dup
        /\ job[j].status = "completed" => final[j].parts[p] = page[j][p].hash

\* Every page that ships content was charged ("one per page whose
\* render+chunk+stage completed"), whatever store calls fail: billing that fails
\* takes the page out of the deliverable.  A crash between complete_page and the
\* bill leaves a completed page that no resume bills.
EveryContributionBilled ==
    \A j \in Jobs, p \in Pages :
        /\ crashes = 0 /\ job[j].status = "completed"
        /\ final[j].parts[p] \in Hashes
        => <<j, p>> \in billed

\* A file page still owed work has its uploaded source: sources are removed
\* only when their own job is settled.
SourceUntilConverted ==
    \A j \in FileJobs, p \in Pages :
        job[j].status \in Active /\ page[j][p].status \in Resumable =>
            <<j, p>> \in sources

\* The worker checks the quota and bills in turn for one job at a time, so
\* ingestion alone never takes the project past its grant.
QuotaNeverOverrun == Cardinality(billed) <= OpsQuota

\* A canceled job leaves no final object behind once the worker has let go of
\* it: a cancel that lands during assembly discards the upload.  (The process may
\* die, or the delete fail, before it does.)
CanceledLeavesNoOutput ==
    \A j \in Jobs : crashes = 0 /\ faults = 0 /\ job[j].status = "canceled" /\ cur # j => ~final[j].there

\* While the process is up and no store call failed, every active job is in the
\* queue, in the worker's hands or still with its submit handler: none waits for
\* nobody, but a job whose handler the request time-out cut between create_job and
\* submit ("Always enqueue") does, until the next restart.
Scheduled(j) == cur = j \/ \E i \in DOMAIN queue : queue[i] = j
ActiveIsScheduled ==
    \A j \in Jobs :
        /\ faults = 0 /\ up /\ job[j].status \in Active
        /\ submit[j] \notin InSubmit \cup {"cut"}
        => Scheduled(j)

\* webhook_delivered is true only if the endpoint got the signed POST, and no
\* endpoint hears of a job that did not complete.
HookFlagTruthful ==
    \A j \in Jobs : /\ job[j].hook = "ok" => j \in received
                    /\ j \in received => job[j].status = "completed"

\* What a client is handed is what the row says: deliverable, webhook and discard agree.
DeliverableExact ==
    CompletedRowMatchesFinal /\ NoDuplicateContent /\ CanceledLeavesNoOutput /\ HookFlagTruthful

\* The bill is the deliverable's, and never above the grant.
BilledExactly == NoChargeForNothing /\ EveryContributionBilled /\ QuotaNeverOverrun

\* A job that is accepted has somebody to run it, and what it is to be run on.
ActiveIsServed == ActiveIsScheduled /\ SourceUntilConverted

\* A terminal job is settled: its status, counters and output never change
\* again, though the worker may still be running it when the cancel commits.
TerminalFrozen ==
    [][\A j \in Jobs : job[j].status \in Terminal =>
          [job'[j] EXCEPT !.hook = "unset"] = [job[j] EXCEPT !.hook = "unset"]]_vars

\* The live progress of an active job never goes backwards, across resumes too
\* ("already-done pages from a resume are seeded").
ProgressNeverBackwards ==
    [][\A j \in Jobs : job[j].status \in Active /\ job'[j].status \in Active =>
          job'[j].processed >= job[j].processed /\ job'[j].chunks >= job[j].chunks]_vars

\* A page is dropped as a duplicate only in favour of a page this job has completed
\* from the same address or with the same content.  (A page whose bill fails stays
\* among the seen: its content may then be in no page.)
DuplicateOfCompleted ==
    [][\A j \in Jobs, p \in Pages : faults = 0 /\ ~page[j][p].dup /\ page'[j][p].dup =>
          \/ rendered.url \in seen.urls
          \/ \E q \in Pages : /\ page[j][q].status = "completed"
                              /\ page[j][q].hash = page'[j][p].hash]_vars

\* A resumed attempt goes on from what the interrupted one reached.
ResumeFaithful == ProgressNeverBackwards /\ DuplicateOfCompleted

\* If every crawl and render returns, every job that was enqueued, or whose submit
\* handler died with the process, reaches a terminal status, unless a store call
\* fails.  (A handler the time-out cut leaves its job to the next restart.)
RendersReturn == []<>(pc \notin Browsing)
Terminates ==
    RendersReturn =>
        \A j \in Jobs : (job[j].status \in Active /\ submit[j] \in {"done", "lost"})
                            ~> (job[j].status \in Terminal \/ faults > 0)

\* The job as its client sees it implements the promised lifecycle.
Deliverable(j) ==
    IF job[j].status = "completed"
    THEN {final[j].parts[p] : p \in Pages} \ {"absent", "blank"} ELSE {}
Lifecycle == INSTANCE JobLifecycle WITH
    Contents <- Hashes,
    state <- [j \in Jobs |-> job[j].status],
    deliverable <- [j \in Jobs |-> Deliverable(j)]
ImplementsLifecycle == Lifecycle!Spec

-----------------------------------------------------------------------------
(* The inductive invariant behind StagedUntilTerminal, TerminalFrozen and      *)
(* ImplementsLifecycle                                                         *)

\* a job id has no row until its submit handler created it
NoRowBeforeCreate ==
    \A j \in Jobs : submit[j] \in {"idle", "accepted", "staging", "staged"} =>
                    job[j].status = "none"

\* what the worker may conclude about its job's status from where it is
StatusAtStep ==
    /\ pc \in PageStep \cup {"next", "assemble", "stream", "fail_all", "upload", "finish"}
       => job[cur].status \in {"processing", "canceled"}
    /\ pc \in {"webhook", "hook_ok", "hook_failed"} => job[cur].status = "completed"
    /\ pc = "discard" => job[cur].status = "canceled"
    /\ pc = "unstage" => job[cur].status \in {"completed", "canceled"}

\* the page the worker is on is still owed until complete_page
PageOwed ==
    pc \in {"quota", "skip", "mark", "render", "stage", "complete"} =>
        page[cur][idx].status # "completed"

\* between the upload and complete_page the object is what the row will say
StagedBeforeComplete ==
    pc = "complete" =>
        staged[cur][idx] = IF IsDuplicate(rendered) THEN "blank" ELSE rendered.hash

StagedUnlessTerminal ==
    \A j \in Jobs, p \in Pages :
        job[j].status \notin Terminal /\ page[j][p].status = "completed" =>
            staged[j][p] = IF page[j][p].dup THEN "blank" ELSE page[j][p].hash

StepInv == /\ NoRowBeforeCreate /\ StatusAtStep /\ PageOwed
           /\ StagedBeforeComplete /\ StagedUnlessTerminal

\* IndInv: where the worker stands, what it may assume of its job's status, of
\* its page and of the staging objects; it holds together or not at all.
IndInv == TypeOK /\ StepInv

=============================================================================
