--------------------------- MODULE PerceiveBatch ---------------------------
(***************************************************************************)
(* POST /v2/perceive and /v2/perceive/batch: the durable envelope, its     *)
(* operation rows, the one worker that renders them in order, the requests *)
(* that wait or cancel, the one-hour operation cache, and what a restart   *)
(* resumes or sweeps.                                                      *)
(*                                                                         *)
(* Everything runs on one event loop and the store calls are synchronous,  *)
(* so a step lasts from one await to the next; where a step commits more   *)
(* than one transaction it is split, and Loop keeps the other coroutines   *)
(* out in between: only the death of the process can fall there.           *)
(* Content is the time it was rendered at; an address is a member of Urls. *)
(***************************************************************************)
EXTENDS Naturals, Sequences, FiniteSets, SequencesExt

CONSTANTS
    Batches, Singles,   \* batch ids; operations requested on their own
    BatchOps,           \* batch -> sequence of its operations
    Urls, UrlOf,        \* operation -> address
    ZipBatches,         \* output_mode = "zip"
    InlineBatches,      \* at most INLINE_THRESHOLD addresses
    Ttl, MaxTime, MaxCrashes, MaxFaults

OpsOf(b) == ToSet(BatchOps[b])
Ops == Singles \cup UNION {OpsOf(b) : b \in Batches}
None == "none"

ASSUME BatchAssumption ==
    /\ None \notin Batches /\ IsFiniteSet(Batches)
    /\ \A b \in Batches : BatchOps[b] \in Seq(OpsOf(b))
    /\ \A b, d \in Batches : b # d => OpsOf(b) \cap OpsOf(d) = {}
    /\ \A b \in Batches : OpsOf(b) \cap Singles = {} /\ IsInjective(BatchOps[b])

VARIABLES
    batch,     \* rows of ch_perceive_batches
    op,        \* rows of ch_perceive_operations
    billed,    \* operations whose key is in the usage ledger
    expiring,  \* operations whose artifacts are counted and registered for deletion
    queue, live,                \* _queue, _jobs
    cur, pc, todo, tally, zipped,   \* the worker: job, await, requests, counts, zip key
    flow,      \* perceive_flow.run of each operation
    request,   \* the POST of each batch
    done,      \* batches whose completion event is set
    now, up, crashes, faults

rowVars == <<batch, op, billed, expiring>>
workVars == <<queue, live, cur, pc, todo, tally, zipped>>
envVars == <<now, up, crashes, faults>>
vars == <<rowVars, workVars, flow, request, done, envVars>>

Active == {"queued", "processing"}
Settled == {"completed", "failed"}
Terminal == {"completed", "partial", "failed", "canceled"}
NoBatch == [status |-> "absent", completed |-> 0, failed |-> 0, zip |-> FALSE,
            redacted |-> FALSE]
NoOp == [status |-> "absent", created |-> 0, content |-> 0, print |-> FALSE,
         hit |-> FALSE, zip |-> FALSE]
NoTally == [completed |-> 0, failed |-> 0]

\* between two transactions of one synchronous stretch of code
Midway == \/ \E o \in Ops : flow[o] \in {"bill", "register"}
          \/ \E b \in Batches : request[b] \in {"enveloped", "created"}
          \/ pc = "finish"
Loop == up /\ ~Midway
NoFault == UNCHANGED faults
Fault == faults < MaxFaults /\ faults' = faults + 1

Rows(b) == {o \in OpsOf(b) : op[o].status # "absent"}
RowsIn(b, S) == {o \in OpsOf(b) : op[o].status \in S}

\* fail_operation: unconditional, and it never raises
FailOperation(o) ==
    \/ /\ op' = [op EXCEPT ![o] = IF @.status = "absent" THEN @
                                   ELSE [@ EXCEPT !.status = "failed", !.content = 0]]
       /\ NoFault
    \/ UNCHANGED op /\ Fault

-----------------------------------------------------------------------------
(* Requests *)

\* perceive_batch up to its last await: gates read only, addresses screened
AcceptBatch(b) ==
    /\ Loop /\ request[b] = "idle"
    /\ request' = [request EXCEPT ![b] = "accepted"]
    /\ UNCHANGED <<rowVars, workVars, flow, done, envVars>>

\* make_job: the envelope first, its options without credentials ...
CreateBatch(b) ==
    /\ Loop /\ request[b] = "accepted"
    /\ \E secrets \in BOOLEAN :
          batch' = [batch EXCEPT ![b].status = "queued", ![b].redacted = secrets]
    /\ request' = [request EXCEPT ![b] = "enveloped"]
    /\ UNCHANGED <<op, billed, expiring, workVars, flow, done, envVars>>

\* ... then its rows, in one transaction; a failure leaves the envelope
CreateQueuedOperations(b) ==
    /\ up /\ request[b] = "enveloped"
    /\ \/ /\ op' = [o \in Ops |-> IF o \in OpsOf(b)
                                  THEN [NoOp EXCEPT !.status = "queued", !.created = now]
                                  ELSE op[o]]
          /\ request' = [request EXCEPT ![b] = "created"] /\ NoFault
       \/ /\ request' = [request EXCEPT ![b] = "answered"]
          /\ UNCHANGED op /\ Fault
    /\ UNCHANGED <<batch, billed, expiring, workVars, flow, done, now, up, crashes>>

\* submit; a small batch then waits for its completion event
Submit(b) ==
    /\ up /\ request[b] = "created"
    /\ live' = live \cup {b} /\ queue' = Append(queue, b)
    /\ request' = [request EXCEPT ![b] = IF b \in InlineBatches THEN "waiting" ELSE "answered"]
    /\ UNCHANGED <<rowVars, cur, pc, todo, tally, zipped, flow, done, envVars>>

\* process_inline returns: the job is done, or the budget ran out (202)
InlineReturns(b) ==
    /\ Loop /\ request[b] = "waiting"
    /\ request' = [request EXCEPT ![b] = "answered"]
    /\ UNCHANGED <<rowVars, workVars, flow, done, envVars>>

\* DELETE: one conditional UPDATE
CancelBatch(b) ==
    /\ Loop /\ batch[b].status \in Active
    /\ batch' = [batch EXCEPT ![b].status = "canceled"]
    /\ UNCHANGED <<op, billed, expiring, workVars, flow, request, done, envVars>>

\* POST /v2/perceive up to the screen of the address
AcceptSingle(o) ==
    /\ Loop /\ flow[o] = "idle" /\ op[o].status = "absent"
    /\ flow' = [flow EXCEPT ![o] = "screen"]
    /\ UNCHANGED <<rowVars, workVars, request, done, envVars>>

\* TimeoutMiddleware cancels the request at an await: no handler of `run` catches that
TimeOut(o) ==
    /\ Loop /\ flow[o] \in {"screen", "render", "upload"}
    /\ flow' = [flow EXCEPT ![o] = "gone"]
    /\ UNCHANGED <<rowVars, workVars, request, done, envVars>>

-----------------------------------------------------------------------------
(* perceive_flow.run, for a request of its own and for the worker *)

\* the address is refused (robots, private host) before any row is written
Refused(o) ==
    /\ Loop /\ flow[o] = "screen"
    /\ flow' = [flow EXCEPT ![o] = "raised"]
    /\ UNCHANGED <<rowVars, workVars, request, done, envVars>>

\* find_cached_operation: rendered rows of the address within the hour
Candidates(o) ==
    {c \in Ops : /\ UrlOf[c] = UrlOf[o] /\ op[c].status = "completed"
                 /\ ~op[c].hit /\ op[c].print
                 /\ op[c].created + Ttl >= now}
Newest(S) == {c \in S : \A d \in S : op[d].created <= op[c].created}

\* create_operation: a queued or interrupted row is claimed in place
Claimed(row) == CASE row.status = "absent" -> [NoOp EXCEPT !.status = "processing",
                                                          !.created = now]
                  [] row.status \in Active -> [row EXCEPT !.status = "processing"]
                  [] OTHER -> row

\* complete_operation
CompletedRow(row, hit, content) ==
    [row EXCEPT !.status = "completed", !.hit = hit, !.content = content, !.print = ~hit]

MutServeFromCache(o) ==    \* a hit costs nothing
    /\ Loop /\ flow[o] = "screen"
    /\ \E c \in Newest(Candidates(o)) :
          op' = [op EXCEPT ![o] = CompletedRow(Claimed(@), TRUE, op[c].content)]
    /\ flow' = [flow EXCEPT ![o] = "returned"]
    /\ UNCHANGED <<batch, billed, expiring, workVars, request, done, envVars>>
ServeFromCache(o) ==
    /\ Loop /\ flow[o] = "screen"
    /\ \E c \in Newest(Candidates(o)) :
          op' = [op EXCEPT ![o] = CompletedRow(Claimed(@), TRUE, op[c].content)]
    /\ flow' = [flow EXCEPT ![o] = "bill"]
    /\ UNCHANGED <<batch, billed, expiring, workVars, request, done, envVars>>

\* no candidate, or the request bypasses the cache
CreateOperation(o) ==
    /\ Loop /\ flow[o] = "screen"
    /\ op' = [op EXCEPT ![o] = Claimed(@)]
    /\ flow' = [flow EXCEPT ![o] = "render"]
    /\ UNCHANGED <<batch, billed, expiring, workVars, request, done, envVars>>

Render(o) ==
    /\ Loop /\ flow[o] = "render"
    /\ flow' = [flow EXCEPT ![o] = "upload"]
    /\ op' = [op EXCEPT ![o].content = now]
    /\ UNCHANGED <<batch, billed, expiring, workVars, request, done, envVars>>

\* _process_outputs and _upload_artifacts are through
CompleteOperation(o) ==
    /\ Loop /\ flow[o] = "upload"
    /\ op' = [op EXCEPT ![o] = CompletedRow(@, FALSE, @.content)]
    /\ flow' = [flow EXCEPT ![o] = "bill"]
    /\ UNCHANGED <<batch, billed, expiring, workVars, request, done, envVars>>

\* increment_perceive_usage: the operation id is the ledger key
BillOperation(o) ==
    /\ up /\ flow[o] = "bill"
    /\ billed' = billed \cup {o}
    /\ flow' = [flow EXCEPT ![o] = IF op[o].hit THEN "returned" ELSE "register"]
    /\ UNCHANGED <<batch, op, expiring, workVars, request, done, envVars>>

\* record_storage_and_retention swallows its failures
RegisterArtifacts(o) ==
    /\ up /\ flow[o] = "register"
    /\ \/ expiring' = expiring \cup {o} /\ NoFault
       \/ UNCHANGED expiring /\ Fault
    /\ flow' = [flow EXCEPT ![o] = "returned"]
    /\ UNCHANGED <<batch, op, billed, workVars, request, done, now, up, crashes>>

\* the render or an upload raises: a property of the page, not a store failure
RenderFails(o) ==
    /\ Loop /\ flow[o] \in {"render", "upload"}
    /\ FailOperation(o)
    /\ flow' = [flow EXCEPT ![o] = "raised"]
    /\ UNCHANGED <<batch, billed, expiring, workVars, request, done, now, up, crashes>>

\* the ledger write raises: the completed row is failed
BillFails(o) ==
    /\ up /\ flow[o] = "bill" /\ Fault
    /\ op' = [op EXCEPT ![o].status = "failed"]
    /\ flow' = [flow EXCEPT ![o] = "raised"]
    /\ UNCHANGED <<batch, billed, expiring, workVars, request, done, now, up, crashes>>

\* the handler of a single operation answers 200, or the error
AnswerSingle(o) ==
    /\ Loop /\ flow[o] \in {"returned", "raised"}
    /\ flow' = [flow EXCEPT ![o] = "gone"]
    /\ UNCHANGED <<rowVars, workVars, request, done, envVars>>

-----------------------------------------------------------------------------
(* The worker: _worker_loop, _run_batch_id, process_batch, _finalize_batch *)

\* the live job of this process, or else the envelope if it is still active
TakeBatch ==
    /\ Loop /\ pc = "idle" /\ queue # <<>>
    /\ LET b == Head(queue) IN
          /\ queue' = Tail(queue) /\ live' = live \ {b}
          /\ \/ b \in live /\ cur' = b /\ pc' = "claim" /\ todo' = BatchOps[b]
             \/ /\ b \notin live /\ batch[b].status \in Active
                /\ cur' = b /\ pc' = "load" /\ todo' = <<>>
             \/ b \notin live /\ batch[b].status \notin Active /\ UNCHANGED <<cur, pc, todo>>
    /\ UNCHANGED <<rowVars, tally, zipped, flow, request, done, envVars>>

\* the rows of these states in the order of the batch
InOrder(b, rows) ==
    {s \in SetToSeqs(rows) : \A i, j \in DOMAIN s : i < j =>
        \E k, l \in DOMAIN BatchOps[b] : k < l /\ BatchOps[b][k] = s[i] /\ BatchOps[b][l] = s[j]}
MutResumable(b) == InOrder(b, RowsIn(b, {"queued"}))
Resumable(b) == InOrder(b, RowsIn(b, Active))

\* _load_job: only the pending rows; without the credentials they are failed
LoadJob ==
    /\ Loop /\ pc = "load"
    /\ IF batch[cur].redacted
       THEN /\ op' = [o \in Ops |-> IF o \in RowsIn(cur, Active)
                                    THEN [op[o] EXCEPT !.status = "failed"] ELSE op[o]]
            /\ todo' = <<>>
       ELSE /\ todo' \in Resumable(cur)
            /\ UNCHANGED op
    /\ pc' = "claim"
    /\ UNCHANGED <<batch, billed, expiring, queue, live, cur, tally, zipped, flow,
                   request, done, envVars>>

\* transition_status, whose answer is not looked at
ClaimBatch ==
    /\ Loop /\ pc = "claim"
    /\ batch' = [batch EXCEPT ![cur].status = IF @ \in Active THEN "processing" ELSE @]
    /\ pc' = "next"
    /\ UNCHANGED <<op, billed, expiring, queue, live, cur, todo, tally, zipped, flow,
                   request, done, envVars>>

\* a cancel is observed between two addresses
NextOperation ==
    /\ Loop /\ pc = "next" /\ todo # <<>> /\ batch[cur].status # "canceled"
    /\ flow' = [flow EXCEPT ![Head(todo)] = "screen"]
    /\ pc' = "run"
    /\ UNCHANGED <<rowVars, queue, live, cur, todo, tally, zipped, request, done, envVars>>

MutStopForCancel ==    \* leaves the loop without the finally clause
    /\ Loop /\ pc = "next" /\ todo # <<>> /\ batch[cur].status = "canceled"
    /\ pc' = "idle" /\ cur' = None /\ todo' = <<>>
    /\ UNCHANGED <<rowVars, queue, live, tally, zipped, flow, request, done, envVars>>
StopForCancel ==
    /\ Loop /\ pc = "next" /\ todo # <<>> /\ batch[cur].status = "canceled"
    /\ done' = done \cup {cur}
    /\ pc' = "idle" /\ cur' = None /\ todo' = <<>>
    /\ UNCHANGED <<rowVars, queue, live, tally, zipped, flow, request, envVars>>

OperationReturned ==
    /\ Loop /\ pc = "run" /\ flow[Head(todo)] = "returned"
    /\ flow' = [flow EXCEPT ![Head(todo)] = "gone"]
    /\ todo' = Tail(todo) /\ pc' = "next"
    /\ UNCHANGED <<rowVars, queue, live, cur, tally, zipped, request, done, envVars>>

MutOperationRaised ==    \* trusts `run` to have failed the row
    /\ Loop /\ pc = "run" /\ flow[Head(todo)] = "raised"
    /\ flow' = [flow EXCEPT ![Head(todo)] = "gone"]
    /\ todo' = Tail(todo) /\ pc' = "next"
    /\ UNCHANGED <<rowVars, queue, live, cur, tally, zipped, request, done, envVars>>
\* per-address isolation: fail the row and go on
OperationRaised ==
    /\ Loop /\ pc = "run" /\ flow[Head(todo)] = "raised"
    /\ FailOperation(Head(todo))
    /\ flow' = [flow EXCEPT ![Head(todo)] = "gone"]
    /\ todo' = Tail(todo) /\ pc' = "next"
    /\ UNCHANGED <<batch, billed, expiring, queue, live, cur, tally, zipped,
                   request, done, now, up, crashes>>

\* _finalize_batch reads the rows, and bundles the completed ones if asked to
CountRows ==
    /\ Loop /\ pc = "next" /\ todo = <<>>
    /\ tally' = [completed |-> Cardinality(RowsIn(cur, {"completed"})),
                 failed |-> Cardinality(RowsIn(cur, {"failed"}))]
    /\ pc' = IF cur \in ZipBatches /\ RowsIn(cur, {"completed"}) # {}
             THEN "zip" ELSE "finish"
    /\ zipped' = FALSE
    /\ UNCHANGED <<rowVars, queue, live, cur, todo, flow, request, done, envVars>>

\* _bundle_zip: the archive is uploaded and stamped on the completed rows ...
AttachBatchZip ==
    /\ Loop /\ pc = "zip"
    /\ op' = [o \in Ops |-> IF o \in RowsIn(cur, {"completed"})
                            THEN [op[o] EXCEPT !.zip = TRUE] ELSE op[o]]
    /\ zipped' = TRUE /\ pc' = "finish"
    /\ UNCHANGED <<batch, billed, expiring, queue, live, cur, todo, tally, flow,
                   request, done, envVars>>
\* ... or the bundling fails: "artifacts stay individually reachable"
ZipFails ==
    /\ Loop /\ pc = "zip" /\ Fault
    /\ pc' = "finish"
    /\ UNCHANGED <<rowVars, queue, live, cur, todo, tally, zipped, flow, request, done,
                   now, up, crashes>>

Verdict(t) == IF t.failed = 0 THEN "completed"
              ELSE IF t.completed = 0 THEN "failed" ELSE "partial"

MutFinalize ==    \* not conditional on the status
    /\ up /\ pc = "finish"
    /\ batch' = [batch EXCEPT ![cur] =
                    [@ EXCEPT !.status = Verdict(tally), !.completed = tally.completed,
                              !.failed = tally.failed, !.zip = zipped]]
    /\ done' = done \cup {cur}
    /\ pc' = "idle" /\ cur' = None /\ tally' = NoTally /\ zipped' = FALSE
    /\ UNCHANGED <<op, billed, expiring, queue, live, todo, flow, request, envVars>>
\* finalize: a cancel committed before it wins
Finalize ==
    /\ up /\ pc = "finish"
    /\ batch' = [batch EXCEPT ![cur] =
                    IF @.status \in Active
                    THEN [@ EXCEPT !.status = Verdict(tally), !.completed = tally.completed,
                                   !.failed = tally.failed, !.zip = zipped]
                    ELSE @]
    /\ done' = done \cup {cur}
    /\ pc' = "idle" /\ cur' = None /\ tally' = NoTally /\ zipped' = FALSE
    /\ UNCHANGED <<op, billed, expiring, queue, live, todo, flow, request, envVars>>

\* a store call of process_batch raises: the loop logs it and goes on; the event
\* is set by the finally clause, which the claim comes before
BatchFaults ==
    /\ up /\ pc \in {"load", "claim", "next", "finish"} /\ Fault
    /\ done' = IF pc \in {"next", "finish"} THEN done \cup {cur} ELSE done
    /\ pc' = "idle" /\ cur' = None /\ todo' = <<>> /\ tally' = NoTally /\ zipped' = FALSE
    /\ UNCHANGED <<rowVars, queue, live, flow, request, now, up, crashes>>

-----------------------------------------------------------------------------
(* The process *)

Tick ==
    /\ now < MaxTime /\ now' = now + 1
    /\ ~Midway
    /\ UNCHANGED <<rowVars, workVars, flow, request, done, up, crashes, faults>>

Crash ==
    /\ up /\ crashes < MaxCrashes
    /\ up' = FALSE /\ crashes' = crashes + 1
    /\ queue' = <<>> /\ live' = {} /\ cur' = None /\ pc' = "idle" /\ todo' = <<>>
    /\ tally' = NoTally /\ zipped' = FALSE /\ done' = {}
    /\ flow' = [o \in Ops |-> IF flow[o] = "idle" THEN "idle" ELSE "gone"]
    /\ request' = [b \in Batches |-> IF request[b] = "idle" THEN "idle" ELSE "answered"]
    /\ UNCHANGED <<rowVars, now, faults>>

MutRestart ==    \* scans for queued batches only
    /\ ~up /\ up' = TRUE
    /\ op' = [o \in Ops |-> IF o \in Singles /\ op[o].status \in Active
                            THEN [op[o] EXCEPT !.status = "failed"] ELSE op[o]]
    /\ \E q \in SetToSeqs({b \in Batches : batch[b].status = "queued"}) : queue' = q
    /\ UNCHANGED <<batch, billed, expiring, live, cur, pc, todo, tally, zipped, flow,
                   request, done, now, crashes, faults>>
\* startup: single operations in flight are failed, active batches are queued
\* in row order, which may be any order of them
Restart ==
    /\ ~up /\ up' = TRUE
    /\ op' = [o \in Ops |-> IF o \in Singles /\ op[o].status \in Active
                            THEN [op[o] EXCEPT !.status = "failed"] ELSE op[o]]
    /\ \E q \in SetToSeqs({b \in Batches : batch[b].status \in Active}) : queue' = q
    /\ UNCHANGED <<batch, billed, expiring, live, cur, pc, todo, tally, zipped, flow,
                   request, done, now, crashes, faults>>

Init ==
    /\ batch = [b \in Batches |-> NoBatch] /\ op = [o \in Ops |-> NoOp]
    /\ billed = {} /\ expiring = {}
    /\ queue = <<>> /\ live = {} /\ cur = None /\ pc = "idle" /\ todo = <<>>
    /\ tally = NoTally /\ zipped = FALSE
    /\ flow = [o \in Ops |-> "idle"] /\ request = [b \in Batches |-> "idle"]
    /\ done = {} /\ now = 0 /\ up = TRUE /\ crashes = 0 /\ faults = 0

FlowStep(o) ==
    \/ Refused(o) \/ ServeFromCache(o) \/ CreateOperation(o) \/ Render(o)
    \/ CompleteOperation(o) \/ BillOperation(o)
    \/ RegisterArtifacts(o) \/ RenderFails(o)
WorkerStep ==
    \/ TakeBatch \/ LoadJob \/ ClaimBatch \/ NextOperation \/ StopForCancel
    \/ OperationReturned \/ OperationRaised \/ CountRows \/ AttachBatchZip \/ Finalize

Next ==
    \/ \E b \in Batches : \/ AcceptBatch(b) \/ CreateBatch(b) \/ CreateQueuedOperations(b)
                          \/ Submit(b) \/ InlineReturns(b) \/ CancelBatch(b)
    \/ \E o \in Singles : AcceptSingle(o) \/ TimeOut(o) \/ AnswerSingle(o)
    \/ \E o \in Ops : FlowStep(o) \/ BillFails(o)
    \/ WorkerStep \/ ZipFails \/ BatchFaults \/ Tick \/ Crash \/ Restart

Spec == Init /\ [][Next]_vars

\* The loop runs what is ready, whose store calls end, and the service manager restarts
\* the process.  Nothing bounds a render (the client's script, the content, the PDF, the
\* closing of the context), in a batch not even the request time-out: none is fair.
Fairness ==
    /\ WF_vars(WorkerStep) /\ WF_vars(Restart)
    /\ \A o \in Ops : WF_vars(flow[o] # "render" /\ FlowStep(o))
    /\ \A b \in Batches : WF_vars(CreateQueuedOperations(b) \/ Submit(b))
FairSpec == Spec /\ Fairness

-----------------------------------------------------------------------------
(* Properties *)

\* _batch_response: the status a poll computes from the rows
StatusOfRows(b) ==
    LET settled == Cardinality(RowsIn(b, Settled))
        failed == Cardinality(RowsIn(b, {"failed"}))
        total == Cardinality(Rows(b))
    IN  CASE settled = 0 -> "queued"
          [] 0 < settled /\ settled < total -> "processing"
          [] settled = total /\ failed = total -> "failed"
          [] settled = total /\ 0 < failed /\ failed < total -> "partial"
          [] OTHER -> "completed"
Reported(b) == IF batch[b].status = "canceled" THEN "canceled" ELSE StatusOfRows(b)

\* The terminal envelope and the rows are two accounts of one batch, written in
\* different transactions and across restarts: once a batch is finalised its counters
\* are those of its rows, for good; and while no store call failed every row of it is
\* settled, the status a poll derives from the rows is the stored one, and a recorded
\* archive is on every completed row.  (A crash between envelope and rows leaves no rows.)
FinalBatchAgrees ==
    \A b \in Batches : batch[b].status \in Terminal \ {"canceled"} =>
        /\ batch[b].completed = Cardinality(RowsIn(b, {"completed"}))
        /\ batch[b].failed = Cardinality(RowsIn(b, {"failed"}))
        /\ batch[b].zip => \A o \in RowsIn(b, {"completed"}) : op[o].zip
        /\ faults = 0 /\ Rows(b) # {} => Reported(b) = batch[b].status

\* Money follows the row, through cache hits, failures and re-renders after a crash: only
\* a completed operation is charged, and until a crash or a failed store call every
\* completed one is, with its artifacts registered for deletion.
BilledIffCompleted ==
    /\ \A o \in billed : op[o].status = "completed"
    /\ crashes = 0 /\ faults = 0 =>
          \A o \in Ops : op[o].status = "completed" /\ flow[o] \notin {"bill", "register"} =>
                             o \in billed /\ (~op[o].hit => o \in expiring)

\* Nothing is forgotten: while no store call failed, a pending row is in the hands of
\* the worker, of the queue or of its own request (a time-out drops that one, a cancel
\* leaves the rest of the batch pending), and a request waits only for a job that is
\* still to end or has set its event, whichever way the job ended.
PendingOwned ==
    up /\ faults = 0 =>
        /\ \A b \in Batches :
              LET owned == b \in ToSet(queue) \/ cur = b
                           \/ request[b] \in {"enveloped", "created"}
              IN  /\ RowsIn(b, Active) # {} => owned \/ batch[b].status = "canceled"
                  /\ request[b] = "waiting" => owned \/ b \in done
        /\ \A o \in Singles : op[o].status \in Active =>
                                   flow[o] \in {"render", "upload", "bill", "gone"}

\* A terminal batch is over, whichever of cancel and finalisation came first: the
\* envelope never changes again, and after a finalisation neither do its rows.
SettledFrozen ==
    [][\A b \in Batches : batch[b].status \in Terminal =>
          /\ batch'[b] = batch[b]
          /\ batch[b].status # "canceled" => \A o \in OpsOf(b) : op'[o] = op[o]]_vars

\* If its renders return, every accepted batch ends, across a crash and a restart:
\* cancelled, or finalised after each of its addresses was tried (a failed store call of
\* process_batch leaves it to the next restart).
RendersReturn == \A b \in Batches : \A o \in OpsOf(b) : []<>(flow[o] # "render")
BatchEnds ==
    RendersReturn =>
        \A b \in Batches : batch[b].status \in Active ~> (batch[b].status \in Terminal
                                                         \/ faults > 0)
=============================================================================
