--------------------------- MODULE IngestJobProofs ---------------------------
(***************************************************************************)
(* Machine-checked facts about IngestJob, for every value of its constants.*)
(***************************************************************************)
EXTENDS IngestJob, TLAPS, FiniteSetTheorems

-----------------------------------------------------------------------------
(* Counting *)

\* Any set of pages is finite, so its size is a natural number.
LEMMA PageSetSize ==
    ASSUME NEW S \in SUBSET Pages
    PROVE  IsFiniteSet(S) /\ Cardinality(S) \in Nat
<1>1. IsFiniteSet(Pages)
  BY IngestAssumption, FS_Interval DEF Pages
<1>2. IsFiniteSet(S)
  BY <1>1, FS_Subset
<1> QED
  BY <1>2, FS_CardinalityType

\* The chunks of the completed pages of a job can be counted.
LEMMA ChunksDoneNat ==
    ASSUME TypeOK, NEW j \in Jobs
    PROVE  ChunksDone(j) \in Nat
<1> DEFINE Of(p) == {p} \X (1..page[j][p].chunks)
           Parts == {Of(p) : p \in PagesIn(j, {"completed"})}
<1>1. IsFiniteSet(PagesIn(j, {"completed"}))
  BY PageSetSize DEF PagesIn
<1>2. IsFiniteSet(Parts)
  <2> DEFINE f == [p \in PagesIn(j, {"completed"}) |-> Of(p)]
  <2>1. f \in Surjection(PagesIn(j, {"completed"}), Parts)
    BY DEF Surjection
  <2> QED
    BY <1>1, <2>1, FS_Surjection
<1>3. ASSUME NEW T \in Parts PROVE IsFiniteSet(T)
  <2>1. PICK p \in Pages : T = Of(p)
    BY <1>3 DEF PagesIn
  <2>2. page[j][p].chunks \in Nat
    BY <2>1 DEF TypeOK, RowTypes, PageRow
  <2>3. IsFiniteSet(1..page[j][p].chunks)
    BY <2>2, FS_Interval
  <2>4. IsFiniteSet({p})
    BY FS_Singleton
  <2> QED
    BY <2>1, <2>3, <2>4, FS_Product
<1>4. IsFiniteSet(UNION Parts)
  BY <1>2, <1>3, FS_UNION
<1> QED
  BY <1>4, FS_CardinalityType DEF ChunksDone

-----------------------------------------------------------------------------
(* Rows keep their shape under the updates the store makes *)

\* transition_status leaves every job row a job row.
LEMMA TransitionType ==
    ASSUME job \in [Jobs -> JobRow], NEW j \in Jobs, NEW s \in Statuses, NEW F,
           TransitionStatus(j, s, F)
    PROVE  job' \in [Jobs -> JobRow]
BY DEF TransitionStatus, JobRow

\* So do the progress and completion writes.
LEMMA ProgressType ==
    ASSUME job \in [Jobs -> JobRow], NEW j \in Jobs, NEW t \in Tally,
           UpdateJobProgress(j, t) \/ CompleteJob(j, t)
    PROVE  job' \in [Jobs -> JobRow]
BY DEF UpdateJobProgress, CompleteJob, JobRow, Tally, Statuses, Terminal

\* And the discovery count and the webhook flag.
LEMMA FieldType ==
    ASSUME job \in [Jobs -> JobRow], NEW j \in Jobs, NEW n \in Nat,
           NEW h \in {"ok", "failed"},
           SetPagesDiscovered(j, n) \/ job' = [job EXCEPT ![j].hook = h]
    PROVE  job' \in [Jobs -> JobRow]
<1>1. [job[j] EXCEPT !.discovered = n] \in JobRow
  BY DEF JobRow
<1>2. [job[j] EXCEPT !.hook = h] \in JobRow
  BY DEF JobRow
<1> QED
  BY <1>1, <1>2 DEF SetPagesDiscovered

\* fail_page, skip_page and mark_page_processing leave page rows page rows.
LEMMA PageStatusType ==
    ASSUME page \in [Jobs -> [Pages -> PageRow]], NEW j \in Jobs, NEW p \in Pages,
           NEW s \in {"processing", "failed", "skipped"}, SetPageStatus(j, p, s)
    PROVE  page' \in [Jobs -> [Pages -> PageRow]]
<1>1. [page[j][p] EXCEPT !.status = s] \in PageRow
  BY DEF PageRow
<1>2. [page[j] EXCEPT ![p] = [page[j][p] EXCEPT !.status = s]] \in [Pages -> PageRow]
  BY <1>1
<1> QED
  BY <1>2 DEF SetPageStatus

\* The counters of an attempt stay natural numbers.
LEMMA TallyType ==
    ASSUME NEW t \in Tally, NEW n \in Nat
    PROVE  /\ [t EXCEPT !.processed = @ + 1] \in Tally
           /\ [t EXCEPT !.failed = @ + 1] \in Tally
           /\ [t EXCEPT !.processed = @ + 1, !.chunks = @ + n] \in Tally
<1>1. t.processed + 1 \in Nat /\ t.failed + 1 \in Nat /\ t.chunks + n \in Nat
  BY DEF Tally
<1> QED
  BY <1>1 DEF Tally

-----------------------------------------------------------------------------
(* Type correctness *)

\* The initial state is well typed.
LEMMA TypeInit == Init => TypeOK
<1> SUFFICES ASSUME Init PROVE TypeOK
  OBVIOUS
<1>1. RowTypes
  BY DEF Init, RowTypes, NoRow, NoPage, JobRow, PageRow, Statuses
<1>2. ObjectTypes
  BY DEF Init, ObjectTypes, NoFinal, Blobs
<1>3. WorkerTypes
  <2>1. queue \in Seq(Jobs) /\ idx \in 1..(MaxPages + 1)
    BY IngestAssumption DEF Init
  <2>2. tally \in Tally
    BY DEF Init, ZeroTally, Tally
  <2>3. seen \in [urls : SUBSET Urls, hashes : SUBSET (Hashes \cup {NoHash})]
    BY DEF Init, NothingSeen
  <2>4. rendered \in [url : Urls \cup {NoUrl}, hash : Hashes \cup {NoHash}]
    BY DEF Init, NoRender
  <2>5. spool \in [Pages -> Blobs]
    BY DEF Init, Blobs
  <2> QED
    BY <2>1, <2>2, <2>3, <2>4, <2>5 DEF Init, WorkerTypes, Steps, PageStep, Escapable
<1>4. ClientTypes
  BY IngestAssumption DEF Init, ClientTypes, InSubmit
<1> QED
  BY <1>1, <1>2, <1>3, <1>4 DEF TypeOK

\* Every action, and every step that changes nothing, keeps the state well typed.
LEMMA TypeStep == TypeOK /\ [Next]_vars => TypeOK'
<1> SUFFICES ASSUME TypeOK, [Next]_vars PROVE TypeOK'
  OBVIOUS
<1> USE DEF rowVars, objVars, localVars, clientVars, envVars
<1>1. ASSUME NEW j \in Jobs, AcceptSubmit(j) PROVE TypeOK'
  BY <1>1
     DEF AcceptSubmit, InSubmit, TypeOK, RowTypes, ObjectTypes, WorkerTypes,
         ClientTypes
<1>2. ASSUME NEW j \in Jobs, CreateJob(j) PROVE TypeOK'
  <2>1. [job[j] EXCEPT !.status = "queued"] \in JobRow
    BY DEF TypeOK, RowTypes, JobRow, Statuses, Active
  <2> QED
    BY <1>2, <2>1
       DEF CreateJob, InSubmit, TypeOK, RowTypes, ObjectTypes, WorkerTypes,
           ClientTypes
<1>3. ASSUME NEW j \in Jobs, NEW p \in Pages, StageUpload(j, p) PROVE TypeOK'
  BY <1>3
     DEF StageUpload, InSubmit, TypeOK, RowTypes, ObjectTypes, WorkerTypes,
         ClientTypes
<1>4. ASSUME NEW j \in Jobs, NEW p \in Pages, ScheduleFileCleanup(j, p) PROVE TypeOK'
  <2>1. faults' \in 0..MaxFaults
    BY <1>4, IngestAssumption
       DEF ScheduleFileCleanup, Fault, NoFault, TypeOK, ClientTypes
  <2>2. backstop' \subseteq Jobs \X Pages
    BY <1>4 DEF ScheduleFileCleanup, TypeOK, ObjectTypes
  <2> QED
    BY <1>4, <2>1, <2>2
       DEF ScheduleFileCleanup, InSubmit, TypeOK, RowTypes, ObjectTypes, WorkerTypes,
           ClientTypes
<1>5. ASSUME NEW j \in Jobs, CreateFilePages(j) PROVE TypeOK'
  BY <1>5
     DEF CreateFilePages, InSubmit, PageRow, NoPage, TypeOK, RowTypes, ObjectTypes,
         WorkerTypes, ClientTypes
<1>6. ASSUME NEW j \in Jobs, Submit(j) PROVE TypeOK'
  BY <1>6 DEF Submit, TypeOK, RowTypes, ObjectTypes, WorkerTypes, ClientTypes
<1>7. ASSUME NEW j \in Jobs, SubmitFault(j) PROVE TypeOK'
  BY <1>7, IngestAssumption
     DEF SubmitFault, Fault, SourcesOf, TypeOK, RowTypes, ObjectTypes, WorkerTypes,
         ClientTypes
<1>53. ASSUME NEW j \in Jobs, TimeOutSubmit(j) PROVE TypeOK'
  BY <1>53
     DEF TimeOutSubmit, TypeOK, RowTypes, ObjectTypes, WorkerTypes, ClientTypes
<1>8. ASSUME NEW j \in Jobs, CancelJob(j) PROVE TypeOK'
  BY <1>8, TransitionType
     DEF CancelJob, Statuses, Terminal, TypeOK, RowTypes, ObjectTypes, WorkerTypes,
         ClientTypes
<1>9. ASSUME NEW j \in Jobs, RetryWebhook(j) PROVE TypeOK'
  BY <1>9 DEF RetryWebhook, TypeOK, RowTypes, ObjectTypes, WorkerTypes, ClientTypes
<1>10. ASSUME NEW j \in Jobs, SetRetryDelivered(j) PROVE TypeOK'
  <2>1. job' \in [Jobs -> JobRow]
    <3>1. retry[j] \in {"ok", "failed"} /\ job \in [Jobs -> JobRow]
      BY <1>10 DEF SetRetryDelivered, TypeOK, RowTypes, ClientTypes
    <3> QED
      BY <1>10, <3>1, FieldType DEF SetRetryDelivered
  <2>2. faults' \in 0..MaxFaults
    BY <1>10, IngestAssumption
       DEF SetRetryDelivered, Fault, NoFault, TypeOK, ClientTypes
  <2> QED
    BY <1>10, <2>1, <2>2
       DEF SetRetryDelivered, TypeOK, RowTypes, ObjectTypes, WorkerTypes, ClientTypes
<1>11. ASSUME StartJob PROVE TypeOK'
  BY <1>11, IngestAssumption
     DEF StartJob, Steps, Escapable, PageStep, TypeOK, RowTypes, ObjectTypes,
         WorkerTypes, ClientTypes
<1>12. ASSUME LoadPages PROVE TypeOK'
  BY <1>12
     DEF LoadPages, Steps, Escapable, PageStep, TypeOK, RowTypes, ObjectTypes,
         WorkerTypes, ClientTypes
<1>13. ASSUME SubscriptionUnavailable PROVE TypeOK'
  BY <1>13, TransitionType, IngestAssumption
     DEF SubscriptionUnavailable, FailJob, Statuses, Terminal, Steps, Escapable,
         PageStep, TypeOK, RowTypes, ObjectTypes, WorkerTypes, ClientTypes
<1>14. ASSUME BeginDiscovery PROVE TypeOK'
  BY <1>14, TransitionType, IngestAssumption
     DEF BeginDiscovery, Statuses, Active, Steps, Escapable, PageStep, TypeOK,
         RowTypes, ObjectTypes, WorkerTypes, ClientTypes
<1>15. ASSUME NEW n \in Pages, DiscoverPages(n) PROVE TypeOK'
  BY <1>15
     DEF DiscoverPages, PageRow, NoPage, Steps, Escapable, PageStep, TypeOK, RowTypes,
         ObjectTypes, WorkerTypes, ClientTypes
<1>16. ASSUME DiscoveryFails PROVE TypeOK'
  BY <1>16, TransitionType, IngestAssumption
     DEF DiscoveryFails, FailJob, Statuses, Terminal, Steps, Escapable, PageStep,
         TypeOK, RowTypes, ObjectTypes, WorkerTypes, ClientTypes
<1>17. ASSUME RecordDiscovered PROVE TypeOK'
  BY <1>17, FieldType, PageSetSize
     DEF RecordDiscovered, PagesIn, Steps, Escapable, PageStep, TypeOK, RowTypes,
         ObjectTypes, WorkerTypes, ClientTypes
<1>18. ASSUME BeginProcessing PROVE TypeOK'
  <2>1. cur \in Jobs /\ pc = "begin"
    BY <1>18, IngestAssumption DEF BeginProcessing, TypeOK, WorkerTypes
  <2>2. job' \in [Jobs -> JobRow]
    BY <1>18, <2>1, TransitionType
       DEF BeginProcessing, TypeOK, RowTypes, Statuses, Active
  <2>3. SeedTally(cur) \in Tally
    BY <2>1, ChunksDoneNat, PageSetSize DEF SeedTally, PagesIn, Tally
  <2>4. Reseed(cur) \in [urls : SUBSET Urls, hashes : SUBSET (Hashes \cup {NoHash})]
    BY <2>1 DEF Reseed, PagesIn, PageRow, TypeOK, RowTypes
  <2>5. 1 \in 1..(MaxPages + 1)
    BY IngestAssumption
  <2>6. UNCHANGED <<page, billed, objVars, queue, rendered, spool, clientVars, envVars>>
    BY <1>18 DEF BeginProcessing
  <2>7. CASE job[cur].status \in Active
    <3>1. /\ pc' = "next" /\ idx' = 1 /\ denied' = FALSE /\ cur' = cur
          /\ tally' \in Tally
          /\ seen' \in [urls : SUBSET Urls, hashes : SUBSET (Hashes \cup {NoHash})]
      BY <1>18, <2>3, <2>4, <2>7 DEF BeginProcessing
    <3> QED
      BY <2>1, <2>2, <2>5, <2>6, <3>1, IngestAssumption
         DEF PageStep, Steps, Escapable, TypeOK, RowTypes, ObjectTypes, WorkerTypes,
             ClientTypes
  <2>8. CASE job[cur].status \notin Active
    <3>1. pc' = "idle" /\ cur' = NoJob /\ UNCHANGED <<idx, denied, tally, seen>>
      BY <1>18, <2>8 DEF BeginProcessing
    <3> QED
      BY <2>1, <2>2, <2>6, <3>1, IngestAssumption
         DEF PageStep, Steps, Escapable, TypeOK, RowTypes, ObjectTypes, WorkerTypes,
             ClientTypes
  <2> QED
    BY <2>7, <2>8
<1>19. ASSUME NextPage PROVE TypeOK'
  <2>1. idx \in Pages /\ idx + 1 \in 1..(MaxPages + 1)
    BY <1>19, IngestAssumption DEF NextPage, TypeOK, WorkerTypes, Pages
  <2>2. pc' \in {"next", "cleanup", "skip", "quota"} /\ (pc' # "next" => idx' = idx)
    BY <1>19 DEF NextPage
  <2> QED
    BY <1>19, <2>1, <2>2
       DEF NextPage, PageStep, Steps, Escapable, TypeOK, RowTypes, ObjectTypes,
           WorkerTypes, ClientTypes
<1>20. ASSUME PagesDone PROVE TypeOK'
  BY <1>20
     DEF PagesDone, Steps, Escapable, PageStep, TypeOK, RowTypes, ObjectTypes,
         WorkerTypes, ClientTypes
<1>21. ASSUME CheckOpsQuota PROVE TypeOK'
  BY <1>21
     DEF CheckOpsQuota, Steps, Escapable, PageStep, TypeOK, RowTypes, ObjectTypes,
         WorkerTypes, ClientTypes
<1>22. ASSUME SkipPage PROVE TypeOK'
  BY <1>22, PageStatusType, TallyType
     DEF SkipPage, Steps, Escapable, PageStep, TypeOK, RowTypes, ObjectTypes,
         WorkerTypes, ClientTypes
<1>23. ASSUME MarkPageProcessing PROVE TypeOK'
  BY <1>23, PageStatusType
     DEF MarkPageProcessing, Steps, Escapable, PageStep, TypeOK, RowTypes,
         ObjectTypes, WorkerTypes, ClientTypes
<1>24. ASSUME NEW u \in Urls, NEW h \in Hashes, RenderUrl(u, h) PROVE TypeOK'
  BY <1>24
     DEF RenderUrl, Steps, Escapable, PageStep, TypeOK, RowTypes, ObjectTypes,
         WorkerTypes, ClientTypes
<1>25. ASSUME NEW h \in Hashes, ConvertFile(h) PROVE TypeOK'
  BY <1>25
     DEF ConvertFile, Steps, Escapable, PageStep, TypeOK, RowTypes, ObjectTypes,
         WorkerTypes, ClientTypes
<1>26. ASSUME RenderFails PROVE TypeOK'
  BY <1>26
     DEF RenderFails, Steps, Escapable, PageStep, TypeOK, RowTypes, ObjectTypes,
         WorkerTypes, ClientTypes
<1>27. ASSUME StagePage PROVE TypeOK'
  BY <1>27
     DEF StagePage, Blobs, Steps, Escapable, PageStep, TypeOK, RowTypes, ObjectTypes,
         WorkerTypes, ClientTypes
<1>28. ASSUME CompletePage PROVE TypeOK'
  <2> DEFINE dup == IsDuplicate(rendered)
             row == [status |-> "completed", hash |-> rendered.hash, dup |-> dup,
                     chunks |-> IF dup THEN 0 ELSE ChunksOf[rendered.hash]]
  <2>1. cur \in Jobs /\ idx \in Pages /\ rendered.hash \in Hashes
    BY <1>28, IngestAssumption DEF CompletePage, TypeOK, WorkerTypes, PageStep
  <2>2. dup \in BOOLEAN
    BY DEF IsDuplicate
  <2>3. row \in PageRow
    <3>1. ChunksOf[rendered.hash] \in Nat
      BY <2>1, IngestAssumption
    <3> HIDE DEF dup
    <3> QED
      BY <2>1, <2>2, <3>1 DEF PageRow
  <2>4. page' \in [Jobs -> [Pages -> PageRow]]
    <3>1. page' = [page EXCEPT ![cur][idx] = row]
      BY <1>28 DEF CompletePage
    <3> HIDE DEF row
    <3> QED
      BY <2>1, <2>3, <3>1 DEF TypeOK, RowTypes
  <2>5. seen' \in [urls : SUBSET Urls, hashes : SUBSET (Hashes \cup {NoHash})]
    BY <1>28, <2>1 DEF CompletePage, SeenWith, TypeOK, WorkerTypes
  <2>6. tally' \in Tally
    BY <1>28, TallyType DEF CompletePage, TypeOK, WorkerTypes
  <2>7. pc' \in {"sync", "bill"}
    BY <1>28 DEF CompletePage, AfterComplete
  <2>8. UNCHANGED <<job, billed, objVars, queue, cur, idx, denied, rendered, spool,
                    clientVars, envVars>>
    BY <1>28 DEF CompletePage
  <2>9. pc # "idle" /\ cur # NoJob
    BY <1>28, <2>1, IngestAssumption DEF CompletePage
  <2> HIDE DEF dup, row
  <2> QED
    BY <2>1, <2>4, <2>5, <2>6, <2>7, <2>8, <2>9
       DEF PageStep, Steps, Escapable, TypeOK, RowTypes, ObjectTypes, WorkerTypes,
           ClientTypes
<1>29. ASSUME BillPage PROVE TypeOK'
  <2>1. cur \in Jobs /\ idx \in Pages
    BY <1>29, IngestAssumption DEF BillPage, TypeOK, WorkerTypes, PageStep
  <2>2. page[cur][idx].chunks \in Nat
    BY <2>1 DEF TypeOK, RowTypes, PageRow
  <2>3. tally' \in Tally
    BY <1>29, <2>2, TallyType DEF BillPage, TypeOK, WorkerTypes
  <2> QED
    BY <1>29, <2>1, <2>3
       DEF BillPage, PageStep, Steps, Escapable, TypeOK, RowTypes, ObjectTypes,
           WorkerTypes, ClientTypes
<1>30. ASSUME FailPage PROVE TypeOK'
  BY <1>30, PageStatusType, TallyType
     DEF FailPage, Steps, Escapable, PageStep, TypeOK, RowTypes, ObjectTypes,
         WorkerTypes, ClientTypes
<1>31. ASSUME SyncProgress PROVE TypeOK'
  BY <1>31, ProgressType, IngestAssumption
     DEF SyncProgress, Steps, Escapable, PageStep, NoRender, Pages, TypeOK, RowTypes,
         ObjectTypes, WorkerTypes, ClientTypes
<1>32. ASSUME Assemble PROVE TypeOK'
  <2>1. tally' \in Tally
    BY <1>32, PageSetSize DEF Assemble, PagesIn, Tally
  <2>2. spool' \in [Pages -> Blobs] /\ 1 \in 1..(MaxPages + 1)
    BY <1>32, IngestAssumption DEF Assemble, Blobs
  <2>3. pc' \in {"cleanup", "fail_all", "stream"}
    BY <1>32 DEF Assemble
  <2> QED
    BY <1>32, <2>1, <2>2, <2>3
       DEF Assemble, PageStep, Steps, Escapable, TypeOK, RowTypes, ObjectTypes,
           WorkerTypes, ClientTypes
<1>33. ASSUME StreamPage PROVE TypeOK'
  <2>1. cur \in Jobs /\ idx \in Pages /\ idx + 1 \in 1..(MaxPages + 1)
    BY <1>33, IngestAssumption DEF StreamPage, TypeOK, WorkerTypes, Pages
  <2>2. page[cur][idx].chunks \in Nat /\ staged[cur][idx] \in Blobs
    BY <2>1 DEF TypeOK, RowTypes, ObjectTypes, PageRow
  <2>3. tally' \in Tally
    <3>1. tally \in Tally
      BY DEF TypeOK, WorkerTypes
    <3>2. \/ tally' = tally
          \/ tally' = [tally EXCEPT !.processed = @ + 1,
                                   !.chunks = @ + page[cur][idx].chunks]
      BY <1>33 DEF StreamPage
    <3> QED
      BY <2>2, <3>1, <3>2, TallyType
  <2>4. spool' \in [Pages -> Blobs]
    BY <1>33, <2>2 DEF StreamPage, TypeOK, WorkerTypes
  <2> QED
    BY <1>33, <2>1, <2>3, <2>4
       DEF StreamPage, PageStep, Steps, TypeOK, RowTypes, ObjectTypes, WorkerTypes,
           ClientTypes
<1>34. ASSUME DemotePage PROVE TypeOK'
  <2>1. cur \in Jobs /\ idx \in Pages /\ idx + 1 \in 1..(MaxPages + 1)
    BY <1>34, IngestAssumption DEF DemotePage, TypeOK, WorkerTypes, Pages
  <2>2. page' \in [Jobs -> [Pages -> PageRow]]
    BY <1>34, <2>1, PageStatusType DEF DemotePage, TypeOK, RowTypes
  <2>3. tally' \in Tally
    BY <1>34, TallyType DEF DemotePage, TypeOK, WorkerTypes
  <2>4. faults' \in 0..MaxFaults
    BY <1>34, IngestAssumption DEF DemotePage, Fault, NoFault, TypeOK, ClientTypes
  <2> QED
    BY <1>34, <2>1, <2>2, <2>3, <2>4
       DEF DemotePage, PageStep, Steps, TypeOK, RowTypes, ObjectTypes, WorkerTypes,
           ClientTypes
<1>35. ASSUME StreamDone PROVE TypeOK'
  BY <1>35
     DEF StreamDone, Steps, Escapable, PageStep, TypeOK, RowTypes, ObjectTypes,
         WorkerTypes, ClientTypes
<1>36. ASSUME FailAll PROVE TypeOK'
  BY <1>36, TransitionType
     DEF FailAll, FailJob, Statuses, Terminal, Steps, Escapable, PageStep, TypeOK,
         RowTypes, ObjectTypes, WorkerTypes, ClientTypes
<1>37. ASSUME UploadFinal PROVE TypeOK'
  BY <1>37
     DEF UploadFinal, Steps, Escapable, PageStep, TypeOK, RowTypes, ObjectTypes,
         WorkerTypes, ClientTypes
<1>38. ASSUME FinishJob PROVE TypeOK'
  BY <1>38, ProgressType
     DEF FinishJob, AfterFinish, Steps, Escapable, PageStep, TypeOK, RowTypes,
         ObjectTypes, WorkerTypes, ClientTypes
<1>39. ASSUME DeliverWebhook PROVE TypeOK'
  BY <1>39
     DEF DeliverWebhook, Steps, Escapable, PageStep, TypeOK, RowTypes, ObjectTypes,
         WorkerTypes, ClientTypes
<1>40. ASSUME SetWebhookDelivered PROVE TypeOK'
  BY <1>40, FieldType
     DEF SetWebhookDelivered, Steps, Escapable, PageStep, TypeOK, RowTypes,
         ObjectTypes, WorkerTypes, ClientTypes
<1>41. ASSUME DiscardFinal PROVE TypeOK'
  <2>1. NoFinal \in [there : BOOLEAN, parts : [Pages -> Blobs]]
    BY DEF NoFinal, Blobs
  <2>2. final' \in [Jobs -> [there : BOOLEAN, parts : [Pages -> Blobs]]]
    BY <1>41, <2>1 DEF DiscardFinal, TypeOK, ObjectTypes
  <2>3. faults' \in 0..MaxFaults
    BY <1>41, IngestAssumption DEF DiscardFinal, Fault, NoFault, TypeOK, ClientTypes
  <2> QED
    BY <1>41, <2>2, <2>3
       DEF DiscardFinal, PageStep, Steps, Escapable, TypeOK, RowTypes, ObjectTypes,
           WorkerTypes, ClientTypes
<1>42. ASSUME Unstage PROVE TypeOK'
  <2>1. staged' \in [Jobs -> [Pages -> Blobs]]
    BY <1>42 DEF Unstage, TypeOK, ObjectTypes, Blobs
  <2>2. faults' \in 0..MaxFaults
    BY <1>42, IngestAssumption DEF Unstage, Fault, NoFault, TypeOK, ClientTypes
  <2> QED
    BY <1>42, <2>1, <2>2
       DEF Unstage, PageStep, Steps, Escapable, TypeOK, RowTypes, ObjectTypes,
           WorkerTypes, ClientTypes
<1>43. ASSUME CleanupSourceFiles PROVE TypeOK'
  BY <1>43, IngestAssumption
     DEF CleanupSourceFiles, Fault, NoFault, SourcesOf, Steps, Escapable, PageStep,
         TypeOK, RowTypes, ObjectTypes, WorkerTypes, ClientTypes
<1>44. ASSUME PageFaults PROVE TypeOK'
  BY <1>44, IngestAssumption
     DEF PageFaults, Fault, Steps, Escapable, PageStep, TypeOK, RowTypes, ObjectTypes,
         WorkerTypes, ClientTypes
<1>45. ASSUME JobFaults PROVE TypeOK'
  BY <1>45, IngestAssumption
     DEF JobFaults, Fault, Steps, Escapable, PageStep, TypeOK, RowTypes, ObjectTypes,
         WorkerTypes, ClientTypes
<1>46. ASSUME Crash PROVE TypeOK'
  <2>1. ZeroTally \in Tally /\ 1 \in 1..(MaxPages + 1) /\ <<>> \in Seq(Jobs)
    BY IngestAssumption DEF ZeroTally, Tally
  <2>2. submit' \in [Jobs -> InSubmit \cup {"idle", "done", "failed", "lost", "cut"}]
    BY <1>46 DEF Crash, TypeOK, ClientTypes, InSubmit
  <2>3. crashes' \in 0..MaxCrashes
    BY <1>46, IngestAssumption DEF Crash, TypeOK, ClientTypes
  <2> QED
    BY <1>46, <2>1, <2>2, <2>3
       DEF Crash, NothingSeen, NoRender, Blobs, PageStep, Steps, Escapable, TypeOK,
           RowTypes, ObjectTypes, WorkerTypes, ClientTypes
<1>47. ASSUME Restart PROVE TypeOK'
  <2>1. queue' \in Seq(Jobs)
    <3>1. ActiveJobs \subseteq Jobs /\ <<>> \in Seq(Jobs)
      BY DEF ActiveJobs
    <3>0. Cardinality(ActiveJobs) \in Nat
      BY <3>1, IngestAssumption, FS_Subset, FS_CardinalityType
    <3>2. ASSUME NEW order \in [1..Cardinality(ActiveJobs) -> ActiveJobs],
                 ActiveJobs = {order[i] : i \in DOMAIN order}
          PROVE  order \in Seq(Jobs)
      BY <3>0, <3>1, <3>2
    <3> QED
      BY <1>47, <3>1, <3>2 DEF Restart
  <2>2. faults' \in 0..MaxFaults
    BY <1>47, IngestAssumption DEF Restart, Fault, NoFault, TypeOK, ClientTypes
  <2> QED
    BY <1>47, <2>1, <2>2
       DEF Restart, PageStep, Steps, Escapable, TypeOK, RowTypes, ObjectTypes,
           WorkerTypes, ClientTypes
<1>52. ASSUME WebhookFaults PROVE TypeOK'
  BY <1>52, IngestAssumption
     DEF WebhookFaults, Fault, Steps, Escapable, PageStep, TypeOK, RowTypes, ObjectTypes,
         WorkerTypes, ClientTypes
<1>48. CASE UNCHANGED vars
  BY <1>48 DEF vars, TypeOK, RowTypes, ObjectTypes, WorkerTypes, ClientTypes
<1>49. CASE \E j \in Jobs : \/ SubmitStep(j) \/ SubmitFault(j) \/ TimeOutSubmit(j) \/ CancelJob(j)
                            \/ RetryWebhook(j) \/ SetRetryDelivered(j)
  BY <1>49, <1>1, <1>2, <1>5, <1>6, <1>3, <1>4, <1>7, <1>8, <1>9, <1>10, <1>53 DEF SubmitStep
<1>50. CASE RunStep
  BY <1>50, <1>11, <1>12, <1>13, <1>14, <1>15, <1>16, <1>17, <1>18, <1>19, <1>20,
     <1>21, <1>22, <1>23, <1>24, <1>25, <1>26, <1>27, <1>28, <1>29, <1>30, <1>31
     DEF RunStep
<1>51. CASE AssembleStep
  BY <1>51, <1>32, <1>33, <1>34, <1>35, <1>36, <1>37, <1>38, <1>39, <1>40, <1>41,
     <1>42, <1>43
     DEF AssembleStep
<1> QED
  BY <1>44, <1>45, <1>46, <1>47, <1>48, <1>49, <1>50, <1>51, <1>52 DEF Next, WorkerStep

\* TypeCorrect: in every reachable state every row, object and local variable
\* keeps its shape, and the worker's page index is a page whenever it is used.
THEOREM TypeCorrect == Spec => []TypeOK
BY TypeInit, TypeStep, PTL DEF Spec

-----------------------------------------------------------------------------
(* What the store calls do to statuses *)

\* A transition within the lifecycle sets the status it names, and only then.
LEMMA TransitionStatuses ==
    ASSUME job \in [Jobs -> JobRow], NEW j \in Jobs, NEW s, NEW F,
           TransitionStatus(j, s, F)
    PROVE  \A k \in Jobs : job'[k].status = IF k = j /\ job[j].status \in F
                                            THEN s ELSE job[k].status
<1>1. ASSUME NEW r \in JobRow PROVE [r EXCEPT !.status = s].status = s
  BY DEF JobRow
<1>2. ASSUME NEW k \in Jobs
      PROVE  job'[k].status = IF k = j /\ job[j].status \in F
                              THEN s ELSE job[k].status
  <2>1. job[k] \in JobRow
    OBVIOUS
  <2>2. job' = IF job[j].status \in F THEN [job EXCEPT ![j].status = s] ELSE job
    BY DEF TransitionStatus
  <2> QED
    BY <1>1, <2>1, <2>2
<1> QED
  BY <1>2

\* Progress, discovery count and webhook flag leave every status alone.
LEMMA StatusesKept ==
    ASSUME job \in [Jobs -> JobRow], NEW j \in Jobs, NEW t, NEW n, NEW h,
           \/ UpdateJobProgress(j, t) \/ SetPagesDiscovered(j, n)
           \/ job' = [job EXCEPT ![j].hook = h]
    PROVE  \A k \in Jobs : job'[k].status = job[k].status
<1>1. ASSUME NEW r \in JobRow
      PROVE  /\ [r EXCEPT !.discovered = n].status = r.status
             /\ [r EXCEPT !.hook = h].status = r.status
             /\ [r EXCEPT !.processed = t.processed, !.failed = t.failed,
                          !.chunks = t.chunks].status = r.status
  BY DEF JobRow
<1>2. CASE UpdateJobProgress(j, t)
  BY <1>1, <1>2 DEF UpdateJobProgress
<1>3. CASE SetPagesDiscovered(j, n)
  BY <1>1, <1>3 DEF SetPagesDiscovered
<1>4. CASE job' = [job EXCEPT ![j].hook = h]
  BY <1>1, <1>4
<1> QED
  BY <1>2, <1>3, <1>4

\* complete_job completes an active job and touches no other.
LEMMA CompleteStatuses ==
    ASSUME job \in [Jobs -> JobRow], NEW j \in Jobs, NEW t, CompleteJob(j, t)
    PROVE  \A k \in Jobs : job'[k].status = IF k = j /\ job[j].status \in Active
                                            THEN "completed" ELSE job[k].status
<1>1. ASSUME NEW r \in JobRow
      PROVE  [r EXCEPT !.status = "completed", !.output = TRUE,
                       !.processed = t.processed, !.failed = t.failed,
                       !.chunks = t.chunks].status = "completed"
  BY DEF JobRow
<1> QED
  BY <1>1 DEF CompleteJob

\* fail_page, skip_page and mark_page_processing write one page's status.
LEMMA PageStatusEffect ==
    ASSUME page \in [Jobs -> [Pages -> PageRow]], NEW j \in Jobs, NEW p \in Pages,
           NEW s, SetPageStatus(j, p, s)
    PROVE  /\ page'[j][p].status = s
           /\ \A k \in Jobs, q \in Pages :
                 k # j \/ q # p => page'[k][q] = page[k][q]
<1>1. ASSUME NEW r \in PageRow PROVE [r EXCEPT !.status = s].status = s
  BY DEF PageRow
<1>2. page' = [page EXCEPT ![j] = [page[j] EXCEPT ![p] =
                  [page[j][p] EXCEPT !.status = s]]]
  BY DEF SetPageStatus
<1> QED
  BY <1>1, <1>2

\* create_job makes one queued row of an id that had none.
LEMMA CreateStatuses ==
    ASSUME TypeOK, NoRowBeforeCreate, NEW j \in Jobs, CreateJob(j)
    PROVE  /\ job[j].status = "none" /\ submit[j] \in {"accepted", "staged"}
           /\ \A k \in Jobs : job'[k].status = IF k = j THEN "queued"
                                               ELSE job[k].status
<1>1. job[j].status = "none" /\ submit[j] \in {"accepted", "staged"}
  BY DEF CreateJob, NoRowBeforeCreate
<1>2. [job[j] EXCEPT !.status = "queued"].status = "queued"
  BY DEF TypeOK, RowTypes, JobRow
<1> QED
  BY <1>1, <1>2 DEF CreateJob, TypeOK, RowTypes

-----------------------------------------------------------------------------
(* The inductive invariant *)

\* StepInit: the worker starts idle and nothing is staged or owed.
LEMMA StepInit == Init => StepInv
BY DEF Init, NoRow, NoPage, StepInv, NoRowBeforeCreate, StatusAtStep, PageOwed,
       StagedBeforeComplete, StagedUnlessTerminal, PageStep

\* StepKept: every step of the system keeps the worker's standing.
LEMMA StepKept == TypeOK /\ TypeOK' /\ StepInv /\ [Next]_vars => StepInv'
<1> SUFFICES ASSUME TypeOK, TypeOK', StepInv, [Next]_vars PROVE StepInv'
  OBVIOUS
<1> USE DEF StepInv, rowVars, objVars, localVars, clientVars, envVars
<1>1. ASSUME NEW j \in Jobs, AcceptSubmit(j) PROVE StepInv'
  BY <1>1, IngestAssumption
     DEF AcceptSubmit, NoRowBeforeCreate, StatusAtStep, PageOwed,
         StagedBeforeComplete, StagedUnlessTerminal, Active, Terminal, PageStep,
         IsDuplicate
<1>2. ASSUME NEW j \in Jobs, CreateJob(j) PROVE StepInv'
  <2>1. /\ job[j].status = "none" /\ submit[j] \in {"accepted", "staged"}
        /\ UNCHANGED <<page, staged, pc, cur, idx, rendered, seen>>
        /\ submit' = [submit EXCEPT ![j] = "created"]
    BY <1>2, CreateStatuses DEF CreateJob
  <2>2. \A k \in Jobs : job'[k].status = IF k = j THEN "queued" ELSE job[k].status
    BY <1>2, CreateStatuses
  <2>3. NoRowBeforeCreate'
    BY <2>1, <2>2 DEF NoRowBeforeCreate, TypeOK, ClientTypes
  <2>4. StatusAtStep'
    <3>1. cur = j => pc \notin PageStep \cup {"next", "assemble", "stream", "fail_all",
                       "upload", "finish", "webhook", "hook_ok", "hook_failed",
                       "discard", "unstage"}
      BY <2>1 DEF StatusAtStep
    <3>2. pc # "idle" => cur \in Jobs
      BY DEF TypeOK, WorkerTypes
    <3> QED
      BY <2>1, <2>2, <3>1, <3>2 DEF StatusAtStep, PageStep
  <2>5. PageOwed'
    BY <2>1 DEF PageOwed
  <2>6. StagedBeforeComplete'
    BY <2>1 DEF StagedBeforeComplete, IsDuplicate
  <2>7. StagedUnlessTerminal'
    BY <2>1, <2>2 DEF StagedUnlessTerminal, Terminal
  <2> QED
    BY <2>3, <2>4, <2>5, <2>6, <2>7
<1>3. ASSUME NEW j \in Jobs, NEW p \in Pages, StageUpload(j, p) PROVE StepInv'
  BY <1>3, IngestAssumption
     DEF StageUpload, NoRowBeforeCreate, StatusAtStep, PageOwed, StagedBeforeComplete,
         StagedUnlessTerminal, Active, Terminal, PageStep, IsDuplicate
<1>4. ASSUME NEW j \in Jobs, NEW p \in Pages, ScheduleFileCleanup(j, p) PROVE StepInv'
  BY <1>4, IngestAssumption
     DEF ScheduleFileCleanup, NoRowBeforeCreate, StatusAtStep, PageOwed,
         StagedBeforeComplete, StagedUnlessTerminal, Active, Terminal, PageStep,
         IsDuplicate
<1>5. ASSUME NEW j \in Jobs, CreateFilePages(j) PROVE StepInv'
  BY <1>5, IngestAssumption
     DEF CreateFilePages, NoRowBeforeCreate, StatusAtStep, PageOwed,
         StagedBeforeComplete, StagedUnlessTerminal, Active, Terminal, PageStep,
         NoPage, IsDuplicate, TypeOK, RowTypes, WorkerTypes
<1>6. ASSUME NEW j \in Jobs, Submit(j) PROVE StepInv'
  BY <1>6, IngestAssumption
     DEF Submit, NoRowBeforeCreate, StatusAtStep, PageOwed, StagedBeforeComplete,
         StagedUnlessTerminal, Active, Terminal, PageStep, IsDuplicate
<1>7. ASSUME NEW j \in Jobs, SubmitFault(j) PROVE StepInv'
  BY <1>7, IngestAssumption
     DEF SubmitFault, NoRowBeforeCreate, StatusAtStep, PageOwed, StagedBeforeComplete,
         StagedUnlessTerminal, Active, Terminal, PageStep, InSubmit, IsDuplicate
<1>53. ASSUME NEW j \in Jobs, TimeOutSubmit(j) PROVE StepInv'
  BY <1>53, IngestAssumption
     DEF TimeOutSubmit, NoRowBeforeCreate, StatusAtStep, PageOwed, StagedBeforeComplete,
         StagedUnlessTerminal, Active, Terminal, PageStep, IsDuplicate, TypeOK, ClientTypes
<1>8. ASSUME NEW j \in Jobs, CancelJob(j) PROVE StepInv'
  <2>2. \A k \in Jobs : job'[k].status = IF k = j /\ job[j].status \in Active
                                        THEN "canceled" ELSE job[k].status
    BY <1>8, TransitionStatuses DEF CancelJob, TypeOK, RowTypes
  <2>3. NoRowBeforeCreate' /\ StagedUnlessTerminal'
    BY <1>8, <2>2, IngestAssumption
       DEF CancelJob, NoRowBeforeCreate, StagedUnlessTerminal, Active, Terminal,
           PageStep
  <2>4. StatusAtStep' /\ PageOwed' /\ StagedBeforeComplete'
    BY <1>8, <2>2, IngestAssumption
       DEF CancelJob, StatusAtStep, PageOwed, StagedBeforeComplete, Active, Terminal,
           PageStep, IsDuplicate, TypeOK, WorkerTypes
  <2> QED
    BY <2>3, <2>4
<1>9. ASSUME NEW j \in Jobs, RetryWebhook(j) PROVE StepInv'
  BY <1>9, IngestAssumption
     DEF RetryWebhook, NoRowBeforeCreate, StatusAtStep, PageOwed,
         StagedBeforeComplete, StagedUnlessTerminal, Active, Terminal, PageStep,
         IsDuplicate
<1>10. ASSUME NEW j \in Jobs, SetRetryDelivered(j) PROVE StepInv'
  <2>1. \A k \in Jobs : job'[k].status = job[k].status
    BY <1>10, StatusesKept DEF SetRetryDelivered, TypeOK, RowTypes
  <2>2. UNCHANGED <<page, objVars, pc, cur, idx, localVars, submit>>
    BY <1>10 DEF SetRetryDelivered
  <2>3. pc # "idle" => cur \in Jobs
    BY DEF TypeOK, WorkerTypes
  <2> QED
    BY <2>1, <2>2, <2>3
       DEF NoRowBeforeCreate, StatusAtStep, PageOwed, StagedBeforeComplete,
           StagedUnlessTerminal, PageStep, IsDuplicate
<1>11. ASSUME StartJob PROVE StepInv'
  BY <1>11, IngestAssumption
     DEF StartJob, NoRowBeforeCreate, StatusAtStep, PageOwed, StagedBeforeComplete,
         StagedUnlessTerminal, Active, Terminal, PageStep, IsDuplicate
<1>12. ASSUME LoadPages PROVE StepInv'
  <2>1. cur \in Jobs
    BY <1>12, IngestAssumption DEF LoadPages, TypeOK, WorkerTypes, PageStep, Escapable
  <2> QED
    BY <1>12, <2>1, IngestAssumption
       DEF LoadPages, NoRowBeforeCreate, StatusAtStep, PageOwed, StagedBeforeComplete,
           StagedUnlessTerminal, Active, Terminal, PageStep, IsDuplicate
<1>13. ASSUME SubscriptionUnavailable PROVE StepInv'
  <2>1. cur \in Jobs
    BY <1>13, IngestAssumption
       DEF SubscriptionUnavailable, TypeOK, WorkerTypes, PageStep, Escapable
  <2>2. \A k \in Jobs : job'[k].status = IF k = cur /\ job[cur].status \in Active
                                        THEN "failed" ELSE job[k].status
    BY <1>13, <2>1, TransitionStatuses
       DEF SubscriptionUnavailable, TypeOK, RowTypes, FailJob
  <2> QED
    BY <1>13, <2>1, <2>2, IngestAssumption
       DEF SubscriptionUnavailable, NoRowBeforeCreate, StatusAtStep, PageOwed,
           StagedBeforeComplete, StagedUnlessTerminal, Active, Terminal, PageStep,
           IsDuplicate
<1>14. ASSUME BeginDiscovery PROVE StepInv'
  <2>1. cur \in Jobs
    BY <1>14, IngestAssumption
       DEF BeginDiscovery, TypeOK, WorkerTypes, PageStep, Escapable
  <2>2. \A k \in Jobs : job'[k].status =
            IF k = cur /\ job[cur].status \in {"queued", "discovering"}
            THEN "discovering" ELSE job[k].status
    BY <1>14, <2>1, TransitionStatuses DEF BeginDiscovery, TypeOK, RowTypes
  <2> QED
    BY <1>14, <2>1, <2>2, IngestAssumption
       DEF BeginDiscovery, NoRowBeforeCreate, StatusAtStep, PageOwed,
           StagedBeforeComplete, StagedUnlessTerminal, Active, Terminal, PageStep,
           IsDuplicate
<1>15. ASSUME NEW n \in Pages, DiscoverPages(n) PROVE StepInv'
  <2>1. cur \in Jobs
    BY <1>15, IngestAssumption
       DEF DiscoverPages, TypeOK, WorkerTypes, PageStep, Escapable
  <2> QED
    BY <1>15, <2>1, IngestAssumption
       DEF DiscoverPages, NoRowBeforeCreate, StatusAtStep, PageOwed,
           StagedBeforeComplete, StagedUnlessTerminal, Active, Terminal, PageStep,
           NoPage, IsDuplicate
<1>16. ASSUME DiscoveryFails PROVE StepInv'
  <2>1. cur \in Jobs
    BY <1>16, IngestAssumption
       DEF DiscoveryFails, TypeOK, WorkerTypes, PageStep, Escapable
  <2>2. \A k \in Jobs : job'[k].status = IF k = cur /\ job[cur].status \in Active
                                        THEN "failed" ELSE job[k].status
    BY <1>16, <2>1, TransitionStatuses DEF DiscoveryFails, TypeOK, RowTypes, FailJob
  <2> QED
    BY <1>16, <2>1, <2>2, IngestAssumption
       DEF DiscoveryFails, NoRowBeforeCreate, StatusAtStep, PageOwed,
           StagedBeforeComplete, StagedUnlessTerminal, Active, Terminal, PageStep,
           IsDuplicate
<1>17. ASSUME RecordDiscovered PROVE StepInv'
  <2>1. cur \in Jobs
    BY <1>17, IngestAssumption
       DEF RecordDiscovered, TypeOK, WorkerTypes, PageStep, Escapable
  <2>2. \A k \in Jobs : job'[k].status = job[k].status
    BY <1>17, <2>1, StatusesKept DEF RecordDiscovered, TypeOK, RowTypes
  <2> QED
    BY <1>17, <2>1, <2>2, IngestAssumption
       DEF RecordDiscovered, NoRowBeforeCreate, StatusAtStep, PageOwed,
           StagedBeforeComplete, StagedUnlessTerminal, Active, Terminal, PageStep,
           IsDuplicate
<1>18. ASSUME BeginProcessing PROVE StepInv'
  <2>1. cur \in Jobs
    BY <1>18, IngestAssumption
       DEF BeginProcessing, TypeOK, WorkerTypes, PageStep, Escapable
  <2>2. \A k \in Jobs : job'[k].status = IF k = cur /\ job[cur].status \in Active
                                        THEN "processing" ELSE job[k].status
    BY <1>18, <2>1, TransitionStatuses DEF BeginProcessing, TypeOK, RowTypes
  <2> QED
    BY <1>18, <2>1, <2>2, IngestAssumption
       DEF BeginProcessing, NoRowBeforeCreate, StatusAtStep, PageOwed,
           StagedBeforeComplete, StagedUnlessTerminal, Active, Terminal, PageStep,
           IsDuplicate
<1>19. ASSUME NextPage PROVE StepInv'
  <2>1. cur \in Jobs /\ idx \in Pages
    BY <1>19, IngestAssumption
       DEF NextPage, TypeOK, WorkerTypes, PageStep, Escapable, Pages
  <2> QED
    BY <1>19, <2>1, IngestAssumption
       DEF NextPage, NoRowBeforeCreate, StatusAtStep, PageOwed, StagedBeforeComplete,
           StagedUnlessTerminal, Active, Terminal, PageStep, Resumable, IsDuplicate
<1>20. ASSUME PagesDone PROVE StepInv'
  <2>1. cur \in Jobs
    BY <1>20, IngestAssumption DEF PagesDone, TypeOK, WorkerTypes, PageStep, Escapable
  <2> QED
    BY <1>20, <2>1, IngestAssumption
       DEF PagesDone, NoRowBeforeCreate, StatusAtStep, PageOwed, StagedBeforeComplete,
           StagedUnlessTerminal, Active, Terminal, PageStep, IsDuplicate
<1>21. ASSUME CheckOpsQuota PROVE StepInv'
  <2>1. cur \in Jobs
    BY <1>21, IngestAssumption
       DEF CheckOpsQuota, TypeOK, WorkerTypes, PageStep, Escapable
  <2> QED
    BY <1>21, <2>1, IngestAssumption
       DEF CheckOpsQuota, NoRowBeforeCreate, StatusAtStep, PageOwed,
           StagedBeforeComplete, StagedUnlessTerminal, Active, Terminal, PageStep,
           IsDuplicate
<1>22. ASSUME SkipPage PROVE StepInv'
  <2>1. cur \in Jobs /\ idx \in Pages
    BY <1>22, IngestAssumption DEF SkipPage, TypeOK, WorkerTypes, PageStep, Escapable
  <2>2. /\ page'[cur][idx].status = "skipped"
        /\ \A k \in Jobs, r \in Pages :
              k # cur \/ r # idx => page'[k][r] = page[k][r]
    BY <1>22, <2>1, PageStatusEffect DEF SkipPage, TypeOK, RowTypes
  <2> QED
    BY <1>22, <2>1, <2>2, IngestAssumption
       DEF SkipPage, NoRowBeforeCreate, StatusAtStep, PageOwed, StagedBeforeComplete,
           StagedUnlessTerminal, Active, Terminal, PageStep, IsDuplicate
<1>23. ASSUME MarkPageProcessing PROVE StepInv'
  <2>1. cur \in Jobs /\ idx \in Pages
    BY <1>23, IngestAssumption
       DEF MarkPageProcessing, TypeOK, WorkerTypes, PageStep, Escapable
  <2>2. /\ page'[cur][idx].status = "processing"
        /\ \A k \in Jobs, r \in Pages :
              k # cur \/ r # idx => page'[k][r] = page[k][r]
    BY <1>23, <2>1, PageStatusEffect DEF MarkPageProcessing, TypeOK, RowTypes
  <2> QED
    BY <1>23, <2>1, <2>2, IngestAssumption
       DEF MarkPageProcessing, NoRowBeforeCreate, StatusAtStep, PageOwed,
           StagedBeforeComplete, StagedUnlessTerminal, Active, Terminal, PageStep,
           IsDuplicate
<1>24. ASSUME NEW u \in Urls, NEW h \in Hashes, RenderUrl(u, h) PROVE StepInv'
  <2>1. cur \in Jobs
    BY <1>24, IngestAssumption DEF RenderUrl, TypeOK, WorkerTypes, PageStep, Escapable
  <2> QED
    BY <1>24, <2>1, IngestAssumption
       DEF RenderUrl, NoRowBeforeCreate, StatusAtStep, PageOwed, StagedBeforeComplete,
           StagedUnlessTerminal, Active, Terminal, PageStep, IsDuplicate
<1>25. ASSUME NEW h \in Hashes, ConvertFile(h) PROVE StepInv'
  <2>1. cur \in Jobs
    BY <1>25, IngestAssumption DEF ConvertFile, TypeOK, WorkerTypes, PageStep, Escapable
  <2> QED
    BY <1>25, <2>1, IngestAssumption
       DEF ConvertFile, NoRowBeforeCreate, StatusAtStep, PageOwed,
           StagedBeforeComplete, StagedUnlessTerminal, Active, Terminal, PageStep,
           IsDuplicate
<1>26. ASSUME RenderFails PROVE StepInv'
  <2>1. cur \in Jobs
    BY <1>26, IngestAssumption DEF RenderFails, TypeOK, WorkerTypes, PageStep, Escapable
  <2> QED
    BY <1>26, <2>1, IngestAssumption
       DEF RenderFails, NoRowBeforeCreate, StatusAtStep, PageOwed,
           StagedBeforeComplete, StagedUnlessTerminal, Active, Terminal, PageStep,
           IsDuplicate
<1>27. ASSUME StagePage PROVE StepInv'
  <2> DEFINE obj == IF IsDuplicate(rendered) THEN "blank" ELSE rendered.hash
  <2>1. /\ cur \in Jobs /\ idx \in Pages /\ pc = "stage" /\ pc' = "complete"
        /\ UNCHANGED <<job, page, submit, cur, idx, rendered, seen>>
        /\ staged' = [staged EXCEPT ![cur][idx] = obj]
    BY <1>27, IngestAssumption DEF StagePage, TypeOK, WorkerTypes, PageStep
  <2>2. /\ staged'[cur][idx] = obj
        /\ \A k \in Jobs, q \in Pages :
              k # cur \/ q # idx => staged'[k][q] = staged[k][q]
    <3> HIDE DEF obj
    <3> QED
      BY <2>1 DEF TypeOK, ObjectTypes
  <2>3. NoRowBeforeCreate'
    BY <2>1 DEF NoRowBeforeCreate
  <2>4. StatusAtStep'
    BY <2>1 DEF StatusAtStep, PageStep
  <2>5. PageOwed'
    BY <2>1 DEF PageOwed
  <2>6. StagedBeforeComplete'
    BY <2>1, <2>2 DEF StagedBeforeComplete, IsDuplicate
  <2>7. StagedUnlessTerminal'
    <3>1. page[cur][idx].status # "completed"
      BY <2>1 DEF PageOwed
    <3> HIDE DEF obj
    <3> QED
      BY <2>1, <2>2, <3>1 DEF StagedUnlessTerminal
  <2> QED
    BY <2>3, <2>4, <2>5, <2>6, <2>7
<1>28. ASSUME CompletePage PROVE StepInv'
  <2> DEFINE dup == IsDuplicate(rendered)
             row == [status |-> "completed", hash |-> rendered.hash, dup |-> dup,
                     chunks |-> IF dup THEN 0 ELSE ChunksOf[rendered.hash]]
  <2>1. /\ cur \in Jobs /\ idx \in Pages /\ pc = "complete" /\ pc' \in {"sync", "bill"}
        /\ UNCHANGED <<job, staged, submit, cur, idx>>
        /\ page' = [page EXCEPT ![cur][idx] = row]
    BY <1>28, IngestAssumption
       DEF CompletePage, AfterComplete, TypeOK, WorkerTypes, PageStep
  <2>2. /\ page'[cur][idx] = row
        /\ \A k \in Jobs, q \in Pages :
              k # cur \/ q # idx => page'[k][q] = page[k][q]
    <3> HIDE DEF row
    <3> QED
      BY <2>1 DEF TypeOK, RowTypes
  <2>3. NoRowBeforeCreate'
    BY <2>1 DEF NoRowBeforeCreate
  <2>4. StatusAtStep'
    BY <2>1 DEF StatusAtStep, PageStep
  <2>5. PageOwed' /\ StagedBeforeComplete'
    BY <2>1 DEF PageOwed, StagedBeforeComplete
  <2>6. StagedUnlessTerminal'
    <3>1. page'[cur][idx].dup = dup /\ page'[cur][idx].hash = rendered.hash
      BY <2>2
    <3>2. staged[cur][idx] = IF dup THEN "blank" ELSE rendered.hash
      BY <2>1 DEF StagedBeforeComplete
    <3> HIDE DEF row, dup
    <3> QED
      BY <2>1, <2>2, <3>1, <3>2 DEF StagedUnlessTerminal
  <2> QED
    BY <2>3, <2>4, <2>5, <2>6
<1>29. ASSUME BillPage PROVE StepInv'
  <2>1. cur \in Jobs /\ idx \in Pages
    BY <1>29, IngestAssumption DEF BillPage, TypeOK, WorkerTypes, PageStep, Escapable
  <2> QED
    BY <1>29, <2>1, IngestAssumption
       DEF BillPage, NoRowBeforeCreate, StatusAtStep, PageOwed, StagedBeforeComplete,
           StagedUnlessTerminal, Active, Terminal, PageStep, IsDuplicate
<1>30. ASSUME FailPage PROVE StepInv'
  <2>1. cur \in Jobs /\ idx \in Pages
    BY <1>30, IngestAssumption DEF FailPage, TypeOK, WorkerTypes, PageStep, Escapable
  <2>2. /\ page'[cur][idx].status = "failed"
        /\ \A k \in Jobs, r \in Pages :
              k # cur \/ r # idx => page'[k][r] = page[k][r]
    BY <1>30, <2>1, PageStatusEffect DEF FailPage, TypeOK, RowTypes
  <2> QED
    BY <1>30, <2>1, <2>2, IngestAssumption
       DEF FailPage, NoRowBeforeCreate, StatusAtStep, PageOwed, StagedBeforeComplete,
           StagedUnlessTerminal, Active, Terminal, PageStep, IsDuplicate
<1>31. ASSUME SyncProgress PROVE StepInv'
  <2>1. cur \in Jobs
    BY <1>31, IngestAssumption
       DEF SyncProgress, TypeOK, WorkerTypes, PageStep, Escapable
  <2>2. \A k \in Jobs : job'[k].status = job[k].status
    BY <1>31, <2>1, StatusesKept DEF SyncProgress, TypeOK, RowTypes
  <2> QED
    BY <1>31, <2>1, <2>2, IngestAssumption
       DEF SyncProgress, NoRowBeforeCreate, StatusAtStep, PageOwed,
           StagedBeforeComplete, StagedUnlessTerminal, Active, Terminal, PageStep,
           IsDuplicate
<1>32. ASSUME Assemble PROVE StepInv'
  <2>1. cur \in Jobs
    BY <1>32, IngestAssumption DEF Assemble, TypeOK, WorkerTypes, PageStep, Escapable
  <2> QED
    BY <1>32, <2>1, IngestAssumption
       DEF Assemble, NoRowBeforeCreate, StatusAtStep, PageOwed, StagedBeforeComplete,
           StagedUnlessTerminal, Active, Terminal, PageStep, IsDuplicate
<1>33. ASSUME StreamPage PROVE StepInv'
  <2>1. cur \in Jobs
    BY <1>33, IngestAssumption DEF StreamPage, TypeOK, WorkerTypes, PageStep, Escapable
  <2> QED
    BY <1>33, <2>1, IngestAssumption
       DEF StreamPage, NoRowBeforeCreate, StatusAtStep, PageOwed,
           StagedBeforeComplete, StagedUnlessTerminal, Active, Terminal, PageStep,
           IsDuplicate
<1>34. ASSUME DemotePage PROVE StepInv'
  <2>1. cur \in Jobs /\ idx \in Pages
    BY <1>34, IngestAssumption
       DEF DemotePage, TypeOK, WorkerTypes, PageStep, Escapable, Pages
  <2>2. /\ page'[cur][idx].status = "failed"
        /\ \A k \in Jobs, r \in Pages :
              k # cur \/ r # idx => page'[k][r] = page[k][r]
    BY <1>34, <2>1, PageStatusEffect DEF DemotePage, TypeOK, RowTypes
  <2> QED
    BY <1>34, <2>1, <2>2, IngestAssumption
       DEF DemotePage, NoRowBeforeCreate, StatusAtStep, PageOwed,
           StagedBeforeComplete, StagedUnlessTerminal, Active, Terminal, PageStep,
           IsDuplicate
<1>35. ASSUME StreamDone PROVE StepInv'
  <2>1. cur \in Jobs
    BY <1>35, IngestAssumption DEF StreamDone, TypeOK, WorkerTypes, PageStep, Escapable
  <2> QED
    BY <1>35, <2>1, IngestAssumption
       DEF StreamDone, NoRowBeforeCreate, StatusAtStep, PageOwed,
           StagedBeforeComplete, StagedUnlessTerminal, Active, Terminal, PageStep,
           IsDuplicate
<1>36. ASSUME FailAll PROVE StepInv'
  <2>1. cur \in Jobs
    BY <1>36, IngestAssumption DEF FailAll, TypeOK, WorkerTypes, PageStep, Escapable
  <2>2. \A k \in Jobs : job'[k].status = IF k = cur /\ job[cur].status \in Active
                                        THEN "failed" ELSE job[k].status
    BY <1>36, <2>1, TransitionStatuses DEF FailAll, TypeOK, RowTypes, FailJob
  <2> QED
    BY <1>36, <2>1, <2>2, IngestAssumption
       DEF FailAll, NoRowBeforeCreate, StatusAtStep, PageOwed, StagedBeforeComplete,
           StagedUnlessTerminal, Active, Terminal, PageStep, IsDuplicate
<1>37. ASSUME UploadFinal PROVE StepInv'
  <2>1. cur \in Jobs
    BY <1>37, IngestAssumption DEF UploadFinal, TypeOK, WorkerTypes, PageStep, Escapable
  <2> QED
    BY <1>37, <2>1, IngestAssumption
       DEF UploadFinal, NoRowBeforeCreate, StatusAtStep, PageOwed,
           StagedBeforeComplete, StagedUnlessTerminal, Active, Terminal, PageStep,
           IsDuplicate
<1>38. ASSUME FinishJob PROVE StepInv'
  <2>1. /\ cur \in Jobs /\ pc = "finish" /\ pc' = AfterFinish(cur)
        /\ UNCHANGED <<page, staged, submit, cur, idx, rendered, seen>>
    BY <1>38, IngestAssumption DEF FinishJob, TypeOK, WorkerTypes
  <2>2. \A k \in Jobs : job'[k].status = IF k = cur /\ job[cur].status \in Active
                                        THEN "completed" ELSE job[k].status
    BY <1>38, <2>1, CompleteStatuses DEF FinishJob, TypeOK, RowTypes
  <2>3. job[cur].status \in {"processing", "canceled"}
    BY <2>1 DEF StatusAtStep
  <2>4. NoRowBeforeCreate'
    BY <2>1, <2>2, <2>3 DEF NoRowBeforeCreate
  <2>5. StatusAtStep'
    <3>1. CASE job[cur].status = "processing"
      <4>1. job'[cur].status = "completed" /\ pc' \in {"webhook", "unstage"}
        BY <2>1, <2>2, <3>1 DEF AfterFinish, Active
      <4> QED
        BY <2>1, <4>1 DEF StatusAtStep, PageStep
    <3>2. CASE job[cur].status = "canceled"
      <4>1. job'[cur].status = "canceled" /\ pc' = "discard"
        BY <2>1, <2>2, <3>2 DEF AfterFinish, Active
      <4> QED
        BY <2>1, <4>1 DEF StatusAtStep, PageStep
    <3> QED
      BY <2>3, <3>1, <3>2
  <2>6. PageOwed' /\ StagedBeforeComplete'
    BY <2>1 DEF AfterFinish, PageOwed, StagedBeforeComplete
  <2>7. StagedUnlessTerminal'
    BY <2>1, <2>2 DEF StagedUnlessTerminal, Terminal
  <2> QED
    BY <2>4, <2>5, <2>6, <2>7
<1>39. ASSUME DeliverWebhook PROVE StepInv'
  <2>1. cur \in Jobs
    BY <1>39, IngestAssumption
       DEF DeliverWebhook, TypeOK, WorkerTypes, PageStep, Escapable
  <2> QED
    BY <1>39, <2>1, IngestAssumption
       DEF DeliverWebhook, NoRowBeforeCreate, StatusAtStep, PageOwed,
           StagedBeforeComplete, StagedUnlessTerminal, Active, Terminal, PageStep,
           IsDuplicate
<1>40. ASSUME SetWebhookDelivered PROVE StepInv'
  <2>1. cur \in Jobs
    BY <1>40, IngestAssumption
       DEF SetWebhookDelivered, TypeOK, WorkerTypes, PageStep, Escapable
  <2>2. \A k \in Jobs : job'[k].status = job[k].status
    BY <1>40, <2>1, StatusesKept DEF SetWebhookDelivered, TypeOK, RowTypes
  <2> QED
    BY <1>40, <2>1, <2>2, IngestAssumption
       DEF SetWebhookDelivered, NoRowBeforeCreate, StatusAtStep, PageOwed,
           StagedBeforeComplete, StagedUnlessTerminal, Active, Terminal, PageStep,
           IsDuplicate
<1>41. ASSUME DiscardFinal PROVE StepInv'
  <2>1. cur \in Jobs
    BY <1>41, IngestAssumption
       DEF DiscardFinal, TypeOK, WorkerTypes, PageStep, Escapable
  <2> QED
    BY <1>41, <2>1, IngestAssumption
       DEF DiscardFinal, NoRowBeforeCreate, StatusAtStep, PageOwed,
           StagedBeforeComplete, StagedUnlessTerminal, Active, Terminal, PageStep,
           IsDuplicate
<1>42. ASSUME Unstage PROVE StepInv'
  <2>1. /\ cur \in Jobs /\ pc = "unstage" /\ pc' = "cleanup"
        /\ UNCHANGED <<job, page, submit, cur, idx, rendered, seen>>
    BY <1>42, IngestAssumption DEF Unstage, TypeOK, WorkerTypes
  <2>2. \A k \in Jobs : k # cur => staged'[k] = staged[k]
    BY <1>42 DEF Unstage, TypeOK, ObjectTypes
  <2>3. job[cur].status \in Terminal
    BY <2>1 DEF StatusAtStep, Terminal
  <2>4. NoRowBeforeCreate'
    BY <2>1 DEF NoRowBeforeCreate
  <2>5. StatusAtStep' /\ PageOwed' /\ StagedBeforeComplete'
    BY <2>1 DEF StatusAtStep, PageOwed, StagedBeforeComplete, PageStep
  <2>6. StagedUnlessTerminal'
    BY <2>1, <2>2, <2>3 DEF StagedUnlessTerminal
  <2> QED
    BY <2>4, <2>5, <2>6
<1>43. ASSUME CleanupSourceFiles PROVE StepInv'
  <2>1. cur \in Jobs
    BY <1>43, IngestAssumption
       DEF CleanupSourceFiles, TypeOK, WorkerTypes, PageStep, Escapable
  <2> QED
    BY <1>43, <2>1, IngestAssumption
       DEF CleanupSourceFiles, NoRowBeforeCreate, StatusAtStep, PageOwed,
           StagedBeforeComplete, StagedUnlessTerminal, Active, Terminal, PageStep,
           IsDuplicate
<1>44. ASSUME PageFaults PROVE StepInv'
  <2>1. cur \in Jobs
    BY <1>44, IngestAssumption DEF PageFaults, TypeOK, WorkerTypes, PageStep, Escapable
  <2> QED
    BY <1>44, <2>1, IngestAssumption
       DEF PageFaults, NoRowBeforeCreate, StatusAtStep, PageOwed,
           StagedBeforeComplete, StagedUnlessTerminal, Active, Terminal, PageStep,
           IsDuplicate
<1>45. ASSUME JobFaults PROVE StepInv'
  <2>1. cur \in Jobs
    BY <1>45, IngestAssumption DEF JobFaults, TypeOK, WorkerTypes, PageStep, Escapable
  <2> QED
    BY <1>45, <2>1, IngestAssumption
       DEF JobFaults, NoRowBeforeCreate, StatusAtStep, PageOwed, StagedBeforeComplete,
           StagedUnlessTerminal, Active, Terminal, PageStep, IsDuplicate
<1>46. ASSUME Crash PROVE StepInv'
  BY <1>46, IngestAssumption
     DEF Crash, NoRowBeforeCreate, StatusAtStep, PageOwed, StagedBeforeComplete,
         StagedUnlessTerminal, Active, Terminal, PageStep, InSubmit, IsDuplicate
<1>47. ASSUME Restart PROVE StepInv'
  BY <1>47, IngestAssumption
     DEF Restart, NoRowBeforeCreate, StatusAtStep, PageOwed, StagedBeforeComplete,
         StagedUnlessTerminal, Active, Terminal, PageStep, IsDuplicate
<1>52. ASSUME WebhookFaults PROVE StepInv'
  <2>1. cur \in Jobs
    BY <1>52, IngestAssumption DEF WebhookFaults, TypeOK, WorkerTypes
  <2>2. job[cur].status = "completed"
    BY <1>52 DEF WebhookFaults, StatusAtStep
  <2> QED
    BY <1>52, <2>1, <2>2
       DEF WebhookFaults, NoRowBeforeCreate, StatusAtStep, PageOwed, PageStep,
           StagedBeforeComplete, StagedUnlessTerminal, IsDuplicate
<1>48. CASE UNCHANGED vars
  BY <1>48
     DEF vars, NoRowBeforeCreate, StatusAtStep, PageOwed, StagedBeforeComplete,
         StagedUnlessTerminal, IsDuplicate
<1>49. CASE \E j \in Jobs : \/ SubmitStep(j) \/ SubmitFault(j) \/ TimeOutSubmit(j) \/ CancelJob(j)
                            \/ RetryWebhook(j) \/ SetRetryDelivered(j)
  BY <1>49, <1>1, <1>2, <1>5, <1>6, <1>3, <1>4, <1>7, <1>8, <1>9, <1>10, <1>53 DEF SubmitStep
<1>50. CASE RunStep
  BY <1>50, <1>11, <1>12, <1>13, <1>14, <1>15, <1>16, <1>17, <1>18, <1>19, <1>20,
     <1>21, <1>22, <1>23, <1>24, <1>25, <1>26, <1>27, <1>28, <1>29, <1>30, <1>31
     DEF RunStep
<1>51. CASE AssembleStep
  BY <1>51, <1>32, <1>33, <1>34, <1>35, <1>36, <1>37, <1>38, <1>39, <1>40, <1>41,
     <1>42, <1>43
     DEF AssembleStep
<1> QED
  BY <1>44, <1>45, <1>46, <1>47, <1>48, <1>49, <1>50, <1>51, <1>52 DEF Next, WorkerStep

\* Inductive: IndInv holds in every reachable state.
THEOREM Inductive == Spec => []IndInv
<1>1. Init => TypeOK /\ StepInv
  BY TypeInit, StepInit
<1>2. TypeOK /\ StepInv /\ [Next]_vars => TypeOK' /\ StepInv'
  BY TypeStep, StepKept
<1> QED
  BY <1>1, <1>2, PTL DEF Spec, IndInv

\* StagedCorrect: as long as a job may still be assembled, each of its
\* completed pages has its staging object, with the content the row names.
THEOREM StagedCorrect == Spec => []StagedUntilTerminal
<1>1. StepInv => StagedUntilTerminal
  BY DEF StepInv, StagedUnlessTerminal, StagedUntilTerminal, Active, Terminal
<1> QED
  BY <1>1, Inductive, PTL DEF IndInv

-----------------------------------------------------------------------------
(* Who writes job rows and deliverables *)

\* RowWriters: every step leaves rows and final objects alone or is one of these.
LEMMA RowWriters ==
    ASSUME [Next]_vars
    PROVE  \/ UNCHANGED <<job, final>>
           \/ \E j \in Jobs : CreateJob(j) \/ CancelJob(j) \/ SetRetryDelivered(j)
           \/ SubscriptionUnavailable \/ BeginDiscovery \/ DiscoveryFails
           \/ RecordDiscovered \/ BeginProcessing \/ SyncProgress
           \/ FailAll \/ UploadFinal \/ FinishJob \/ SetWebhookDelivered
           \/ DiscardFinal
<1> USE DEF rowVars, objVars, localVars, clientVars, envVars
<1>1. CASE UNCHANGED vars
  BY <1>1 DEF vars
<1>2. ASSUME NEW j \in Jobs, SubmitStep(j) \/ SubmitFault(j) \/ TimeOutSubmit(j) \/ RetryWebhook(j)
      PROVE  UNCHANGED <<job, final>> \/ CreateJob(j)
  BY <1>2 DEF SubmitStep, AcceptSubmit, CreateFilePages, Submit, StageUpload,
              ScheduleFileCleanup, SubmitFault, TimeOutSubmit, RetryWebhook
<1>3. CASE StartJob \/ LoadPages \/ \E n \in Pages : DiscoverPages(n)
  BY <1>3 DEF StartJob, LoadPages, DiscoverPages
<1>4. CASE NextPage \/ PagesDone \/ CheckOpsQuota \/ SkipPage \/ MarkPageProcessing
  BY <1>4 DEF NextPage, PagesDone, CheckOpsQuota, SkipPage, MarkPageProcessing
<1>5. CASE \/ \E u \in Urls, h \in Hashes : RenderUrl(u, h)
           \/ \E h \in Hashes : ConvertFile(h)
           \/ RenderFails \/ StagePage
  BY <1>5 DEF RenderUrl, ConvertFile, RenderFails, StagePage
<1>6. CASE CompletePage \/ BillPage \/ FailPage
  BY <1>6 DEF CompletePage, BillPage, FailPage
<1>7. CASE Assemble \/ StreamPage \/ DemotePage \/ StreamDone
  BY <1>7 DEF Assemble, StreamPage, DemotePage, StreamDone
<1>8. CASE DeliverWebhook \/ Unstage \/ CleanupSourceFiles
  BY <1>8 DEF DeliverWebhook, Unstage, CleanupSourceFiles
<1>9. CASE PageFaults \/ WebhookFaults \/ JobFaults \/ Crash \/ Restart
  BY <1>9 DEF PageFaults, WebhookFaults, JobFaults, Crash, Restart
<1> QED
  BY <1>1, <1>2, <1>3, <1>4, <1>5, <1>6, <1>7, <1>8, <1>9
     DEF Next, WorkerStep, RunStep, AssembleStep

\* WorkerHasJob: a worker that is not idle holds a job.
LEMMA WorkerHasJob == ASSUME TypeOK, pc # "idle" PROVE cur \in Jobs
BY DEF TypeOK, WorkerTypes

-----------------------------------------------------------------------------
(* Settled rows *)

\* SettledStep: no step changes a settled row except for its webhook flag.
LEMMA SettledStep ==
    ASSUME TypeOK, StepInv, [Next]_vars,
           NEW j \in Jobs, job[j].status \in Terminal
    PROVE  [job'[j] EXCEPT !.hook = "unset"] = [job[j] EXCEPT !.hook = "unset"]
<1> USE DEF rowVars, objVars
<1>1. job[j].status \notin Active /\ job[j].status # "none" /\ job \in [Jobs -> JobRow]
  BY DEF Terminal, Active, TypeOK, RowTypes
<1>2. ASSUME UNCHANGED job \/ job'[j] = job[j] \/ \E h \in {"ok", "failed"} :
                                  job'[j] = [job[j] EXCEPT !.hook = h]
      PROVE  [job'[j] EXCEPT !.hook = "unset"] = [job[j] EXCEPT !.hook = "unset"]
  <2>1. job[j] \in JobRow
    BY <1>1
  <2>2. ASSUME NEW h \in {"ok", "failed"}
        PROVE  [[job[j] EXCEPT !.hook = h] EXCEPT !.hook = "unset"]
                   = [job[j] EXCEPT !.hook = "unset"]
    BY <2>1 DEF JobRow
  <2> QED
    BY <1>2, <2>2
<1>3. ASSUME NEW k \in Jobs, CreateJob(k) PROVE job'[j] = job[j]
  BY <1>1, <1>3 DEF CreateJob, StepInv, NoRowBeforeCreate
<1>4. ASSUME NEW k \in Jobs, CancelJob(k) PROVE job'[j] = job[j]
  BY <1>1, <1>4 DEF CancelJob, TransitionStatus
<1>5. ASSUME NEW k \in Jobs, SetRetryDelivered(k)
      PROVE  \/ job'[j] = job[j]
             \/ \E h \in {"ok", "failed"} : job'[j] = [job[j] EXCEPT !.hook = h]
  <2>1. /\ retry[k] \in {"ok", "failed"}
        /\ job' = job \/ job' = [job EXCEPT ![k].hook = retry[k]]
    BY <1>5 DEF SetRetryDelivered, TypeOK, ClientTypes
  <2> QED
    BY <1>1, <2>1
<1>6. CASE SubscriptionUnavailable \/ DiscoveryFails \/ FailAll
  BY <1>1, <1>6 DEF SubscriptionUnavailable, DiscoveryFails, FailAll, FailJob,
                    TransitionStatus
<1>7. CASE BeginDiscovery \/ BeginProcessing
  BY <1>1, <1>7 DEF BeginDiscovery, BeginProcessing, TransitionStatus, Active
<1>8. CASE RecordDiscovered \/ SyncProgress
  BY <1>1, <1>8 DEF RecordDiscovered, SyncProgress, SetPagesDiscovered,
                    UpdateJobProgress
<1>9. CASE FinishJob
  BY <1>1, <1>9 DEF FinishJob, CompleteJob
<1>10. CASE SetWebhookDelivered
  BY <1>1, <1>10 DEF SetWebhookDelivered
<1>11. CASE UploadFinal \/ DiscardFinal
  BY <1>11 DEF UploadFinal, DiscardFinal
<1> QED
  BY <1>2, <1>3, <1>4, <1>5, <1>6, <1>7, <1>8, <1>9, <1>10, <1>11, RowWriters

\* TerminalRowsFrozen: once a job is completed, failed or canceled, nothing the
\* worker, a client or a restart does changes its status, counters or output.
THEOREM TerminalRowsFrozen == Spec => TerminalFrozen
<1>1. TypeOK /\ StepInv /\ [Next]_vars =>
        [\A j \in Jobs : job[j].status \in Terminal =>
            [job'[j] EXCEPT !.hook = "unset"] = [job[j] EXCEPT !.hook = "unset"]]_vars
  BY SettledStep
<1> QED
  BY <1>1, Inductive, PTL DEF Spec, IndInv, TerminalFrozen

-----------------------------------------------------------------------------
(* The client's view *)

\* DeliverableType: what a job ships are contents.
LEMMA DeliverableType ==
    ASSUME TypeOK, NEW j \in Jobs
    PROVE  Deliverable(j) \in SUBSET Hashes
BY DEF Deliverable, TypeOK, ObjectTypes, Blobs

\* ClientStutter: a step that keeps statuses and completed jobs' finals is
\* invisible to the client.
LEMMA ClientStutter ==
    ASSUME \A k \in Jobs : /\ job'[k].status = job[k].status
                           /\ job[k].status = "completed" => final'[k] = final[k]
    PROVE  UNCHANGED Lifecycle!vars
<1>1. ASSUME NEW k \in Jobs PROVE Deliverable(k)' = Deliverable(k)
  BY DEF Deliverable
<1> QED
  BY <1>1 DEF Lifecycle!vars

\* ClientMove: a step that moves one job from a status short of completed to
\* another such status is a move of the client's view and ships nothing.
LEMMA ClientMove ==
    ASSUME NEW j \in Jobs, NEW F, NEW s, s # "completed",
           job[j].status \in F, "completed" \notin F,
           \A k \in Jobs : job'[k].status = IF k = j THEN s ELSE job[k].status,
           final' = final
    PROVE  Lifecycle!Move(j, F, s) /\ UNCHANGED [k \in Jobs |-> Deliverable(k)]
<1>1. ASSUME NEW k \in Jobs PROVE Deliverable(k)' = Deliverable(k)
  BY DEF Deliverable
<1> QED
  BY <1>1 DEF Lifecycle!Move

\* LifecycleStep: every step of the system is a step of the promised lifecycle
\* or is invisible to the client.
LEMMA LifecycleStep ==
    ASSUME TypeOK, TypeOK', StepInv, [Next]_vars
    PROVE  [Lifecycle!Next]_(Lifecycle!vars)
<1> USE DEF rowVars, objVars
<1>0. job \in [Jobs -> JobRow]
  BY DEF TypeOK, RowTypes
<1>1. CASE UNCHANGED <<job, final>>
  BY <1>1, ClientStutter
<1>2. ASSUME NEW j \in Jobs, CreateJob(j) PROVE Lifecycle!Next
  <2>1. /\ job[j].status \in {"none"} /\ final' = final
        /\ \A k \in Jobs : job'[k].status = IF k = j THEN "queued" ELSE job[k].status
    BY <1>2, CreateStatuses DEF StepInv, CreateJob
  <2>2. Lifecycle!Accept(j)
    BY <2>1, ClientMove DEF Lifecycle!Accept
  <2> QED
    BY <2>2 DEF Lifecycle!Next
<1>3. ASSUME NEW j \in Jobs, CancelJob(j)
      PROVE  Lifecycle!Next \/ UNCHANGED Lifecycle!vars
  <2>1. /\ final' = final
        /\ \A k \in Jobs : job'[k].status = IF k = j /\ job[j].status \in Active
                                            THEN "canceled" ELSE job[k].status
    BY <1>0, <1>3, TransitionStatuses DEF CancelJob
  <2>2. CASE job[j].status \in Active
    <3>1. Lifecycle!Cancel(j)
      BY <2>1, <2>2, ClientMove DEF Lifecycle!Cancel, Lifecycle!Running, Active
    <3> QED
      BY <3>1 DEF Lifecycle!Next
  <2>3. CASE job[j].status \notin Active
    BY <2>1, <2>3, ClientStutter
  <2> QED
    BY <2>2, <2>3
<1>4. ASSUME NEW j \in Jobs, SetRetryDelivered(j) PROVE UNCHANGED Lifecycle!vars
  <2>1. final' = final /\ \A k \in Jobs : job'[k].status = job[k].status
    BY <1>0, <1>4, StatusesKept DEF SetRetryDelivered
  <2> QED
    BY <2>1, ClientStutter
<1>5. CASE SubscriptionUnavailable \/ DiscoveryFails \/ FailAll
  <2>1. cur \in Jobs /\ final' = final /\ TransitionStatus(cur, "failed", Active)
    BY <1>5, WorkerHasJob DEF SubscriptionUnavailable, DiscoveryFails, FailAll, FailJob
  <2>2. \A k \in Jobs : job'[k].status = IF k = cur /\ job[cur].status \in Active
                                         THEN "failed" ELSE job[k].status
    BY <1>0, <2>1, TransitionStatuses
  <2>3. CASE job[cur].status \in Active
    <3>1. PICK c \in Jobs : c = cur
      BY <2>1
    <3>2. Lifecycle!Fail(c)
      BY <3>1, <2>1, <2>2, <2>3, ClientMove DEF Lifecycle!Fail, Lifecycle!Running, Active
    <3> QED
      BY <3>2 DEF Lifecycle!Next
  <2>4. CASE job[cur].status \notin Active
    BY <2>1, <2>2, <2>4, ClientStutter
  <2> QED
    BY <2>3, <2>4
<1>6. CASE BeginDiscovery
  <2>1. /\ cur \in Jobs /\ final' = final
        /\ TransitionStatus(cur, "discovering", {"queued", "discovering"})
    BY <1>6, WorkerHasJob DEF BeginDiscovery
  <2>2. \A k \in Jobs : job'[k].status =
            IF k = cur /\ job[cur].status \in {"queued", "discovering"}
            THEN "discovering" ELSE job[k].status
    BY <1>0, <2>1, TransitionStatuses
  <2>3. CASE job[cur].status = "queued"
    <3>1. PICK c \in Jobs : c = cur
      BY <2>1
    <3>2. Lifecycle!Discover(c)
      BY <3>1, <2>1, <2>2, <2>3, ClientMove DEF Lifecycle!Discover
    <3> QED
      BY <3>2 DEF Lifecycle!Next
  <2>4. CASE job[cur].status # "queued"
    BY <2>1, <2>2, <2>4, ClientStutter
  <2> QED
    BY <2>3, <2>4
<1>7. CASE BeginProcessing
  <2>1. cur \in Jobs /\ final' = final /\ TransitionStatus(cur, "processing", Active)
    BY <1>7, WorkerHasJob DEF BeginProcessing
  <2>2. \A k \in Jobs : job'[k].status = IF k = cur /\ job[cur].status \in Active
                                         THEN "processing" ELSE job[k].status
    BY <1>0, <2>1, TransitionStatuses
  <2>3. CASE job[cur].status \in {"queued", "discovering"}
    <3>1. PICK c \in Jobs : c = cur
      BY <2>1
    <3>2. Lifecycle!Process(c)
      BY <3>1, <2>1, <2>2, <2>3, ClientMove DEF Lifecycle!Process, Active
    <3> QED
      BY <3>2 DEF Lifecycle!Next
  <2>4. CASE job[cur].status \notin {"queued", "discovering"}
    BY <2>1, <2>2, <2>4, ClientStutter DEF Active
  <2> QED
    BY <2>3, <2>4
<1>8. CASE RecordDiscovered \/ SyncProgress \/ SetWebhookDelivered
  <2>1. cur \in Jobs
    BY <1>8, WorkerHasJob DEF RecordDiscovered, SyncProgress, SetWebhookDelivered
  <2>2. /\ final' = final
        /\ \/ \E n : SetPagesDiscovered(cur, n)
           \/ \E t : UpdateJobProgress(cur, t)
           \/ \E h : job' = [job EXCEPT ![cur].hook = h]
    BY <1>8 DEF RecordDiscovered, SyncProgress, SetWebhookDelivered
  <2>3. \A k \in Jobs : job'[k].status = job[k].status
    BY <1>0, <2>1, <2>2, StatusesKept
  <2> QED
    BY <2>2, <2>3, ClientStutter
<1>9. CASE UploadFinal \/ DiscardFinal
  <2>1. /\ cur \in Jobs /\ job[cur].status # "completed" /\ job' = job
        /\ \A k \in Jobs : k # cur => final'[k] = final[k]
    BY <1>9, WorkerHasJob
       DEF UploadFinal, DiscardFinal, StepInv, StatusAtStep, TypeOK, ObjectTypes
  <2> QED
    BY <2>1, ClientStutter
<1>10. CASE FinishJob
  <2>1. /\ cur \in Jobs /\ final' = final /\ CompleteJob(cur, tally)
        /\ job[cur].status \in {"processing", "canceled"}
    BY <1>10, WorkerHasJob DEF FinishJob, StepInv, StatusAtStep
  <2>2. \A k \in Jobs : job'[k].status = IF k = cur /\ job[cur].status \in Active
                                         THEN "completed" ELSE job[k].status
    BY <1>0, <2>1, CompleteStatuses
  <2>3. CASE job[cur].status = "processing"
    <3>1. PICK c \in Jobs : c = cur
      BY <2>1
    <3>2. \A k \in Jobs : k # c => Deliverable(k)' = Deliverable(k)
      BY <2>1, <2>2, <3>1 DEF Deliverable
    <3>3. Deliverable(c)' \in SUBSET Hashes
      BY DEF Deliverable, TypeOK, ObjectTypes, Blobs
    <3>4. Deliverable(c) = {} /\ job[c].status = "processing"
      BY <2>3, <3>1 DEF Deliverable
    <3>5. \A k \in Jobs : job'[k].status = IF k = c THEN "completed" ELSE job[k].status
      BY <2>2, <2>3, <3>1 DEF Active
    <3>6. Lifecycle!Complete(c, Deliverable(c)')
      <4>1. [k \in Jobs |-> job'[k].status]
                = [[k \in Jobs |-> job[k].status] EXCEPT ![c] = "completed"]
        BY <3>5
      <4>2. [k \in Jobs |-> Deliverable(k)']
                = [[k \in Jobs |-> Deliverable(k)] EXCEPT ![c] = Deliverable(c)']
        BY <3>2
      <4> QED
        BY <3>4, <4>1, <4>2 DEF Lifecycle!Complete, Lifecycle!Move
    <3> QED
      BY <3>3, <3>6 DEF Lifecycle!Next
  <2>4. CASE job[cur].status = "canceled"
    BY <2>1, <2>2, <2>4, ClientStutter DEF Active
  <2> QED
    BY <2>1, <2>3, <2>4
<1> QED
  BY <1>1, <1>2, <1>3, <1>4, <1>5, <1>6, <1>7, <1>8, <1>9, <1>10, RowWriters

\* RefinesLifecycle: the rows, the objects and the worker together implement
\* the lifecycle a client of POST /v2/ingest is promised.
THEOREM RefinesLifecycle == Spec => ImplementsLifecycle
<1>1. Init => Lifecycle!Init
  BY DEF Init, NoRow, Deliverable, Lifecycle!Init
<1>2. TypeOK /\ TypeOK' /\ StepInv /\ [Next]_vars => [Lifecycle!Next]_(Lifecycle!vars)
  BY LifecycleStep
<1> QED
  BY <1>1, <1>2, Inductive, PTL DEF Spec, IndInv, ImplementsLifecycle, Lifecycle!Spec

-----------------------------------------------------------------------------
(* Who may run a job, and what its rows look like until then *)

\* where a submit handler is that has not enqueued its job
BeforeQueue == {"idle"} \cup InSubmit

\* NotYetQueued: until its submit handler has enqueued it, a job belongs to
\* nobody else: the worker does not hold it, the queue does not name it, its row
\* is fresh, and its pages exist only once they were created.
NotYetQueued ==
    \A j \in Jobs : submit[j] \in BeforeQueue =>
        /\ cur # j /\ \A i \in DOMAIN queue : queue[i] # j
        /\ job[j].status \in {"none", "queued", "canceled"}
        /\ \A p \in Pages : page[j][p].status \in
               IF submit[j] = "paged" THEN {"absent", "pending"} ELSE {"absent"}

\* EmptyWhenDown: a dead process holds nothing, and it died of a crash.
EmptyWhenDown ==
    /\ crashes = 0 => up
    /\ ~up => /\ pc = "idle" /\ queue = <<>>
              /\ \A j \in Jobs : submit[j] \notin InSubmit

\* PagesKnown: a job is discovered only while it has no page, and is processed
\* only when it has some; the page in the worker's hands exists.
PagesKnown ==
    /\ pc \in {"discover", "discovering"} => ~HasPages(cur)
    /\ pc \in {"discovered", "begin"} => HasPages(cur)
    /\ \A j \in Jobs : job[j].status = "processing" => HasPages(j)
    /\ pc \in PageStep => page[cur][idx].status # "absent"
    /\ pc \in {"quota", "mark"} => page[cur][idx].status \in Resumable

\* StatusAtExit: sources are removed only for a settled job, and a job is
\* completed only on the way out.
StatusAtExit ==
    /\ pc = "cleanup" => job[cur].status \in Terminal
    /\ pc # "idle" /\ job[cur].status = "completed" =>
           pc \in {"webhook", "hook_ok", "hook_failed", "unstage", "cleanup"}

OwnInv == NotYetQueued /\ EmptyWhenDown /\ PagesKnown /\ StatusAtExit

-----------------------------------------------------------------------------
(* Deliverable and bill *)

\* what a page puts into the deliverable
Content(j, p) == IF page[j][p].status # "completed" THEN "absent"
                 ELSE IF page[j][p].dup THEN "blank" ELSE page[j][p].hash

\* SpoolExact: from the stream to the row, the deliverable is what the rows of
\* the completed pages say.
SpoolExact ==
    /\ pc = "stream" => \A p \in Pages :
           /\ spool[p] = IF p < idx THEN Content(cur, p) ELSE "absent"
           /\ page[cur][p].status = "completed" => staged[cur][p] = Content(cur, p)
    /\ pc = "upload" => \A p \in Pages : spool[p] = Content(cur, p)
    /\ pc = "finish" => /\ final[cur].there
                        /\ \A p \in Pages : final[cur].parts[p] = Content(cur, p)
    /\ \A j \in Jobs : job[j].status = "completed" =>
           final[j].there /\ \A p \in Pages : final[j].parts[p] = Content(j, p)

\* GrantHeld: between the quota check and the bill there is an op left.
GrantHeld ==
    /\ QuotaNeverOverrun
    /\ pc \in {"mark", "render", "stage", "complete", "bill"} => QuotaLeft

\* BilledCompleted: what is billed, or about to be, contributed.
BilledCompleted ==
    /\ pc = "bill" => page[cur][idx].status = "completed" /\ ~page[cur][idx].dup
    /\ faults = 0 => /\ pc = "fail" => page[cur][idx].status # "completed"
                     /\ \A j \in Jobs, p \in Pages : <<j, p>> \in billed =>
                            page[j][p].status = "completed" /\ ~page[j][p].dup

\* QueuedOnce: before any crash an id is queued once, and not while it is run.
QueuedOnce ==
    crashes = 0 =>
        /\ \A i, k \in DOMAIN queue : queue[i] = queue[k] => i = k
        /\ \A i \in DOMAIN queue : queue[i] # cur

\* GivenUp: a job the worker abandoned; without a crash nobody runs it again.
GivenUp(j) == /\ cur # j /\ \A i \in DOMAIN queue : queue[i] # j
              /\ submit[j] \notin BeforeQueue /\ job[j].status # "completed"

\* CompletedBilled: before any crash, a contributing page is billed, about to be
\* billed or failed, or belongs to a job that is given up.
CompletedBilled ==
    crashes = 0 => \A j \in Jobs, p \in Pages :
        page[j][p].status = "completed" /\ ~page[j][p].dup /\ <<j, p>> \notin billed =>
            \/ cur = j /\ idx = p /\ pc \in {"bill", "fail"}
            \/ GivenUp(j)

BillInv == SpoolExact /\ GrantHeld /\ BilledCompleted /\ QueuedOnce /\ CompletedBilled

-----------------------------------------------------------------------------
(* Counters and content *)

\* the chunks of a set of pages of a job
ChunksIn(j, S) == UNION {{p} \X (1..page[j][p].chunks) : p \in S}

\* CompletedRowExact: a completed page row carries its content and its size.
CompletedRowExact ==
    \A j \in Jobs, p \in Pages : page[j][p].status = "completed" =>
        /\ page[j][p].hash \in Hashes
        /\ page[j][p].chunks = IF page[j][p].dup THEN 0 ELSE ChunksOf[page[j][p].hash]

\* LoopSettled: the page loop leaves no owed page behind it.
Assembling == {"assemble", "stream", "upload", "finish"}
LoopSettled ==
    /\ pc \in PageStep \cup {"next"} =>
           \A p \in Pages : p < idx \/ (pc = "sync" /\ p = idx)
                               => page[cur][p].status \notin Resumable
    /\ pc \in Assembling => \A p \in Pages : page[cur][p].status \notin Resumable

\* ContentSeen: the worker knows the content of every contributing page of its job,
\* and no two contributing pages of a job have the same.
ContentSeen ==
    /\ pc \in PageStep \cup {"next"} =>
           \A p \in Pages : page[cur][p].status = "completed" /\ ~page[cur][p].dup =>
                                page[cur][p].hash \in seen.hashes
    /\ \A j \in Jobs : \A p, q \in Pages :
           /\ p # q /\ page[j][p].status = "completed" /\ page[j][q].status = "completed"
           /\ ~page[j][p].dup /\ ~page[j][q].dup
           => page[j][p].hash # page[j][q].hash

\* RowCounts: what complete_job will write, and what it wrote, counts the pages.
Present(j) == Pages \ PagesIn(j, {"absent"})
Streamed == {p \in PagesIn(cur, {"completed"}) : pc = "stream" => p < idx}
RowCounts ==
    /\ /\ pc \in PageStep \cup Assembling \cup {"begin", "next"}
          /\ job[cur].status \in Active
       => job[cur].discovered = Cardinality(Present(cur))
    /\ pc \in {"stream", "upload", "finish"} =>
           /\ tally.processed = Cardinality(Streamed)
           /\ tally.failed = Cardinality(PagesIn(cur, {"failed", "skipped"}))
           /\ tally.chunks = Cardinality(ChunksIn(cur, Streamed))
    /\ \A j \in Jobs : job[j].status = "completed" =>
           /\ job[j].output /\ PagesIn(j, Resumable) = {}
           /\ job[j].discovered = Cardinality(Present(j))
           /\ job[j].processed = Cardinality(PagesIn(j, {"completed"}))
           /\ job[j].failed = Cardinality(PagesIn(j, {"failed", "skipped"}))
           /\ job[j].chunks = ChunksDone(j)

\* OutputOwned: without crash or fault a final object is a completed job's, or in
\* the hands of the worker, who will discard it.
OutputOwned ==
    crashes = 0 /\ faults = 0 => \A j \in Jobs : final[j].there =>
        job[j].status = "completed" \/ (cur = j /\ pc \in {"finish", "discard"})

\* HookKnown: an outcome about to be written is the outcome of a POST.
HookKnown ==
    /\ HookFlagTruthful
    /\ pc = "hook_ok" => cur \in received
    /\ \A j \in Jobs : /\ retry[j] # "idle" => job[j].status = "completed"
                       /\ retry[j] = "ok" => j \in received

DeliverInv == /\ CompletedRowExact /\ LoopSettled /\ ContentSeen /\ RowCounts
              /\ OutputOwned /\ HookKnown

-----------------------------------------------------------------------------
(* Progress and resume *)

\* the pages the running counters stand for, and whether any page is still owed
Done(j) == PagesIn(j, {"completed"}) \
               IF cur = j /\ pc \in {"bill", "fail"} THEN {idx} ELSE {}
Owes(j) == PagesIn(j, Resumable) # {} \/ (cur = j /\ pc \in PageStep)

\* ProgressBound: the counters of an attempt count the done pages, and the row of
\* a job that still owes a page is never ahead of them.
ProgressBound ==
    /\ pc \in PageStep \cup {"next"} =>
           /\ tally.processed = Cardinality(Done(cur))
           /\ tally.chunks = Cardinality(ChunksIn(cur, Done(cur)))
    /\ \A j \in Jobs :
           /\ ~HasPages(j) => job[j].processed = 0 /\ job[j].chunks = 0
           /\ job[j].status \in Active /\ Owes(j) =>
                  /\ job[j].processed <= Cardinality(Done(j))
                  /\ job[j].chunks <= Cardinality(ChunksIn(j, Done(j)))

\* SeenCompleted: while no store call failed, what is known was completed.
SeenCompleted ==
    faults = 0 /\ pc \in PageStep \cup {"next"} =>
        \A h \in seen.hashes : \E q \in Pages :
            page[cur][q].status = "completed" /\ page[cur][q].hash = h

ResumeInv == ProgressBound /\ SeenCompleted

-----------------------------------------------------------------------------
(* Which steps write what *)

\* PageWriters: every step leaves the page rows alone or is one of these.
LEMMA PageWriters ==
    ASSUME [Next]_vars
    PROVE  \/ UNCHANGED page
           \/ \E j \in Jobs : CreateFilePages(j)
           \/ \E n \in Pages : DiscoverPages(n)
           \/ SkipPage \/ MarkPageProcessing \/ CompletePage \/ FailPage \/ DemotePage
<1> USE DEF rowVars, objVars, localVars, clientVars, envVars
<1>1. CASE UNCHANGED vars
  BY <1>1 DEF vars
<1>2. ASSUME NEW j \in Jobs,
             \/ SubmitStep(j) \/ SubmitFault(j) \/ TimeOutSubmit(j) \/ CancelJob(j)
             \/ RetryWebhook(j) \/ SetRetryDelivered(j)
      PROVE  UNCHANGED page \/ CreateFilePages(j)
  BY <1>2 DEF SubmitStep, AcceptSubmit, CreateJob, Submit, StageUpload,
              ScheduleFileCleanup, SubmitFault, TimeOutSubmit, CancelJob,
                RetryWebhook,
              SetRetryDelivered
<1>3. CASE \/ StartJob \/ LoadPages \/ SubscriptionUnavailable \/ BeginDiscovery
           \/ DiscoveryFails \/ RecordDiscovered \/ BeginProcessing
  BY <1>3 DEF StartJob, LoadPages, SubscriptionUnavailable, BeginDiscovery,
              DiscoveryFails, RecordDiscovered, BeginProcessing
<1>4. CASE NextPage \/ PagesDone \/ CheckOpsQuota \/ BillPage \/ SyncProgress
  BY <1>4 DEF NextPage, PagesDone, CheckOpsQuota, BillPage, SyncProgress
<1>5. CASE \/ \E u \in Urls, h \in Hashes : RenderUrl(u, h)
           \/ \E h \in Hashes : ConvertFile(h)
           \/ RenderFails \/ StagePage
  BY <1>5 DEF RenderUrl, ConvertFile, RenderFails, StagePage
<1>6. CASE \/ Assemble \/ StreamPage \/ StreamDone \/ FailAll \/ UploadFinal
           \/ FinishJob
  BY <1>6 DEF Assemble, StreamPage, StreamDone, FailAll, UploadFinal, FinishJob
<1>7. CASE \/ DeliverWebhook \/ SetWebhookDelivered \/ DiscardFinal \/ Unstage
           \/ CleanupSourceFiles
  BY <1>7 DEF DeliverWebhook, SetWebhookDelivered, DiscardFinal, Unstage,
              CleanupSourceFiles
<1>8. CASE PageFaults \/ WebhookFaults \/ JobFaults \/ Crash \/ Restart
  BY <1>8 DEF PageFaults, WebhookFaults, JobFaults, Crash, Restart
<1> QED
  BY <1>1, <1>2, <1>3, <1>4, <1>5, <1>6, <1>7, <1>8
     DEF Next, WorkerStep, RunStep, AssembleStep

\* a step of the HTTP handlers
ClientStep(j) == \/ SubmitStep(j) \/ SubmitFault(j) \/ TimeOutSubmit(j) \/ CancelJob(j)
                 \/ RetryWebhook(j) \/ SetRetryDelivered(j)

\* ClientFrame: a client's request writes rows, uploads and its own progress only.
LEMMA ClientFrame ==
    ASSUME NEW j \in Jobs, ClientStep(j)
    PROVE  /\ up
           /\ UNCHANGED <<billed, staged, final, pc, cur, idx, localVars, up, crashes>>
           /\ faults' = faults \/ Fault
           /\ UNCHANGED page \/ CreateFilePages(j)
<1> USE DEF rowVars, objVars, localVars, clientVars, envVars, NoFault
<1>1. CASE SubmitStep(j)
  BY <1>1 DEF SubmitStep, AcceptSubmit, CreateJob, CreateFilePages, Submit, StageUpload,
              ScheduleFileCleanup
<1>2. CASE SubmitFault(j) \/ TimeOutSubmit(j) \/ CancelJob(j) \/ RetryWebhook(j)
           \/ SetRetryDelivered(j)
  BY <1>2 DEF SubmitFault, TimeOutSubmit, CancelJob, RetryWebhook, SetRetryDelivered
<1> QED
  BY <1>1, <1>2 DEF ClientStep

\* WorkerFrame: the worker leaves the clients' progress alone; it keeps its job,
\* lets go of it, or takes the next one from the queue.
LEMMA WorkerFrame ==
    ASSUME WorkerStep \/ PageFaults \/ WebhookFaults \/ JobFaults
    PROVE  /\ UNCHANGED <<submit, retry, backstop, up, crashes>>
           /\ faults' = faults \/ Fault
           /\ \/ StartJob
              \/ /\ pc # "idle" /\ UNCHANGED queue
                 /\ UNCHANGED cur \/ (pc' = "idle" /\ cur' = NoJob)
<1> USE DEF rowVars, objVars, localVars, clientVars, envVars, NoFault
<1>1. CASE StartJob \/ LoadPages \/ SubscriptionUnavailable \/ BeginDiscovery
  BY <1>1 DEF StartJob, LoadPages, SubscriptionUnavailable, BeginDiscovery
<1>2. CASE \/ \E n \in Pages : DiscoverPages(n)
           \/ DiscoveryFails \/ RecordDiscovered \/ BeginProcessing
  BY <1>2 DEF DiscoverPages, DiscoveryFails, RecordDiscovered, BeginProcessing
<1>3. CASE NextPage \/ PagesDone \/ CheckOpsQuota \/ SkipPage \/ MarkPageProcessing
  BY <1>3 DEF NextPage, PagesDone, CheckOpsQuota, SkipPage, MarkPageProcessing
<1>4. CASE \/ \E u \in Urls, h \in Hashes : RenderUrl(u, h)
           \/ \E h \in Hashes : ConvertFile(h)
           \/ RenderFails \/ StagePage
  BY <1>4 DEF RenderUrl, ConvertFile, RenderFails, StagePage
<1>5. CASE CompletePage \/ BillPage \/ FailPage \/ SyncProgress
  BY <1>5 DEF CompletePage, BillPage, FailPage, SyncProgress
<1>6. CASE \/ Assemble \/ StreamPage \/ DemotePage \/ StreamDone \/ FailAll
           \/ UploadFinal \/ FinishJob
  BY <1>6 DEF Assemble, StreamPage, DemotePage, StreamDone, FailAll, UploadFinal,
              FinishJob
<1>7. CASE \/ DeliverWebhook \/ SetWebhookDelivered \/ DiscardFinal \/ Unstage
           \/ CleanupSourceFiles
  BY <1>7 DEF DeliverWebhook, SetWebhookDelivered, DiscardFinal, Unstage,
              CleanupSourceFiles
<1>8. CASE PageFaults \/ WebhookFaults \/ JobFaults
  BY <1>8 DEF PageFaults, WebhookFaults, JobFaults, Escapable
<1> QED
  BY <1>1, <1>2, <1>3, <1>4, <1>5, <1>6, <1>7, <1>8
     DEF WorkerStep, RunStep, AssembleStep

\* Every step is a client's, the worker's, a crash, a restart or a stutter.
LEMMA StepKinds ==
    ASSUME [Next]_vars
    PROVE  \/ UNCHANGED vars
           \/ \E j \in Jobs : ClientStep(j)
           \/ WorkerStep \/ PageFaults \/ WebhookFaults \/ JobFaults
           \/ Crash \/ Restart
BY DEF Next, ClientStep

\* StatusMoves: what a step may do to the status of a job.
LEMMA StatusMoves ==
    ASSUME TypeOK, StepInv, [Next]_vars, NEW j \in Jobs
    PROVE  \/ job'[j].status = job[j].status
           \/ /\ CreateJob(j) /\ job[j].status = "none" /\ job'[j].status = "queued"
           \/ /\ CancelJob(j) /\ job[j].status \in Active
              /\ job'[j].status = "canceled"
           \/ /\ cur = j /\ job[j].status \in Active
              /\ \/ /\ SubscriptionUnavailable \/ DiscoveryFails \/ FailAll
                    /\ job'[j].status = "failed"
                 \/ BeginDiscovery /\ job'[j].status = "discovering"
                 \/ BeginProcessing /\ job'[j].status = "processing"
                 \/ FinishJob /\ job'[j].status = "completed"
<1> USE DEF rowVars, objVars
<1>0. job \in [Jobs -> JobRow]
  BY DEF TypeOK, RowTypes
<1>1. CASE UNCHANGED <<job, final>> \/ UploadFinal \/ DiscardFinal
  BY <1>1 DEF UploadFinal, DiscardFinal
<1>2. ASSUME NEW k \in Jobs, CreateJob(k)
      PROVE  \/ job'[j].status = job[j].status
             \/ j = k /\ job[j].status = "none" /\ job'[j].status = "queued"
  BY <1>2, CreateStatuses DEF StepInv
<1>3. ASSUME NEW k \in Jobs, CancelJob(k)
      PROVE  \/ job'[j].status = job[j].status
             \/ j = k /\ job[j].status \in Active /\ job'[j].status = "canceled"
  <2>1. TransitionStatus(k, "canceled", Active)
    BY <1>3 DEF CancelJob
  <2> QED
    BY <1>0, <2>1, TransitionStatuses
<1>4. ASSUME NEW k \in Jobs, SetRetryDelivered(k)
      PROVE  job'[j].status = job[j].status
  <2>1. job' = job \/ job' = [job EXCEPT ![k].hook = retry[k]]
    BY <1>4 DEF SetRetryDelivered
  <2> QED
    BY <1>0, <2>1, StatusesKept
<1>5. ASSUME SubscriptionUnavailable \/ DiscoveryFails \/ FailAll
      PROVE  \/ job'[j].status = job[j].status
             \/ cur = j /\ job[j].status \in Active /\ job'[j].status = "failed"
  <2>1. TransitionStatus(cur, "failed", Active) /\ cur \in Jobs
    BY <1>5, WorkerHasJob
       DEF SubscriptionUnavailable, DiscoveryFails, FailAll, FailJob
  <2> QED
    BY <1>0, <2>1, TransitionStatuses
<1>6. ASSUME BeginDiscovery
      PROVE  \/ job'[j].status = job[j].status
             \/ cur = j /\ job[j].status \in Active /\ job'[j].status = "discovering"
  <2>1. TransitionStatus(cur, "discovering", {"queued", "discovering"}) /\ cur \in Jobs
    BY <1>6, WorkerHasJob DEF BeginDiscovery
  <2> QED
    BY <1>0, <2>1, TransitionStatuses DEF Active
<1>7. ASSUME BeginProcessing
      PROVE  \/ job'[j].status = job[j].status
             \/ cur = j /\ job[j].status \in Active /\ job'[j].status = "processing"
  <2>1. TransitionStatus(cur, "processing", Active) /\ cur \in Jobs
    BY <1>7, WorkerHasJob DEF BeginProcessing
  <2> QED
    BY <1>0, <2>1, TransitionStatuses
<1>8. ASSUME RecordDiscovered \/ SyncProgress \/ SetWebhookDelivered
      PROVE  job'[j].status = job[j].status
  <2> DEFINE n == Cardinality(Pages \ PagesIn(cur, {"absent"}))
             h == IF pc = "hook_ok" THEN "ok" ELSE "failed"
  <2>1. /\ cur \in Jobs
        /\ \/ UpdateJobProgress(cur, tally) \/ SetPagesDiscovered(cur, n)
           \/ job' = [job EXCEPT ![cur].hook = h]
    BY <1>8, WorkerHasJob DEF RecordDiscovered, SyncProgress, SetWebhookDelivered
  <2> HIDE DEF n, h
  <2> QED
    BY <1>0, <2>1, StatusesKept
<1>9. ASSUME FinishJob
      PROVE  \/ job'[j].status = job[j].status
             \/ cur = j /\ job[j].status \in Active /\ job'[j].status = "completed"
  <2>1. CompleteJob(cur, tally) /\ cur \in Jobs
    BY <1>9, WorkerHasJob DEF FinishJob
  <2> QED
    BY <1>0, <2>1, CompleteStatuses
<1> QED
  BY <1>1, <1>2, <1>3, <1>4, <1>5, <1>6, <1>7, <1>8, <1>9, RowWriters

\* A status write keeps the rest of the page row.
LEMMA PageFieldsKept ==
    ASSUME page \in [Jobs -> [Pages -> PageRow]], NEW j \in Jobs, NEW p \in Pages,
           NEW s, SetPageStatus(j, p, s)
    PROVE  /\ page'[j][p].hash = page[j][p].hash /\ page'[j][p].dup = page[j][p].dup
           /\ page'[j][p].chunks = page[j][p].chunks
<1>1. ASSUME NEW r \in PageRow
      PROVE  LET w == [r EXCEPT !.status = s] IN
             w.hash = r.hash /\ w.dup = r.dup /\ w.chunks = r.chunks
  BY DEF PageRow
<1>2. page' = [page EXCEPT ![j] = [page[j] EXCEPT ![p] =
                  [page[j][p] EXCEPT !.status = s]]]
  BY DEF SetPageStatus
<1> QED
  BY <1>1, <1>2

\* PageMoves: what a step may do to a page row.
LEMMA PageMoves ==
    ASSUME TypeOK, [Next]_vars, NEW j \in Jobs, NEW p \in Pages
    PROVE  \/ page'[j][p] = page[j][p]
           \/ /\ CreateFilePages(j)
              /\ page'[j][p].status = IF <<j, p>> \in sources THEN "pending" ELSE "absent"
           \/ /\ cur = j /\ \E n \in Pages : DiscoverPages(n)
              /\ page'[j][p].status \in {"pending", "absent"}
           \/ /\ cur = j /\ idx = p
              /\ \/ SkipPage /\ page'[j][p].status = "skipped"
                 \/ MarkPageProcessing /\ page'[j][p].status = "processing"
                 \/ (FailPage \/ DemotePage) /\ page'[j][p].status = "failed"
           \/ /\ cur = j /\ idx = p /\ CompletePage
              /\ page'[j][p].status = "completed"
              /\ page'[j][p].hash = rendered.hash
              /\ page'[j][p].dup = IsDuplicate(rendered)
              /\ page'[j][p].chunks = IF IsDuplicate(rendered) THEN 0
                                      ELSE ChunksOf[rendered.hash]
<1>0. page \in [Jobs -> [Pages -> PageRow]]
  BY DEF TypeOK, RowTypes
<1>1. ASSUME NEW k \in Jobs, CreateFilePages(k)
      PROVE  \/ page'[j][p] = page[j][p]
             \/ k = j /\ page'[j][p].status = IF <<j, p>> \in sources THEN "pending"
                                              ELSE "absent"
  <2>1. /\ [NoPage EXCEPT !.status = "pending"].status = "pending"
        /\ NoPage.status = "absent"
    BY DEF NoPage
  <2>2. page' = [page EXCEPT ![k] = [q \in Pages |->
                    IF <<k, q>> \in sources THEN [NoPage EXCEPT !.status = "pending"]
                    ELSE NoPage]]
    BY <1>1 DEF CreateFilePages
  <2> QED
    BY <1>0, <2>1, <2>2
<1>2. ASSUME NEW n \in Pages, DiscoverPages(n)
      PROVE  \/ page'[j][p] = page[j][p]
             \/ cur = j /\ page'[j][p].status \in {"pending", "absent"}
  <2>1. /\ [NoPage EXCEPT !.status = "pending"].status = "pending"
        /\ NoPage.status = "absent"
    BY DEF NoPage
  <2>2. page' = [page EXCEPT ![cur] = [q \in Pages |->
                    IF q <= n THEN [NoPage EXCEPT !.status = "pending"] ELSE NoPage]]
    BY <1>2 DEF DiscoverPages
  <2> QED
    BY <1>0, <2>1, <2>2
<1>3. ASSUME SkipPage \/ MarkPageProcessing \/ FailPage \/ DemotePage
      PROVE  \/ page'[j][p] = page[j][p]
             \/ /\ cur = j /\ idx = p
                /\ \/ SkipPage /\ page'[j][p].status = "skipped"
                   \/ MarkPageProcessing /\ page'[j][p].status = "processing"
                   \/ (FailPage \/ DemotePage) /\ page'[j][p].status = "failed"
  <2>1. cur \in Jobs /\ idx \in Pages
    BY <1>3, WorkerHasJob
       DEF SkipPage, MarkPageProcessing, FailPage, DemotePage, TypeOK, WorkerTypes,
           PageStep, Pages
  <2>2. CASE SkipPage
    BY <1>0, <2>1, <2>2, PageStatusEffect DEF SkipPage
  <2>3. CASE MarkPageProcessing
    BY <1>0, <2>1, <2>3, PageStatusEffect DEF MarkPageProcessing
  <2>4. CASE FailPage \/ DemotePage
    BY <1>0, <2>1, <2>4, PageStatusEffect DEF FailPage, DemotePage
  <2> QED
    BY <1>3, <2>2, <2>3, <2>4
<1>4. ASSUME CompletePage
      PROVE  \/ page'[j][p] = page[j][p]
             \/ /\ cur = j /\ idx = p
                /\ page'[j][p].status = "completed"
                /\ page'[j][p].hash = rendered.hash
                /\ page'[j][p].dup = IsDuplicate(rendered)
                /\ page'[j][p].chunks = IF IsDuplicate(rendered) THEN 0
                                        ELSE ChunksOf[rendered.hash]
  <2> DEFINE row == [status |-> "completed", hash |-> rendered.hash,
                     dup |-> IsDuplicate(rendered),
                     chunks |-> IF IsDuplicate(rendered) THEN 0
                                ELSE ChunksOf[rendered.hash]]
  <2>1. cur \in Jobs /\ idx \in Pages
    BY <1>4, WorkerHasJob DEF CompletePage, TypeOK, WorkerTypes, PageStep
  <2>2. page' = [page EXCEPT ![cur] = [page[cur] EXCEPT ![idx] = row]]
    BY <1>4 DEF CompletePage
  <2>3. /\ row.status = "completed" /\ row.hash = rendered.hash
        /\ row.dup = IsDuplicate(rendered)
        /\ row.chunks = IF IsDuplicate(rendered) THEN 0 ELSE ChunksOf[rendered.hash]
    OBVIOUS
  <2> HIDE DEF row
  <2> QED
    BY <1>0, <2>1, <2>2, <2>3
<1> QED
  BY <1>1, <1>2, <1>3, <1>4, PageWriters

-----------------------------------------------------------------------------
(* Ownership: nobody touches a job before it is queued *)

\* OwnInit: nothing is queued, held or known at first.
LEMMA OwnInit == Init => OwnInv
<1> SUFFICES ASSUME Init PROVE OwnInv
  OBVIOUS
<1>1. /\ \A j \in Jobs : job[j].status = "none"
      /\ \A j \in Jobs, p \in Pages : page[j][p].status = "absent"
  BY DEF Init, NoRow, NoPage
<1>2. pc = "idle" /\ queue = <<>> /\ up /\ NoJob \notin Jobs /\ cur = NoJob
  BY IngestAssumption DEF Init
<1>3. NotYetQueued
  BY <1>1, <1>2 DEF NotYetQueued
<1>4. EmptyWhenDown /\ PagesKnown /\ StatusAtExit
  BY <1>1, <1>2 DEF EmptyWhenDown, PagesKnown, StatusAtExit, PageStep
<1> QED
  BY <1>3, <1>4 DEF OwnInv

\* DownOnlyRestarts: a dead process takes no step but its restart.
LEMMA DownOnlyRestarts ==
    ASSUME EmptyWhenDown, ~up, [Next]_vars
    PROVE  UNCHANGED vars \/ Restart
<1>1. pc = "idle"
  BY DEF EmptyWhenDown
<1>2. ASSUME WorkerStep \/ PageFaults \/ WebhookFaults \/ JobFaults PROVE FALSE
  <2>1. StartJob
    BY <1>1, <1>2, WorkerFrame
  <2> QED
    BY <2>1 DEF StartJob
<1>3. ASSUME NEW j \in Jobs, ClientStep(j) PROVE FALSE
  BY <1>3, ClientFrame
<1> QED
  BY <1>2, <1>3, StepKinds DEF Crash

\* DownKept: a process that goes down drops its queue, its job and its requests.
LEMMA DownKept == ASSUME TypeOK, EmptyWhenDown, [Next]_vars PROVE EmptyWhenDown'
<1>1. CASE ~up
  BY <1>1, DownOnlyRestarts DEF EmptyWhenDown, vars, envVars, clientVars, Restart
<1>2. CASE up
  <2>1. CASE Crash
    BY <2>1 DEF Crash, EmptyWhenDown, TypeOK, ClientTypes, InSubmit
  <2>2. CASE ~Crash
    <3>1. up' = up
      BY <1>2, <2>2, StepKinds, ClientFrame, WorkerFrame DEF vars, envVars, Restart
    <3> QED
      BY <1>2, <3>1 DEF EmptyWhenDown
  <2> QED
    BY <2>1, <2>2
<1> QED
  BY <1>1, <1>2

\* SubmitMoves: a submit handler never goes back before the queue.
LEMMA SubmitMoves ==
    ASSUME TypeOK, [Next]_vars, NEW j \in Jobs, submit'[j] \in BeforeQueue
    PROVE  /\ submit[j] \in BeforeQueue
           /\ \/ submit'[j] = submit[j]
              \/ submit[j] # "paged" /\ submit'[j] # "paged"
              \/ CreateFilePages(j)
<1> USE DEF BeforeQueue, InSubmit
<1> DEFINE Goal == /\ submit[j] \in BeforeQueue
                   /\ \/ submit'[j] = submit[j]
                      \/ submit[j] # "paged" /\ submit'[j] # "paged"
                      \/ CreateFilePages(j)
<1>0. submit \in [Jobs -> InSubmit \cup {"idle", "done", "failed", "lost", "cut"}]
  BY DEF TypeOK, ClientTypes
<1>1. ASSUME NEW k \in Jobs, SubmitStep(k) PROVE Goal
  BY <1>0, <1>1 DEF SubmitStep, AcceptSubmit, CreateJob, CreateFilePages, Submit,
                    StageUpload, ScheduleFileCleanup
<1>2. ASSUME NEW k \in Jobs, SubmitFault(k) \/ TimeOutSubmit(k) PROVE Goal
  BY <1>0, <1>2 DEF SubmitFault, TimeOutSubmit
<1>3. ASSUME NEW k \in Jobs, CancelJob(k) \/ RetryWebhook(k) \/ SetRetryDelivered(k)
      PROVE  Goal
  BY <1>3 DEF CancelJob, RetryWebhook, SetRetryDelivered, clientVars
<1>4. CASE WorkerStep \/ PageFaults \/ WebhookFaults \/ JobFaults
  BY <1>4, WorkerFrame
<1>5. CASE Crash
  BY <1>0, <1>5 DEF Crash
<1>6. CASE UNCHANGED vars \/ Restart
  BY <1>6 DEF Restart, vars, clientVars
<1> QED
  BY <1>1, <1>2, <1>3, <1>4, <1>5, <1>6, StepKinds DEF ClientStep

\* NotYetQueuedKept: the only step that touches a job before it is queued is one
\* of its own submit handler, or a cancel.
LEMMA NotYetQueuedKept ==
    ASSUME TypeOK, StepInv, OwnInv, [Next]_vars
    PROVE  NotYetQueued'
<1> USE DEF BeforeQueue, InSubmit
<1> SUFFICES ASSUME NEW j \in Jobs, submit'[j] \in BeforeQueue
             PROVE  /\ cur' # j /\ \A i \in DOMAIN queue' : queue'[i] # j
                    /\ job'[j].status \in {"none", "queued", "canceled"}
                    /\ \A p \in Pages : page'[j][p].status \in
                           IF submit'[j] = "paged" THEN {"absent", "pending"}
                           ELSE {"absent"}
  BY DEF NotYetQueued
<1>0. /\ queue \in Seq(Jobs)
      /\ submit \in [Jobs -> InSubmit \cup {"idle", "done", "failed", "lost", "cut"}]
  BY DEF TypeOK, WorkerTypes, ClientTypes
<1>1. /\ submit[j] \in BeforeQueue
      /\ \/ submit'[j] = submit[j]
         \/ submit[j] # "paged" /\ submit'[j] # "paged"
         \/ CreateFilePages(j)
  BY SubmitMoves
<1>2. /\ cur # j /\ \A i \in DOMAIN queue : queue[i] # j
      /\ job[j].status \in {"none", "queued", "canceled"}
      /\ \A p \in Pages : page[j][p].status \in
             IF submit[j] = "paged" THEN {"absent", "pending"} ELSE {"absent"}
  BY <1>1 DEF OwnInv, NotYetQueued
<1>3. cur' # j
  <2>1. CASE StartJob
    BY <1>0, <1>2, <2>1 DEF StartJob
  <2>2. CASE ~StartJob
    <3>1. cur' = cur \/ cur' = NoJob
      BY <2>2, StepKinds, ClientFrame, WorkerFrame
         DEF vars, Crash, Restart
    <3> QED
      BY <1>2, <3>1, IngestAssumption
  <2> QED
    BY <2>1, <2>2
<1>4. \A i \in DOMAIN queue' : queue'[i] # j
  <2>1. CASE StartJob
    BY <1>0, <1>2, <2>1 DEF StartJob
  <2>2. ASSUME NEW k \in Jobs, Submit(k) PROVE \A i \in DOMAIN queue' : queue'[i] # j
    <3>1. k # j /\ queue' = Append(queue, k)
      BY <1>0, <2>2 DEF Submit
    <3> QED
      BY <1>0, <1>2, <3>1
  <2>3. CASE Restart
    <3>1. submit[j] = "idle" /\ job[j].status = "none"
      BY <1>1, <2>3 DEF Restart, OwnInv, EmptyWhenDown, StepInv, NoRowBeforeCreate
    <3>2. \A i \in DOMAIN queue' : queue'[i] \in ActiveJobs
      BY <2>3 DEF Restart
    <3> QED
      BY <3>1, <3>2 DEF ActiveJobs, Active
  <2>4. CASE Crash
    BY <2>4 DEF Crash
  <2>5. CASE UNCHANGED queue
    BY <1>2, <2>5
  <2>6. ASSUME NEW k \in Jobs, ClientStep(k) PROVE UNCHANGED queue \/ Submit(k)
    BY <2>6 DEF ClientStep, SubmitStep, AcceptSubmit, CreateJob, CreateFilePages,
                StageUpload, ScheduleFileCleanup, SubmitFault, TimeOutSubmit, CancelJob,
                RetryWebhook,
                SetRetryDelivered
  <2> QED
    BY <2>1, <2>2, <2>3, <2>4, <2>5, <2>6, StepKinds, WorkerFrame DEF vars
<1>5. job'[j].status \in {"none", "queued", "canceled"}
  BY <1>2, StatusMoves
<1>6. ASSUME NEW p \in Pages
      PROVE  page'[j][p].status \in IF submit'[j] = "paged" THEN {"absent", "pending"}
                                    ELSE {"absent"}
  <2>1. CASE CreateFilePages(j)
    <3>1. submit'[j] = "paged"
      BY <1>0, <2>1 DEF CreateFilePages
    <3>2. page'[j][p].status \in {"absent", "pending"}
      BY <1>2, <2>1, PageMoves
    <3> QED
      BY <3>1, <3>2
  <2>2. CASE ~CreateFilePages(j)
    <3>1. page'[j][p] = page[j][p]
      BY <1>2, <2>2, PageMoves
    <3> QED
      BY <1>1, <1>2, <2>2, <3>1
  <2> QED
    BY <2>1, <2>2
<1> QED
  BY <1>3, <1>4, <1>5, <1>6

\* Quiet: a step that leaves the worker where it is, and its objects and bills.
Quiet == /\ UNCHANGED <<pc, cur, idx, localVars, billed, staged, final>>
         /\ UNCHANGED page \/ \E j \in Jobs : CreateFilePages(j)

\* ControlFlow: how a step may leave the worker in the middle of a job.
LEMMA ControlFlow ==
    ASSUME [Next]_vars, pc' # "idle"
    PROVE  \/ Quiet
           \/ StartJob /\ pc' = "subscription" /\ job[cur'].status \notin Terminal
           \/ /\ cur' = cur /\ pc # "idle"
              /\ \/ LoadPages /\ pc' = IF HasPages(cur) THEN "discovered" ELSE "discover"
                 \/ BeginDiscovery /\ pc' = "discovering"
                 \/ (\E n \in Pages : DiscoverPages(n)) /\ pc' = "discovered"
                 \/ RecordDiscovered /\ pc' = "begin"
                 \/ BeginProcessing /\ pc' = "next" /\ job[cur].status \in Active
                 \/ NextPage /\ pc' \in {"next", "cleanup", "skip", "quota"}
                 \/ PagesDone /\ pc' = "assemble"
                 \/ CheckOpsQuota /\ pc' \in {"mark", "skip"}
                 \/ MarkPageProcessing /\ pc' = "render"
                 \/ /\ \/ \E u \in Urls, h \in Hashes : RenderUrl(u, h)
                       \/ \E h \in Hashes : ConvertFile(h)
                    /\ pc' = "stage"
                 \/ RenderFails /\ pc' \in {"skip", "fail"}
                 \/ StagePage /\ pc' = "complete"
                 \/ CompletePage /\ pc' \in {"sync", "bill"}
                 \/ PageFaults /\ pc' = "fail"
                 \/ (SkipPage \/ BillPage \/ FailPage) /\ pc' = "sync"
                 \/ SyncProgress /\ pc' = "next"
                 \/ Assemble /\ pc' \in {"cleanup", "fail_all", "stream"}
                 \/ (StreamPage \/ DemotePage) /\ pc' = "stream"
                 \/ StreamDone /\ pc' \in {"fail_all", "upload"}
                 \/ FailAll /\ pc' = "cleanup"
                 \/ UploadFinal /\ pc' = "finish"
                 \/ FinishJob /\ pc' \in {"discard", "webhook", "unstage"}
                 \/ DeliverWebhook /\ pc' \in {"hook_ok", "hook_failed"}
                 \/ (SetWebhookDelivered \/ WebhookFaults \/ DiscardFinal)
                    /\ pc' = "unstage"
                 \/ Unstage /\ pc' = "cleanup"
<1> USE DEF rowVars, objVars, localVars, clientVars, envVars
<1>1. CASE UNCHANGED vars \/ Restart
  BY <1>1 DEF vars, Restart, Quiet
<1>2. ASSUME NEW j \in Jobs, ClientStep(j) PROVE Quiet
  BY <1>2, ClientFrame DEF Quiet
<1>3. CASE \/ StartJob \/ LoadPages \/ SubscriptionUnavailable \/ BeginDiscovery
           \/ \E n \in Pages : DiscoverPages(n)
           \/ DiscoveryFails \/ RecordDiscovered \/ BeginProcessing
  BY <1>3 DEF StartJob, LoadPages, SubscriptionUnavailable, BeginDiscovery,
              DiscoverPages, DiscoveryFails, RecordDiscovered, BeginProcessing
<1>4. CASE NextPage \/ PagesDone \/ CheckOpsQuota \/ SkipPage \/ MarkPageProcessing
  BY <1>4 DEF NextPage, PagesDone, CheckOpsQuota, SkipPage, MarkPageProcessing
<1>5. CASE \/ \E u \in Urls, h \in Hashes : RenderUrl(u, h)
           \/ \E h \in Hashes : ConvertFile(h)
           \/ RenderFails \/ StagePage
  BY <1>5 DEF RenderUrl, ConvertFile, RenderFails, StagePage
<1>6. CASE CompletePage \/ BillPage \/ FailPage \/ SyncProgress \/ PageFaults
  BY <1>6 DEF CompletePage, AfterComplete, BillPage, FailPage, SyncProgress, PageFaults
<1>7. CASE \/ Assemble \/ StreamPage \/ DemotePage \/ StreamDone \/ FailAll
           \/ UploadFinal \/ FinishJob
  BY <1>7 DEF Assemble, StreamPage, DemotePage, StreamDone, FailAll, UploadFinal,
              FinishJob, AfterFinish
<1>8. CASE \/ DeliverWebhook \/ SetWebhookDelivered \/ WebhookFaults \/ DiscardFinal
           \/ Unstage \/ CleanupSourceFiles \/ JobFaults \/ Crash
  BY <1>8 DEF DeliverWebhook, SetWebhookDelivered, WebhookFaults, DiscardFinal, Unstage,
              CleanupSourceFiles, JobFaults, Crash
<1> QED
  BY <1>1, <1>2, <1>3, <1>4, <1>5, <1>6, <1>7, <1>8, StepKinds
     DEF WorkerStep, RunStep, AssembleStep

\* QuietPages: a quiet step keeps the pages of the worker's job.
LEMMA QuietPages ==
    ASSUME TypeOK, OwnInv, Quiet, pc # "idle"
    PROVE  page'[cur] = page[cur]
<1>1. ASSUME NEW j \in Jobs, CreateFilePages(j) PROVE page'[cur] = page[cur]
  <2>1. j # cur /\ cur \in Jobs
    BY <1>1, WorkerHasJob
       DEF CreateFilePages, OwnInv, NotYetQueued, BeforeQueue, InSubmit
  <2> QED
    BY <1>1, <2>1 DEF CreateFilePages, TypeOK, RowTypes
<1> QED
  BY <1>1 DEF Quiet

\* PresenceMoves: a job's pages appear together, by its submit handler or by
\* discovery, and a page never disappears.
LEMMA PresenceMoves ==
    ASSUME TypeOK, OwnInv, [Next]_vars, NEW j \in Jobs, NEW p \in Pages
    PROVE  \/ (page'[j][p].status = "absent") = (page[j][p].status = "absent")
           \/ /\ ~HasPages(j)
              /\ \/ CreateFilePages(j)
                 \/ cur = j /\ \E n \in Pages : DiscoverPages(n)
<1>1. ASSUME CreateFilePages(j) PROVE ~HasPages(j)
  BY <1>1 DEF CreateFilePages, OwnInv, NotYetQueued, BeforeQueue, InSubmit, HasPages
<1>2. ASSUME cur = j, NEW n \in Pages, DiscoverPages(n) PROVE ~HasPages(j)
  BY <1>2 DEF DiscoverPages, OwnInv, PagesKnown
<1>3. ASSUME cur = j, idx = p, SkipPage \/ MarkPageProcessing \/ FailPage \/ CompletePage
      PROVE  page[j][p].status # "absent"
  BY <1>3 DEF SkipPage, MarkPageProcessing, FailPage, CompletePage, OwnInv, PagesKnown,
              PageStep
<1>4. ASSUME cur = j, idx = p, DemotePage PROVE page[j][p].status # "absent"
  BY <1>4 DEF DemotePage
<1> QED
  BY <1>1, <1>2, <1>3, <1>4, PageMoves

\* HasPagesKept: pages once there stay, and none appears under the worker's hands
\* except by discovery.
LEMMA HasPagesKept ==
    ASSUME TypeOK, OwnInv, [Next]_vars, NEW j \in Jobs
    PROVE  /\ HasPages(j) => HasPages(j)'
           /\ HasPages(j)' => \/ HasPages(j) \/ CreateFilePages(j)
                              \/ cur = j /\ \E n \in Pages : DiscoverPages(n)
BY PresenceMoves DEF HasPages

\* The control part of the ownership invariant is kept.
LEMMA PagesKnownKept ==
    ASSUME TypeOK, TypeOK', StepInv, OwnInv, [Next]_vars
    PROVE  PagesKnown'
<1> USE DEF PageStep
<1>0. PagesKnown /\ (pc # "idle" => cur \in Jobs) /\ (pc' # "idle" => cur' \in Jobs)
  BY DEF OwnInv, TypeOK, WorkerTypes
<1>a. ASSUME NEW j \in Jobs, cur = j PROVE ~CreateFilePages(j)
  BY <1>a DEF CreateFilePages, OwnInv, NotYetQueued, BeforeQueue, InSubmit
<1>1. ASSUME pc' \in {"discover", "discovering"} PROVE ~HasPages(cur)'
  <2>1. /\ cur' = cur /\ cur \in Jobs /\ ~HasPages(cur)
        /\ \A n \in Pages : ~DiscoverPages(n)
    <3>1. \A n \in Pages : ~DiscoverPages(n)
      BY <1>1 DEF DiscoverPages
    <3>2. cur' = cur /\ ~HasPages(cur)
      BY <1>0, <1>1, ControlFlow DEF Quiet, PagesKnown, BeginDiscovery, LoadPages
    <3> QED
      BY <1>0, <1>1, <3>1, <3>2
  <2>2. PICK j \in Jobs : j = cur
    BY <2>1
  <2>3. ~HasPages(j)'
    BY <1>a, <2>1, <2>2, HasPagesKept
  <2> QED
    BY <2>1, <2>2, <2>3 DEF HasPages
<1>2. ASSUME pc' \in {"discovered", "begin"} PROVE HasPages(cur)'
  <2>1. cur' = cur /\ cur \in Jobs /\ (HasPages(cur) \/ \E n \in Pages : DiscoverPages(n))
    BY <1>0, <1>2, ControlFlow DEF Quiet, PagesKnown, RecordDiscovered, LoadPages
  <2>2. PICK j \in Jobs : j = cur
    BY <2>1
  <2>3. CASE HasPages(cur)
    <3>1. HasPages(j)'
      BY <2>2, <2>3, HasPagesKept
    <3> QED
      BY <2>1, <2>2, <3>1 DEF HasPages
  <2>4. ASSUME NEW n \in Pages, DiscoverPages(n) PROVE HasPages(cur)'
    <3>1. [NoPage EXCEPT !.status = "pending"].status # "absent"
      BY DEF NoPage
    <3>2. page'[cur][n] = [NoPage EXCEPT !.status = "pending"]
      BY <2>1, <2>4 DEF DiscoverPages, TypeOK, RowTypes, Pages
    <3> QED
      BY <2>1, <3>1, <3>2 DEF HasPages
  <2> QED
    BY <2>1, <2>3, <2>4
<1>3. ASSUME NEW j \in Jobs, job'[j].status = "processing" PROVE HasPages(j)'
  <2>1. HasPages(j)
    BY <1>0, <1>3, StatusMoves DEF PagesKnown, BeginProcessing
  <2> QED
    BY <2>1, HasPagesKept
<1>4. ASSUME pc' \in PageStep PROVE page'[cur'][idx'].status # "absent"
  <2>1. cur' = cur /\ idx' = idx /\ cur \in Jobs
    BY <1>0, <1>4, ControlFlow
       DEF Quiet, NextPage, CheckOpsQuota, MarkPageProcessing, RenderUrl, ConvertFile,
           RenderFails, StagePage, CompletePage, PageFaults, SkipPage, BillPage, FailPage
  <2>2. pc \in PageStep \/ (NextPage /\ page[cur][idx].status \in Resumable)
    BY <1>4, ControlFlow
       DEF Quiet, NextPage, CheckOpsQuota, MarkPageProcessing, RenderUrl, ConvertFile,
           RenderFails, StagePage, CompletePage, PageFaults, SkipPage, BillPage, FailPage
  <2>3. page[cur][idx].status # "absent"
    BY <1>0, <2>2 DEF PagesKnown, Resumable
  <2>4. idx \in Pages
    BY <1>4, <2>1 DEF TypeOK, WorkerTypes
  <2>5. HasPages(cur)
    BY <2>3, <2>4 DEF HasPages
  <2>6. page'[cur][idx].status # "absent"
    BY <2>1, <2>3, <2>4, <2>5, PresenceMoves
  <2> QED
    BY <2>1, <2>6
<1>5. ASSUME pc' \in {"quota", "mark"} PROVE page'[cur'][idx'].status \in Resumable
  <2>1. UNCHANGED <<cur, idx, page>> \/ (cur' = cur /\ idx' = idx /\ pc' = pc)
    BY <1>5, ControlFlow DEF Quiet, NextPage, CheckOpsQuota, rowVars
  <2>2. pc \in {"quota", "mark"} \/ (NextPage /\ page[cur][idx].status \in Resumable)
    BY <1>5, ControlFlow DEF Quiet, NextPage, CheckOpsQuota
  <2>3. page[cur][idx].status \in Resumable /\ cur \in Jobs /\ idx \in Pages
    BY <1>0, <1>5, <2>1, <2>2 DEF PagesKnown, TypeOK, WorkerTypes
  <2>4. CASE cur' = cur /\ idx' = idx /\ pc' = pc
    <3>1. page'[cur][idx] = page[cur][idx] \/ MarkPageProcessing
      BY <1>a, <1>5, <2>3, <2>4, PageMoves
         DEF DiscoverPages, SkipPage, FailPage, DemotePage, CompletePage
    <3> QED
      BY <1>5, <2>3, <2>4, <3>1 DEF MarkPageProcessing
  <2> QED
    BY <2>1, <2>3, <2>4
<1> QED
  BY <1>1, <1>2, <1>3, <1>4, <1>5 DEF PagesKnown

\* ExitKept: the worker cleans up after settled jobs only.
LEMMA ExitKept ==
    ASSUME TypeOK, TypeOK', StepInv, StepInv', OwnInv, [Next]_vars
    PROVE  StatusAtExit'
<1>0. (pc # "idle" => cur \in Jobs) /\ (pc' # "idle" => cur' \in Jobs)
  BY DEF TypeOK, WorkerTypes
<1>s. ASSUME NEW j \in Jobs, job[j].status \in Terminal
      PROVE  job'[j].status \in Terminal
  BY <1>s, StatusMoves DEF Active, Terminal
<1>1. ASSUME pc' = "cleanup" PROVE job'[cur'].status \in Terminal
  <2>1. cur' = cur /\ cur \in Jobs
    BY <1>0, <1>1, ControlFlow DEF Quiet
  <2>2. CASE FailAll
    <3>1. job'[cur].status = IF job[cur].status \in Active THEN "failed"
                             ELSE job[cur].status
      BY <2>1, <2>2, TransitionStatuses DEF FailAll, FailJob, TypeOK, RowTypes
    <3>2. job[cur].status \in {"processing", "canceled"}
      BY <2>2 DEF FailAll, StepInv, StatusAtStep
    <3> QED
      BY <2>1, <3>1, <3>2 DEF Active, Terminal
  <2>3. CASE ~FailAll
    <3>1. job[cur].status \in Terminal
      BY <1>1, <2>3, ControlFlow
         DEF Quiet, NextPage, Assemble, Unstage, OwnInv, StatusAtExit, StepInv,
             StatusAtStep,
             Terminal
    <3> QED
      BY <1>s, <2>1, <3>1
  <2> QED
    BY <2>2, <2>3
<1>2. ASSUME pc' # "idle", job'[cur'].status = "completed"
      PROVE  pc' \in {"webhook", "hook_ok", "hook_failed", "unstage", "cleanup"}
  <2>1. CASE job[cur'].status = "completed"
    <3>1. /\ cur' = cur
          /\ pc \in {"webhook", "hook_ok", "hook_failed", "unstage", "cleanup"}
      BY <1>2, <2>1, ControlFlow DEF Quiet, OwnInv, StatusAtExit, Terminal, StartJob
    <3> QED
      BY <1>2, <3>1, ControlFlow
         DEF Quiet, StartJob, LoadPages, BeginDiscovery, DiscoverPages,
             RecordDiscovered, BeginProcessing,
             NextPage, PagesDone, CheckOpsQuota, MarkPageProcessing, RenderUrl,
             ConvertFile, RenderFails, StagePage, CompletePage, PageFaults, SkipPage,
             BillPage, FailPage, SyncProgress, Assemble, StreamPage, DemotePage,
             StreamDone, FailAll, UploadFinal, FinishJob
  <2>2. CASE job[cur'].status # "completed"
    <3>1. FinishJob
      BY <1>0, <1>2, <2>2, StatusMoves
    <3>2. pc' = AfterFinish(cur) /\ job[cur].status \in Active
      <4>1. cur' = cur /\ pc' = AfterFinish(cur)
        BY <3>1 DEF FinishJob
      <4> QED
        BY <1>0, <1>2, <2>2, <4>1, StatusMoves
    <3> QED
      BY <3>2 DEF AfterFinish
  <2> QED
    BY <2>1, <2>2
<1> QED
  BY <1>1, <1>2 DEF StatusAtExit

\* OwnKept: every step keeps the ownership invariant.
LEMMA OwnKept ==
    ASSUME TypeOK, TypeOK', StepInv, StepInv', OwnInv, [Next]_vars
    PROVE  OwnInv'
BY NotYetQueuedKept, DownKept, PagesKnownKept, ExitKept DEF OwnInv

-----------------------------------------------------------------------------
(* Every active job is served *)

\* LetGo: without a fault the worker lets go of a job only when it is settled.
LEMMA LetGo ==
    ASSUME TypeOK, StepInv, OwnInv, [Next]_vars, pc # "idle", up', faults' = faults,
           cur' # cur
    PROVE  job'[cur].status \notin Active
<1>0. cur \in Jobs /\ job \in [Jobs -> JobRow] /\ faults \in Nat /\ up
  BY IngestAssumption, WorkerHasJob
     DEF TypeOK, RowTypes, ClientTypes, OwnInv, EmptyWhenDown
<1>1. CASE SubscriptionUnavailable \/ DiscoveryFails
  <2>1. TransitionStatus(cur, "failed", Active)
    BY <1>1 DEF SubscriptionUnavailable, DiscoveryFails, FailJob
  <2> QED
    BY <1>0, <2>1, TransitionStatuses DEF Active
<1>2. CASE BeginDiscovery
  <2>1. /\ job[cur].status \notin {"queued", "discovering"}
        /\ TransitionStatus(cur, "discovering", {"queued", "discovering"})
        /\ pc = "discover"
    BY <1>2 DEF BeginDiscovery
  <2>2. job'[cur].status = job[cur].status
    BY <1>0, <2>1, TransitionStatuses
  <2>3. job[cur].status # "processing"
    BY <1>0, <2>1 DEF OwnInv, PagesKnown
  <2> QED
    BY <2>1, <2>2, <2>3 DEF Active
<1>3. CASE BeginProcessing
  <2>1. job[cur].status \notin Active /\ TransitionStatus(cur, "processing", Active)
    BY <1>3 DEF BeginProcessing
  <2> QED
    BY <1>0, <2>1, TransitionStatuses
<1>4. CASE CleanupSourceFiles
  <2>1. job[cur].status \in Terminal /\ job' = job
    BY <1>4 DEF CleanupSourceFiles, OwnInv, StatusAtExit, rowVars
  <2> QED
    BY <2>1 DEF Active, Terminal
<1>5. CASE pc' # "idle"
  BY <1>5, ControlFlow DEF Quiet, StartJob
<1>6. CASE pc' = "idle" /\ ~CleanupSourceFiles
  <2>1. ~Crash /\ ~Restart /\ ~UNCHANGED vars /\ ~JobFaults
    BY <1>0 DEF Crash, Restart, JobFaults, Fault, vars
  <2>2. ASSUME NEW j \in Jobs PROVE ~ClientStep(j)
    BY <2>2, ClientFrame
  <2>3. ~PageFaults /\ ~WebhookFaults
    BY <1>6 DEF PageFaults, WebhookFaults
  <2>4. RunStep => SubscriptionUnavailable \/ DiscoveryFails \/ BeginDiscovery
                   \/ BeginProcessing
    BY <1>6 DEF RunStep, StartJob, LoadPages, DiscoverPages, RecordDiscovered, NextPage,
                PagesDone, CheckOpsQuota, SkipPage, MarkPageProcessing, RenderUrl,
                ConvertFile, RenderFails, StagePage, CompletePage, BillPage, FailPage,
                SyncProgress
  <2>5. ~AssembleStep
    BY <1>6 DEF AssembleStep, Assemble, StreamPage, DemotePage, StreamDone, FailAll,
                UploadFinal, FinishJob, DeliverWebhook, SetWebhookDelivered,
                DiscardFinal, Unstage
  <2> QED
    BY <1>1, <1>2, <1>3, <2>1, <2>2, <2>3, <2>4, <2>5, StepKinds DEF WorkerStep
<1> QED
  BY <1>4, <1>5, <1>6

\* ScheduledKept: no step leaves an accepted active job without queue and worker.
LEMMA ScheduledKept ==
    ASSUME TypeOK, TypeOK', StepInv, OwnInv, ActiveIsScheduled, [Next]_vars
    PROVE  ActiveIsScheduled'
<1> DEFINE Served(j) == cur = j \/ \E i \in DOMAIN queue : queue[i] = j
<1> SUFFICES ASSUME NEW j \in Jobs, faults' = 0, up', job'[j].status \in Active,
                    submit'[j] \notin InSubmit \cup {"cut"}
             PROVE  cur' = j \/ \E i \in DOMAIN queue' : queue'[i] = j
  BY DEF ActiveIsScheduled, Scheduled
<1>0. /\ queue \in Seq(Jobs) /\ queue' \in Seq(Jobs) /\ faults \in Nat
      /\ submit \in [Jobs -> InSubmit \cup {"idle", "done", "failed", "lost", "cut"}]
  BY IngestAssumption DEF TypeOK, WorkerTypes, ClientTypes
<1>1. faults = 0 /\ ~Fault
  <2>1. faults' = faults \/ Fault
    BY StepKinds, ClientFrame, WorkerFrame DEF vars, envVars, Crash, Restart, NoFault
  <2> QED
    BY <1>0, <2>1 DEF Fault
<1>2. job[j].status \in Active \/ CreateJob(j)
  BY StatusMoves
<1>3. ~CreateJob(j)
  <2>1. CreateJob(j) => submit'[j] = "created"
    BY <1>0 DEF CreateJob
  <2> QED
    BY <2>1 DEF InSubmit
<1>4. ASSUME submit[j] \notin InSubmit \cup {"cut"}, up PROVE Served(j)
  BY <1>1, <1>2, <1>3, <1>4 DEF ActiveIsScheduled, Scheduled
<1>5. CASE UNCHANGED vars
  BY <1>4, <1>5 DEF vars, clientVars, envVars
<1>6. ASSUME NEW k \in Jobs, ClientStep(k)
      PROVE  cur' = j \/ \E i \in DOMAIN queue' : queue'[i] = j
  <2>1. CASE Submit(j)
    <3>1. queue' = Append(queue, j)
      BY <2>1 DEF Submit
    <3>2. Len(queue) + 1 \in DOMAIN queue' /\ queue'[Len(queue) + 1] = j
      BY <1>0, <3>1
    <3> QED
      BY <3>2
  <2>2. CASE ~Submit(j)
    <3>1. submit[j] \notin InSubmit \cup {"cut"}
      <4>1. CASE SubmitStep(k)
        BY <1>0, <2>2, <4>1
           DEF SubmitStep, AcceptSubmit, CreateJob, CreateFilePages, Submit,
               StageUpload, ScheduleFileCleanup, InSubmit
      <4>2. CASE SubmitFault(k) \/ TimeOutSubmit(k)
        BY <1>0, <1>1, <4>2 DEF SubmitFault, TimeOutSubmit
      <4>3. CASE CancelJob(k) \/ RetryWebhook(k) \/ SetRetryDelivered(k)
        BY <4>3 DEF CancelJob, RetryWebhook, SetRetryDelivered, clientVars
      <4> QED
        BY <1>6, <4>1, <4>2, <4>3 DEF ClientStep
    <3>2. Served(j) /\ cur' = cur
      BY <1>4, <1>6, <3>1, ClientFrame
    <3>3. queue' = queue \/ queue' = Append(queue, k)
      BY <1>6 DEF ClientStep, SubmitStep, AcceptSubmit, CreateJob, CreateFilePages,
                  Submit, StageUpload, ScheduleFileCleanup, SubmitFault, TimeOutSubmit, CancelJob,
                  RetryWebhook, SetRetryDelivered
    <3> QED
      BY <1>0, <3>2, <3>3
  <2> QED
    BY <2>1, <2>2
<1>7. CASE WorkerStep \/ PageFaults \/ WebhookFaults \/ JobFaults
  <2>1. submit' = submit /\ up' = up /\ Served(j)
    BY <1>4, <1>7, WorkerFrame
  <2>2. CASE StartJob
    <3>1. /\ pc = "idle" /\ queue # <<>> /\ queue' = Tail(queue) /\ job' = job
          /\ job[Head(queue)].status \notin Terminal => cur' = Head(queue)
      BY <2>2 DEF StartJob, rowVars
    <3>2. cur # j
      BY <3>1, IngestAssumption DEF TypeOK, WorkerTypes
    <3>3. PICK i \in DOMAIN queue : queue[i] = j
      BY <2>1, <3>2
    <3>4. CASE i = 1
      BY <1>0, <3>1, <3>3, <3>4 DEF Active, Terminal
    <3>5. CASE i # 1
      <4>1. i - 1 \in DOMAIN queue' /\ queue'[i - 1] = j
        BY <1>0, <3>1, <3>3, <3>5
      <4> QED
        BY <4>1
    <3> QED
      BY <3>4, <3>5
  <2>3. CASE ~StartJob
    <3>1. pc # "idle" /\ queue' = queue
      BY <1>7, <2>3, WorkerFrame
    <3>2. faults' = faults
      BY <1>1
    <3>3. cur = j => cur' = j
      BY <3>1, <3>2, LetGo
    <3> QED
      BY <2>1, <3>1, <3>3
  <2> QED
    BY <2>2, <2>3
<1>8. CASE Crash
  BY <1>8 DEF Crash
<1>9. CASE Restart
  <2>1. \E order \in [1..Cardinality(ActiveJobs) -> ActiveJobs] :
            ActiveJobs = {order[i] : i \in DOMAIN order} /\ queue' = order
    BY <1>1, <1>9 DEF Restart
  <2>2. j \in ActiveJobs
    BY <1>9 DEF Restart, ActiveJobs, rowVars
  <2> QED
    BY <2>1, <2>2
<1> QED
  BY <1>5, <1>6, <1>7, <1>8, <1>9, StepKinds

\* SourceWriters: an uploaded source disappears only by its own submit handler's
\* failure or when the worker is done with its job.
LEMMA SourceWriters ==
    ASSUME [Next]_vars, NEW j \in Jobs, NEW p \in Pages, <<j, p>> \in sources
    PROVE  <<j, p>> \in sources' \/ SubmitFault(j) \/ (cur = j /\ CleanupSourceFiles)
<1> USE DEF rowVars, objVars
<1>1. CASE UNCHANGED vars
  BY <1>1 DEF vars
<1>2. ASSUME NEW k \in Jobs, ClientStep(k) PROVE <<j, p>> \in sources' \/ SubmitFault(j)
  BY <1>2 DEF ClientStep, SubmitStep, AcceptSubmit, CreateJob, CreateFilePages, Submit,
              StageUpload, ScheduleFileCleanup, SubmitFault, TimeOutSubmit, SourcesOf, CancelJob,
              RetryWebhook, SetRetryDelivered
<1>3. CASE StartJob \/ LoadPages \/ SubscriptionUnavailable \/ BeginDiscovery
  BY <1>3 DEF StartJob, LoadPages, SubscriptionUnavailable, BeginDiscovery
<1>4. CASE \/ \E n \in Pages : DiscoverPages(n)
           \/ DiscoveryFails \/ RecordDiscovered \/ BeginProcessing
  BY <1>4 DEF DiscoverPages, DiscoveryFails, RecordDiscovered, BeginProcessing
<1>5. CASE NextPage \/ PagesDone \/ CheckOpsQuota \/ SkipPage \/ MarkPageProcessing
  BY <1>5 DEF NextPage, PagesDone, CheckOpsQuota, SkipPage, MarkPageProcessing
<1>6. CASE \/ \E u \in Urls, h \in Hashes : RenderUrl(u, h)
           \/ \E h \in Hashes : ConvertFile(h)
           \/ RenderFails \/ StagePage
  BY <1>6 DEF RenderUrl, ConvertFile, RenderFails, StagePage
<1>7. CASE CompletePage \/ BillPage \/ FailPage \/ SyncProgress
  BY <1>7 DEF CompletePage, BillPage, FailPage, SyncProgress
<1>8. CASE \/ Assemble \/ StreamPage \/ DemotePage \/ StreamDone \/ FailAll
           \/ UploadFinal \/ FinishJob
  BY <1>8 DEF Assemble, StreamPage, DemotePage, StreamDone, FailAll, UploadFinal,
              FinishJob
<1>9. CASE \/ DeliverWebhook \/ SetWebhookDelivered \/ DiscardFinal \/ Unstage
           \/ CleanupSourceFiles
  BY <1>9 DEF DeliverWebhook, SetWebhookDelivered, DiscardFinal, Unstage,
              CleanupSourceFiles, SourcesOf
<1>10. CASE PageFaults \/ WebhookFaults \/ JobFaults \/ Crash \/ Restart
  BY <1>10 DEF PageFaults, WebhookFaults, JobFaults, Crash, Restart
<1> QED
  BY <1>1, <1>2, <1>3, <1>4, <1>5, <1>6, <1>7, <1>8, <1>9, <1>10, StepKinds
     DEF WorkerStep, RunStep, AssembleStep

\* SourcesKept: a file page still owed keeps its uploaded source.
LEMMA SourcesKept ==
    ASSUME TypeOK, StepInv, OwnInv, SourceUntilConverted, [Next]_vars
    PROVE  SourceUntilConverted'
<1> SUFFICES ASSUME NEW j \in FileJobs, NEW p \in Pages, job'[j].status \in Active,
                    page'[j][p].status \in Resumable
             PROVE  <<j, p>> \in sources'
  BY DEF SourceUntilConverted
<1>0. j \in Jobs
  BY IngestAssumption
<1>1. ~CreateJob(j)
  <2>1. ASSUME CreateJob(j) PROVE page'[j][p].status = "absent"
    <3>1. submit[j] \in {"accepted", "staged"} /\ page' = page
      BY <2>1 DEF CreateJob
    <3> QED
      BY <1>0, <3>1 DEF OwnInv, NotYetQueued, BeforeQueue, InSubmit
  <2> QED
    BY <2>1 DEF Resumable
<1>2. job[j].status \in Active
  BY <1>0, <1>1, StatusMoves
<1>3. CASE CreateFilePages(j)
  <2>1. <<j, p>> \in sources
    <3>1. page[j][p].status = "absent"
      BY <1>0, <1>3 DEF CreateFilePages, OwnInv, NotYetQueued, BeforeQueue, InSubmit
    <3>2. ~(\E n \in Pages : DiscoverPages(n)) \/ cur # j
      BY DEF DiscoverPages
    <3>3. cur # j
      BY <1>0, <1>3 DEF CreateFilePages, OwnInv, NotYetQueued, BeforeQueue, InSubmit
    <3> QED
      BY <1>0, <3>1, <3>2, <3>3, PageMoves DEF Resumable
  <2> QED
    BY <1>3, <2>1 DEF CreateFilePages, objVars
<1>4. CASE ~CreateFilePages(j)
  <2>1. page[j][p].status \in Resumable
    <3>1. ~(\E n \in Pages : DiscoverPages(n)) \/ cur # j
      BY DEF DiscoverPages
    <3>2. cur = j /\ idx = p /\ MarkPageProcessing => page[j][p].status \in Resumable
      BY DEF MarkPageProcessing, OwnInv, PagesKnown
    <3> QED
      BY <1>0, <1>4, <3>1, <3>2, PageMoves DEF Resumable
  <2>2. <<j, p>> \in sources
    BY <1>2, <2>1 DEF SourceUntilConverted
  <2>3. ~SubmitFault(j)
    BY <1>0, <2>1 DEF SubmitFault, OwnInv, NotYetQueued, BeforeQueue, InSubmit, Resumable
  <2>4. ~(cur = j /\ CleanupSourceFiles)
    BY <1>2 DEF CleanupSourceFiles, OwnInv, StatusAtExit, Active, Terminal
  <2> QED
    BY <1>0, <2>2, <2>3, <2>4, SourceWriters
<1> QED
  BY <1>3, <1>4

\* OwnershipHolds: a job is touched by nobody but its submit handler before it is
\* queued, and by nobody but the worker after.
THEOREM OwnershipHolds == Spec => []OwnInv
<1>1. TypeOK /\ TypeOK' /\ StepInv /\ StepInv' /\ OwnInv /\ [Next]_vars => OwnInv'
  BY OwnKept
<1> QED
  BY <1>1, OwnInit, Inductive, PTL DEF Spec, IndInv

\* ActiveAlwaysServed: whatever crashes, cancels and uploads interleave, an accepted
\* active job is in the queue or in the worker's hands, unless a store call failed,
\* and a file page still owed has the source it is to be converted from.
THEOREM ActiveAlwaysServed == Spec => []ActiveIsServed
<1>1. Init => ActiveIsServed
  <2>1. Init => \A j \in Jobs : job[j].status = "none"
    BY DEF Init, NoRow
  <2> QED
    BY <2>1, IngestAssumption
       DEF ActiveIsServed, ActiveIsScheduled, SourceUntilConverted, Active
<1>2. /\ TypeOK /\ TypeOK' /\ StepInv /\ OwnInv /\ ActiveIsServed /\ [Next]_vars
      => ActiveIsServed'
  BY ScheduledKept, SourcesKept DEF ActiveIsServed
<1> QED
  BY <1>1, <1>2, OwnershipHolds, Inductive, PTL DEF Spec, IndInv

-----------------------------------------------------------------------------
(* The deliverable is what the rows say *)

\* CompletedFrozen: nothing touches the pages or the output of a completed job.
LEMMA CompletedFrozen ==
    ASSUME TypeOK, StepInv, OwnInv, [Next]_vars, NEW j \in Jobs,
           job[j].status = "completed"
    PROVE  page'[j] = page[j] /\ final'[j] = final[j]
<1>0. /\ page \in [Jobs -> [Pages -> PageRow]]
      /\ final \in [Jobs -> [there : BOOLEAN, parts : [Pages -> Blobs]]]
  BY DEF TypeOK, RowTypes, ObjectTypes
<1>1. ~CreateFilePages(j)
  BY DEF CreateFilePages, OwnInv, NotYetQueued, BeforeQueue, InSubmit
<1>2. ASSUME cur = j
      PROVE  pc \in {"idle", "webhook", "hook_ok", "hook_failed", "unstage", "cleanup"}
  BY <1>2 DEF OwnInv, StatusAtExit
<1>3. page'[j] = page[j]
  <2>1. ASSUME NEW k \in Jobs, CreateFilePages(k) PROVE page'[j] = page[j]
    BY <1>0, <1>1, <2>1 DEF CreateFilePages
  <2>2. ASSUME NEW n \in Pages, DiscoverPages(n) PROVE page'[j] = page[j]
    BY <1>0, <1>2, <2>2 DEF DiscoverPages
  <2>3. CASE SkipPage \/ MarkPageProcessing \/ CompletePage \/ FailPage \/ DemotePage
    BY <1>0, <1>2, <2>3 DEF SkipPage, MarkPageProcessing, CompletePage, FailPage,
                            DemotePage, SetPageStatus
  <2> QED
    BY <2>1, <2>2, <2>3, PageWriters
<1>4. final'[j] = final[j]
  <2>1. CASE UploadFinal \/ DiscardFinal
    BY <1>0, <1>2, <2>1 DEF UploadFinal, DiscardFinal
  <2>2. ASSUME NEW k \in Jobs, CreateJob(k) \/ CancelJob(k) \/ SetRetryDelivered(k)
        PROVE  final' = final
    BY <2>2 DEF CreateJob, CancelJob, SetRetryDelivered, objVars
  <2>3. CASE \/ SubscriptionUnavailable \/ BeginDiscovery \/ DiscoveryFails
             \/ RecordDiscovered \/ BeginProcessing \/ SyncProgress \/ FailAll
             \/ FinishJob \/ SetWebhookDelivered
    BY <2>3 DEF SubscriptionUnavailable, BeginDiscovery, DiscoveryFails,
                RecordDiscovered, BeginProcessing, SyncProgress, FailAll, FinishJob,
                SetWebhookDelivered, objVars
  <2> QED
    BY <2>1, <2>2, <2>3, RowWriters
<1> QED
  BY <1>3, <1>4

\* A contribution is a blob, and absent only for a page that is not completed.
LEMMA ContentType ==
    ASSUME TypeOK, NEW j \in Jobs, NEW p \in Pages
    PROVE  /\ Content(j, p) = "absent" <=> page[j][p].status # "completed"
           /\ Content(j, p) \in Hashes =>
                  page[j][p].status = "completed" /\ ~page[j][p].dup
<1>1. page[j][p] \in PageRow
  BY DEF TypeOK, RowTypes
<1>2. page[j][p].hash \in Hashes \cup {NoHash}
  BY <1>1 DEF PageRow
<1> QED
  BY <1>2, IngestAssumption DEF Content

\* SpoolStreamed: the spool follows the pages already streamed.
LEMMA SpoolStreamed ==
    ASSUME TypeOK, TypeOK', StepInv, OwnInv, SpoolExact, [Next]_vars, pc' = "stream",
           NEW p \in Pages
    PROVE  /\ spool'[p] = IF p < idx' THEN Content(cur, p)' ELSE "absent"
           /\ page'[cur'][p].status = "completed" => staged'[cur'][p] = Content(cur, p)'
<1> USE DEF objVars
<1>0. /\ cur' = cur /\ cur \in Jobs /\ pc # "idle"
      /\ spool \in [Pages -> Blobs] /\ p \in Nat
  BY ControlFlow, WorkerHasJob DEF Quiet, TypeOK, WorkerTypes, Pages
<1>1. CASE Quiet
  <2>1. /\ pc = "stream" /\ idx' = idx /\ spool' = spool /\ staged' = staged
    BY <1>1 DEF Quiet, localVars
  <2>2. page'[cur] = page[cur]
    BY <1>0, <1>1, QuietPages
  <2>3. Content(cur, p)' = Content(cur, p)
    BY <1>0, <2>2 DEF Content
  <2> QED
    BY <1>0, <2>1, <2>2, <2>3 DEF SpoolExact
<1>2. CASE Assemble
  <2>1. /\ job[cur].status # "canceled" /\ pc = "assemble"
        /\ spool'[p] = "absent" /\ idx' = 1 /\ page' = page /\ staged' = staged
    BY <1>2 DEF Assemble, rowVars
  <2>2. job[cur].status \notin Terminal
    BY <2>1 DEF StepInv, StatusAtStep, Terminal
  <2>3. page[cur][p].status = "completed" => staged[cur][p] = Content(cur, p)
    BY <1>0, <2>2 DEF StepInv, StagedUnlessTerminal, Content
  <2>4. ~(p < 1)
    BY DEF Pages
  <2> QED
    BY <1>0, <2>1, <2>3, <2>4 DEF Content
<1>3. CASE StreamPage
  <2>1. /\ pc = "stream" /\ idx \in Pages /\ idx' = idx + 1 /\ page' = page
        /\ staged' = staged
        /\ spool' = IF page[cur][idx].status = "completed"
                    THEN [spool EXCEPT ![idx] = staged[cur][idx]] ELSE spool
    BY <1>3 DEF StreamPage, rowVars, TypeOK, WorkerTypes, Pages
  <2>2. Content(cur, p)' = Content(cur, p)
    BY <1>0, <2>1 DEF Content
  <2>3. CASE p = idx
    <3>1. spool'[p] = Content(cur, p)
      BY <1>0, <2>1, <2>3 DEF SpoolExact, Content
    <3>2. p < idx'
      BY <1>0, <2>1, <2>3
    <3> QED
      BY <1>0, <2>1, <2>2, <3>1, <3>2 DEF SpoolExact
  <2>4. CASE p # idx
    <3>1. spool'[p] = spool[p]
      BY <1>0, <2>1, <2>4
    <3>2. (p < idx') <=> (p < idx)
      BY <1>0, <2>1, <2>4 DEF Pages
    <3> QED
      BY <1>0, <2>1, <2>2, <3>1, <3>2 DEF SpoolExact
  <2> QED
    BY <2>3, <2>4
<1>4. CASE DemotePage
  <2>1. /\ pc = "stream" /\ idx \in Pages /\ idx' = idx + 1 /\ spool' = spool
        /\ staged' = staged /\ SetPageStatus(cur, idx, "failed")
    BY <1>4 DEF DemotePage, TypeOK, WorkerTypes, Pages
  <2>2. CASE p = idx
    <3>1. page'[cur][p].status = "failed"
      BY <1>0, <2>1, <2>2, PageStatusEffect DEF TypeOK, RowTypes
    <3>2. Content(cur, p)' = "absent"
      BY <1>0, <3>1 DEF Content
    <3>3. spool[p] = "absent"
      BY <1>0, <2>1, <2>2 DEF SpoolExact
    <3> QED
      BY <1>0, <2>1, <3>1, <3>2, <3>3
  <2>3. CASE p # idx
    <3>1. page'[cur][p] = page[cur][p]
      BY <1>0, <2>1, <2>3, PageStatusEffect DEF TypeOK, RowTypes
    <3>2. (p < idx') <=> (p < idx)
      BY <1>0, <2>1, <2>3 DEF Pages
    <3>3. Content(cur, p)' = Content(cur, p)
      BY <1>0, <3>1 DEF Content
    <3> QED
      BY <1>0, <2>1, <3>1, <3>2, <3>3 DEF SpoolExact
  <2> QED
    BY <2>2, <2>3
<1> QED
  BY <1>1, <1>2, <1>3, <1>4, ControlFlow

\* SpoolKept: the same up to the completed row.
LEMMA SpoolKept ==
    ASSUME TypeOK, TypeOK', StepInv, OwnInv, SpoolExact, [Next]_vars
    PROVE  SpoolExact'
<1> USE DEF objVars
<1>0. /\ (pc # "idle" => cur \in Jobs) /\ (pc' # "idle" => cur' \in Jobs)
      /\ final \in [Jobs -> [there : BOOLEAN, parts : [Pages -> Blobs]]]
  BY DEF TypeOK, WorkerTypes, ObjectTypes
<1>1. ASSUME pc' = "upload", NEW p \in Pages PROVE spool'[p] = Content(cur, p)'
  <2>1. Quiet \/ StreamDone
    BY <1>1, ControlFlow
  <2>2. CASE Quiet
    <3>1. pc = "upload" /\ cur' = cur /\ spool' = spool /\ page'[cur] = page[cur]
      BY <1>1, <2>2, QuietPages DEF Quiet, localVars
    <3> QED
      BY <3>1 DEF SpoolExact, Content
  <2>3. CASE StreamDone
    <3>1. /\ pc = "stream" /\ idx > MaxPages /\ cur' = cur /\ spool' = spool
          /\ page' = page
      BY <2>3 DEF StreamDone, rowVars, localVars
    <3>2. p < idx
      BY <3>1, IngestAssumption DEF Pages, TypeOK, WorkerTypes
    <3> QED
      BY <3>1, <3>2 DEF SpoolExact, Content
  <2> QED
    BY <2>1, <2>2, <2>3
<1>2. ASSUME pc' = "finish"
      PROVE  /\ final'[cur'].there
             /\ \A p \in Pages : final'[cur'].parts[p] = Content(cur, p)'
  <2>1. Quiet \/ UploadFinal
    BY <1>2, ControlFlow
  <2>2. CASE Quiet
    <3>1. pc = "finish" /\ cur' = cur /\ final' = final /\ page'[cur] = page[cur]
      BY <1>2, <2>2, QuietPages DEF Quiet
    <3> QED
      BY <3>1 DEF SpoolExact, Content
  <2>3. CASE UploadFinal
    <3>1. /\ pc = "upload" /\ cur' = cur /\ page' = page /\ cur \in Jobs
          /\ final' = [final EXCEPT ![cur] = [there |-> TRUE, parts |-> spool]]
      BY <1>0, <2>3 DEF UploadFinal, rowVars
    <3>2. final'[cur] = [there |-> TRUE, parts |-> spool]
      BY <1>0, <3>1
    <3> QED
      BY <3>1, <3>2 DEF SpoolExact, Content
  <2> QED
    BY <2>1, <2>2, <2>3
<1>3. ASSUME NEW j \in Jobs, job'[j].status = "completed"
      PROVE  /\ final'[j].there
             /\ \A p \in Pages : final'[j].parts[p] = Content(j, p)'
  <2>1. CASE job[j].status = "completed"
    <3>1. page'[j] = page[j] /\ final'[j] = final[j]
      BY <2>1, CompletedFrozen
    <3> QED
      BY <2>1, <3>1 DEF SpoolExact, Content
  <2>2. CASE job[j].status # "completed"
    <3>1. cur = j /\ FinishJob
      BY <1>3, <2>2, StatusMoves
    <3>2. pc = "finish" /\ page' = page /\ final' = final
      BY <3>1 DEF FinishJob
    <3> QED
      BY <3>1, <3>2 DEF SpoolExact, Content
  <2> QED
    BY <2>1, <2>2
<1>4. ASSUME pc' = "stream"
      PROVE  \A p \in Pages :
                /\ spool'[p] = IF p < idx' THEN Content(cur, p)' ELSE "absent"
                /\ page'[cur'][p].status = "completed" =>
                       staged'[cur'][p] = Content(cur, p)'
  BY <1>4, SpoolStreamed
<1> QED
  BY <1>1, <1>2, <1>3, <1>4 DEF SpoolExact

-----------------------------------------------------------------------------
(* The bill *)

\* The usage rows can be counted.
LEMMA BilledFinite ==
    ASSUME TypeOK
    PROVE  IsFiniteSet(billed) /\ Cardinality(billed) \in Nat
<1>1. IsFiniteSet(Pages) /\ IsFiniteSet(Jobs)
  BY IngestAssumption, PageSetSize
<1>2. IsFiniteSet(Jobs \X Pages)
  BY <1>1, FS_Product
<1>3. IsFiniteSet(billed)
  BY <1>2, FS_Subset DEF TypeOK, RowTypes
<1> QED
  BY <1>3, FS_CardinalityType

\* BilledWriters: only the worker's bill adds a usage row.
LEMMA BilledWriters == ASSUME [Next]_vars PROVE billed' = billed \/ BillPage
<1> USE DEF rowVars
<1>1. CASE UNCHANGED vars \/ Crash \/ Restart
  BY <1>1 DEF vars, Crash, Restart
<1>2. ASSUME NEW j \in Jobs, ClientStep(j) PROVE billed' = billed
  BY <1>2, ClientFrame
<1>3. CASE StartJob \/ LoadPages \/ SubscriptionUnavailable \/ BeginDiscovery
  BY <1>3 DEF StartJob, LoadPages, SubscriptionUnavailable, BeginDiscovery
<1>4. CASE \/ \E n \in Pages : DiscoverPages(n)
           \/ DiscoveryFails \/ RecordDiscovered \/ BeginProcessing
  BY <1>4 DEF DiscoverPages, DiscoveryFails, RecordDiscovered, BeginProcessing
<1>5. CASE NextPage \/ PagesDone \/ CheckOpsQuota \/ SkipPage \/ MarkPageProcessing
  BY <1>5 DEF NextPage, PagesDone, CheckOpsQuota, SkipPage, MarkPageProcessing
<1>6. CASE \/ \E u \in Urls, h \in Hashes : RenderUrl(u, h)
           \/ \E h \in Hashes : ConvertFile(h)
           \/ RenderFails \/ StagePage
  BY <1>6 DEF RenderUrl, ConvertFile, RenderFails, StagePage
<1>7. CASE CompletePage \/ FailPage \/ SyncProgress
  BY <1>7 DEF CompletePage, FailPage, SyncProgress
<1>8. CASE \/ Assemble \/ StreamPage \/ DemotePage \/ StreamDone \/ FailAll
           \/ UploadFinal \/ FinishJob
  BY <1>8 DEF Assemble, StreamPage, DemotePage, StreamDone, FailAll, UploadFinal,
              FinishJob
<1>9. CASE \/ DeliverWebhook \/ SetWebhookDelivered \/ DiscardFinal \/ Unstage
           \/ CleanupSourceFiles
  BY <1>9 DEF DeliverWebhook, SetWebhookDelivered, DiscardFinal, Unstage,
              CleanupSourceFiles
<1>10. CASE PageFaults \/ WebhookFaults \/ JobFaults
  BY <1>10 DEF PageFaults, WebhookFaults, JobFaults
<1> QED
  BY <1>1, <1>2, <1>3, <1>4, <1>5, <1>6, <1>7, <1>8, <1>9, <1>10, StepKinds
     DEF WorkerStep, RunStep, AssembleStep

\* NoFaultYet: no failed call after the step means none before it, nor in it.
LEMMA NoFaultYet ==
    ASSUME TypeOK, [Next]_vars, faults' = 0
    PROVE  faults = 0 /\ ~Fault
<1>1. faults \in Nat
  BY IngestAssumption DEF TypeOK, ClientTypes
<1>2. faults' = faults \/ Fault
  BY StepKinds, ClientFrame, WorkerFrame DEF vars, envVars, Crash, Restart, NoFault
<1> QED
  BY <1>1, <1>2 DEF Fault

\* NoCrashYet: the same for crashes; a process that never crashed never restarts.
LEMMA NoCrashYet ==
    ASSUME TypeOK, OwnInv, [Next]_vars, crashes' = 0
    PROVE  crashes = 0 /\ up /\ ~Crash /\ ~Restart
<1>1. crashes \in Nat
  BY IngestAssumption DEF TypeOK, ClientTypes
<1>2. crashes' = crashes \/ Crash
  BY StepKinds, ClientFrame, WorkerFrame DEF vars, envVars, Restart
<1>3. crashes = 0 /\ ~Crash
  BY <1>1, <1>2 DEF Crash
<1>4. up
  BY <1>3 DEF OwnInv, EmptyWhenDown
<1> QED
  BY <1>3, <1>4 DEF Restart

\* GrantKept: nothing is billed between the quota check and the bill.
LEMMA GrantKept ==
    ASSUME TypeOK, TypeOK', GrantHeld, [Next]_vars
    PROVE  GrantHeld'
<1>0. Cardinality(billed) \in Nat /\ IsFiniteSet(billed) /\ OpsQuota \in Nat
  BY BilledFinite, IngestAssumption
<1>1. QuotaNeverOverrun'
  <2>1. CASE billed' = billed
    BY <2>1 DEF GrantHeld, QuotaNeverOverrun
  <2>2. CASE BillPage
    <3>1. billed' = billed \cup {<<cur, idx>>} /\ Cardinality(billed) < OpsQuota
      BY <2>2 DEF BillPage, GrantHeld, QuotaLeft
    <3>2. CASE <<cur, idx>> \in billed
      <4>1. billed' = billed
        BY <3>1, <3>2
      <4> QED
        BY <4>1 DEF GrantHeld, QuotaNeverOverrun
    <3>3. CASE <<cur, idx>> \notin billed
      <4>1. Cardinality(billed') = Cardinality(billed) + 1
        BY <1>0, <3>1, <3>3, FS_AddElement
      <4> QED
        BY <1>0, <3>1, <4>1 DEF QuotaNeverOverrun
    <3> QED
      BY <3>2, <3>3
  <2> QED
    BY <2>1, <2>2, BilledWriters
<1>2. ASSUME pc' \in {"mark", "render", "stage", "complete", "bill"} PROVE QuotaLeft'
  <2>1. billed' = billed
    BY <1>2, BilledWriters DEF BillPage
  <2>2. QuotaLeft
    BY <1>2, ControlFlow
       DEF Quiet, CheckOpsQuota, MarkPageProcessing, RenderUrl, ConvertFile, StagePage,
           CompletePage, GrantHeld
  <2> QED
    BY <2>1, <2>2 DEF QuotaLeft
<1> QED
  BY <1>1, <1>2 DEF GrantHeld

\* BilledKept: a billed page stays a contribution as long as no store call fails.
LEMMA BilledKept ==
    ASSUME TypeOK, TypeOK', StepInv, OwnInv, SpoolExact, BilledCompleted, [Next]_vars
    PROVE  BilledCompleted'
<1>1. ASSUME pc' = "bill"
      PROVE  page'[cur'][idx'].status = "completed" /\ ~page'[cur'][idx'].dup
  <2>1. Quiet \/ CompletePage
    BY <1>1, ControlFlow
  <2>2. CASE Quiet
    <3>1. pc = "bill" /\ cur' = cur /\ idx' = idx /\ page'[cur] = page[cur]
      BY <1>1, <2>2, QuietPages DEF Quiet
    <3> QED
      BY <3>1 DEF BilledCompleted
  <2>3. CASE CompletePage
    <3>1. /\ pc = "complete" /\ cur' = cur /\ idx' = idx
          /\ pc' = AfterComplete(IsDuplicate(rendered))
          /\ page' = [page EXCEPT ![cur][idx] =
                [status |-> "completed", hash |-> rendered.hash,
                 dup |-> IsDuplicate(rendered),
                 chunks |-> IF IsDuplicate(rendered) THEN 0
                            ELSE ChunksOf[rendered.hash]]]
      BY <2>3 DEF CompletePage
    <3>2. ~IsDuplicate(rendered) /\ cur \in Jobs /\ idx \in Pages
      BY <1>1, <3>1, WorkerHasJob DEF AfterComplete, TypeOK, WorkerTypes, PageStep
    <3>3. page'[cur][idx] = [status |-> "completed", hash |-> rendered.hash,
                             dup |-> IsDuplicate(rendered),
                             chunks |-> IF IsDuplicate(rendered) THEN 0
                                        ELSE ChunksOf[rendered.hash]]
      BY <3>1, <3>2 DEF TypeOK, RowTypes
    <3> QED
      BY <3>1, <3>2, <3>3
  <2> QED
    BY <2>1, <2>2, <2>3
<1>2. ASSUME faults' = 0, pc' = "fail" PROVE page'[cur'][idx'].status # "completed"
  <2>1. faults = 0 /\ ~PageFaults
    BY <1>2, NoFaultYet DEF PageFaults
  <2>2. Quiet \/ RenderFails
    BY <1>2, <2>1, ControlFlow
  <2>3. /\ pc # "idle" /\ cur' = cur /\ idx' = idx /\ page'[cur] = page[cur]
        /\ page[cur][idx].status # "completed"
    BY <1>2, <2>1, <2>2, QuietPages
       DEF Quiet, RenderFails, StepInv, PageOwed, BilledCompleted, rowVars
  <2> QED
    BY <2>3
<1>3. ASSUME faults' = 0, NEW j \in Jobs, NEW p \in Pages, <<j, p>> \in billed'
      PROVE  page'[j][p].status = "completed" /\ ~page'[j][p].dup
  <2>1. faults = 0 /\ ~Fault
    BY <1>3, NoFaultYet
  <2>2. page[j][p].status = "completed" /\ ~page[j][p].dup
    BY <1>3, <2>1, BilledWriters DEF BilledCompleted, BillPage
  <2>3. HasPages(j)
    BY <2>2 DEF HasPages
  <2>4. ~CreateFilePages(j)
    BY <2>2 DEF CreateFilePages, OwnInv, NotYetQueued, BeforeQueue, InSubmit
  <2>5. cur = j => \A n \in Pages : ~DiscoverPages(n)
    BY <2>3 DEF DiscoverPages, OwnInv, PagesKnown
  <2>6. cur = j /\ idx = p => ~SkipPage /\ ~MarkPageProcessing /\ ~CompletePage
    BY <2>2 DEF SkipPage, MarkPageProcessing, CompletePage, StepInv, PageOwed
  <2>7. cur = j /\ idx = p => ~FailPage
    BY <2>1, <2>2 DEF FailPage, BilledCompleted
  <2>8. cur = j /\ idx = p => ~DemotePage
    <3>1. ASSUME cur = j, idx = p, DemotePage PROVE FALSE
      <4>1. pc = "stream" /\ staged[cur][idx] = "absent"
        BY <2>1, <3>1 DEF DemotePage
      <4>2. staged[cur][idx] = Content(cur, idx)
        BY <2>2, <3>1, <4>1 DEF SpoolExact
      <4> QED
        BY <2>2, <3>1, <4>1, <4>2, ContentType
    <3> QED
      BY <3>1
  <2>9. page'[j][p] = page[j][p]
    BY <2>4, <2>5, <2>6, <2>7, <2>8, PageMoves
  <2> QED
    BY <2>2, <2>9
<1> QED
  BY <1>1, <1>2, <1>3 DEF BilledCompleted

\* QueuedOnceKept: ids enter the queue through their own submit handler only.
LEMMA QueuedOnceKept ==
    ASSUME TypeOK, OwnInv, QueuedOnce, [Next]_vars
    PROVE  QueuedOnce'
<1> SUFFICES ASSUME crashes' = 0
             PROVE  /\ \A i, k \in DOMAIN queue' : queue'[i] = queue'[k] => i = k
                    /\ \A i \in DOMAIN queue' : queue'[i] # cur'
  BY DEF QueuedOnce
<1>0. queue \in Seq(Jobs) /\ NoJob \notin Jobs
  BY IngestAssumption DEF TypeOK, WorkerTypes
<1>1. /\ ~Crash /\ ~Restart
      /\ \A i, k \in DOMAIN queue : queue[i] = queue[k] => i = k
      /\ \A i \in DOMAIN queue : queue[i] # cur
  BY NoCrashYet DEF QueuedOnce
<1>2. CASE UNCHANGED vars
  BY <1>1, <1>2 DEF vars
<1>3. ASSUME NEW j \in Jobs, ClientStep(j)
      PROVE  /\ \A i, k \in DOMAIN queue' : queue'[i] = queue'[k] => i = k
             /\ \A i \in DOMAIN queue' : queue'[i] # cur'
  <2>1. cur' = cur
    BY <1>3, ClientFrame
  <2>2. queue' = queue \/ Submit(j)
    BY <1>3 DEF ClientStep, SubmitStep, AcceptSubmit, CreateJob, CreateFilePages,
                StageUpload, ScheduleFileCleanup, SubmitFault, TimeOutSubmit, CancelJob,
                RetryWebhook,
                SetRetryDelivered
  <2>3. CASE Submit(j)
    <3>1. /\ queue' = Append(queue, j) /\ cur # j
          /\ \A i \in DOMAIN queue : queue[i] # j
      BY <2>3 DEF Submit, OwnInv, NotYetQueued, BeforeQueue, InSubmit
    <3> QED
      BY <1>0, <1>1, <2>1, <3>1
  <2> QED
    BY <1>1, <2>1, <2>2, <2>3
<1>4. CASE StartJob
  <2>1. /\ queue # <<>> /\ queue' = Tail(queue) /\ pc = "idle"
        /\ cur' = cur \/ cur' = Head(queue)
    BY <1>4 DEF StartJob
  <2> QED
    BY <1>0, <1>1, <2>1
<1>5. CASE /\ WorkerStep \/ PageFaults \/ WebhookFaults \/ JobFaults
           /\ ~StartJob
  <2>1. queue' = queue /\ (cur' = cur \/ cur' = NoJob)
    BY <1>5, WorkerFrame
  <2> QED
    BY <1>0, <1>1, <2>1
<1> QED
  BY <1>1, <1>2, <1>3, <1>4, <1>5, StepKinds

\* GivenUpKept: without a crash an abandoned job stays abandoned.
LEMMA GivenUpKept ==
    ASSUME TypeOK, StepInv, OwnInv, [Next]_vars, crashes' = 0, NEW j \in Jobs, GivenUp(j)
    PROVE  GivenUp(j)'
<1>0. queue \in Seq(Jobs) /\ NoJob \notin Jobs
  BY IngestAssumption DEF TypeOK, WorkerTypes
<1>1. submit'[j] \notin BeforeQueue
  BY SubmitMoves DEF GivenUp
<1>2. job'[j].status # "completed"
  BY StatusMoves DEF GivenUp
<1>3. cur' # j /\ \A i \in DOMAIN queue' : queue'[i] # j
  <2>1. CASE UNCHANGED vars
    BY <2>1 DEF vars, GivenUp
  <2>2. ASSUME NEW k \in Jobs, ClientStep(k)
        PROVE  cur' # j /\ \A i \in DOMAIN queue' : queue'[i] # j
    <3>1. cur' = cur /\ (queue' = queue \/ Submit(k))
      BY <2>2, ClientFrame
         DEF ClientStep, SubmitStep, AcceptSubmit, CreateJob, CreateFilePages,
             StageUpload, ScheduleFileCleanup, SubmitFault, TimeOutSubmit, CancelJob,
                RetryWebhook,
             SetRetryDelivered
    <3>2. CASE Submit(k)
      <4>1. k # j /\ queue' = Append(queue, k)
        BY <3>2 DEF Submit, GivenUp, BeforeQueue, InSubmit
      <4> QED
        BY <1>0, <3>1, <4>1 DEF GivenUp
    <3> QED
      BY <3>1, <3>2 DEF GivenUp
  <2>3. CASE StartJob
    BY <1>0, <2>3 DEF StartJob, GivenUp
  <2>4. CASE (WorkerStep \/ PageFaults \/ WebhookFaults \/ JobFaults) /\ ~StartJob
    BY <1>0, <2>4, WorkerFrame DEF GivenUp
  <2> QED
    BY <2>1, <2>2, <2>3, <2>4, NoCrashYet, StepKinds
<1> QED
  BY <1>1, <1>2, <1>3 DEF GivenUp

\* AfterUnbilled: what may follow while the worker is at the bill.
LEMMA AfterUnbilled ==
    ASSUME TypeOK, OwnInv, [Next]_vars, crashes' = 0, pc \in {"bill", "fail"}
    PROVE  \/ Quiet \/ BillPage \/ FailPage
           \/ PageFaults /\ pc' = "fail" /\ UNCHANGED <<cur, idx>>
           \/ JobFaults /\ pc = "fail"
<1>1. ~Crash /\ ~Restart
  BY NoCrashYet
<1>2. CASE pc' = "idle"
  <2>1. CASE WorkerStep
    BY <1>2, <2>1
       DEF WorkerStep, RunStep, AssembleStep, StartJob, LoadPages,
           SubscriptionUnavailable, BeginDiscovery, DiscoverPages, DiscoveryFails,
           RecordDiscovered, BeginProcessing, NextPage, PagesDone, CheckOpsQuota,
           SkipPage, MarkPageProcessing, RenderUrl, ConvertFile, RenderFails, StagePage,
           CompletePage, BillPage, FailPage, SyncProgress, Assemble, StreamPage,
           DemotePage, StreamDone, FailAll, UploadFinal, FinishJob, DeliverWebhook,
           SetWebhookDelivered, DiscardFinal, Unstage, CleanupSourceFiles
  <2>2. CASE PageFaults \/ WebhookFaults \/ JobFaults
    BY <1>2, <2>2 DEF PageFaults, WebhookFaults, JobFaults, Escapable
  <2>3. ASSUME UNCHANGED vars \/ \E j \in Jobs : ClientStep(j) PROVE pc' = pc
    BY <2>3, ClientFrame DEF vars
  <2> QED
    BY <1>1, <1>2, <2>1, <2>2, <2>3, StepKinds
<1>3. CASE pc' # "idle"
  BY <1>3, ControlFlow
     DEF StartJob, LoadPages, BeginDiscovery, DiscoverPages, RecordDiscovered,
         BeginProcessing, NextPage, PagesDone, CheckOpsQuota, MarkPageProcessing,
         RenderUrl, ConvertFile, RenderFails, StagePage, CompletePage, PageFaults,
         SkipPage, SyncProgress, Assemble, StreamPage, DemotePage, StreamDone, FailAll,
         UploadFinal, FinishJob, DeliverWebhook, SetWebhookDelivered, WebhookFaults,
         DiscardFinal, Unstage
<1> QED
  BY <1>2, <1>3

\* CompletedBilledKept: a contribution is billed, failed, or left behind with its job.
LEMMA CompletedBilledKept ==
    ASSUME TypeOK, TypeOK', StepInv, OwnInv, QueuedOnce, CompletedBilled, [Next]_vars
    PROVE  CompletedBilled'
<1> SUFFICES ASSUME crashes' = 0, NEW j \in Jobs, NEW p \in Pages,
                    page'[j][p].status = "completed", ~page'[j][p].dup,
                    <<j, p>> \notin billed'
             PROVE  \/ cur' = j /\ idx' = p /\ pc' \in {"bill", "fail"}
                    \/ GivenUp(j)'
  BY DEF CompletedBilled
<1>1. <<j, p>> \notin billed /\ crashes = 0
  BY BilledWriters, NoCrashYet DEF BillPage
<1>2. CASE page'[j][p] = page[j][p]
  <2>1. CASE GivenUp(j)
    BY <2>1, GivenUpKept
  <2>2. CASE ~GivenUp(j)
    <3>1. cur = j /\ idx = p /\ pc \in {"bill", "fail"}
      BY <1>1, <1>2, <2>2 DEF CompletedBilled
    <3>2. ~BillPage
      BY <3>1 DEF BillPage
    <3>3. ~FailPage
      <4>1. FailPage => page'[j][p].status = "failed"
        BY <3>1, PageStatusEffect DEF FailPage, TypeOK, RowTypes
      <4> QED
        BY <4>1
    <3>4. CASE JobFaults /\ pc = "fail"
      <4>1. cur' = NoJob /\ queue' = queue /\ submit' = submit /\ job' = job
        BY <3>4 DEF JobFaults, rowVars, clientVars
      <4>2. submit[j] \notin BeforeQueue
        BY <3>1 DEF OwnInv, NotYetQueued
      <4>3. \A i \in DOMAIN queue : queue[i] # j
        BY <1>1, <3>1 DEF QueuedOnce
      <4>4. job[j].status # "completed"
        BY <3>1 DEF StepInv, StatusAtStep, PageStep
      <4> QED
        BY <4>1, <4>2, <4>3, <4>4, IngestAssumption DEF GivenUp
    <3> QED
      BY <3>1, <3>2, <3>3, <3>4, AfterUnbilled DEF Quiet
  <2> QED
    BY <2>1, <2>2
<1>3. CASE page'[j][p] # page[j][p]
  <2>1. cur = j /\ idx = p /\ CompletePage /\ ~IsDuplicate(rendered)
    BY <1>3, PageMoves
  <2> QED
    BY <2>1 DEF CompletePage, AfterComplete
<1> QED
  BY <1>2, <1>3

-----------------------------------------------------------------------------
(* BilledExactly *)

\* BillInit: nothing is billed, queued or spooled at first.
LEMMA BillInit == Init => BillInv
<1> SUFFICES ASSUME Init PROVE BillInv
  OBVIOUS
<1>1. /\ \A j \in Jobs : job[j].status = "none"
      /\ \A j \in Jobs, p \in Pages : page[j][p].status = "absent"
      /\ pc = "idle" /\ queue = <<>> /\ billed = {}
  BY DEF Init, NoRow, NoPage
<1>2. Cardinality(billed) = 0 /\ OpsQuota \in Nat
  BY <1>1, FS_EmptySet, IngestAssumption
<1>3. SpoolExact /\ GrantHeld /\ BilledCompleted
  BY <1>1, <1>2 DEF SpoolExact, GrantHeld, QuotaNeverOverrun, BilledCompleted
<1>4. QueuedOnce /\ CompletedBilled
  BY <1>1 DEF QueuedOnce, CompletedBilled
<1> QED
  BY <1>3, <1>4 DEF BillInv

\* BillKept: every step keeps the deliverable and the bill together.
LEMMA BillKept ==
    ASSUME TypeOK, TypeOK', StepInv, OwnInv, BillInv, [Next]_vars
    PROVE  BillInv'
BY SpoolKept, GrantKept, BilledKept, QueuedOnceKept, CompletedBilledKept DEF BillInv

\* BillHolds: deliverable, quota, queue and bill form an inductive invariant.
LEMMA BillHolds == Spec => []BillInv
<1>1. TypeOK /\ TypeOK' /\ StepInv /\ OwnInv /\ BillInv /\ [Next]_vars => BillInv'
  BY BillKept
<1> QED
  BY <1>1, BillInit, OwnershipHolds, Inductive, PTL DEF Spec, IndInv

\* AlwaysBilledExactly: pages are charged for what they put into the deliverable,
\* every contribution is charged unless the process died in between, and the bill
\* of the project never passes its grant.
THEOREM AlwaysBilledExactly == Spec => []BilledExactly
<1>1. TypeOK /\ StepInv /\ BillInv => BilledExactly
  <2> SUFFICES ASSUME TypeOK, StepInv, BillInv PROVE BilledExactly
    OBVIOUS
  <2>1. NoChargeForNothing
    BY DEF NoChargeForNothing, BillInv, BilledCompleted, SpoolExact, Content
  <2>2. EveryContributionBilled
    <3> SUFFICES ASSUME NEW j \in Jobs, NEW p \in Pages, crashes = 0,
                        job[j].status = "completed", final[j].parts[p] \in Hashes
                 PROVE  <<j, p>> \in billed
      BY DEF EveryContributionBilled
    <3>1. page[j][p].status = "completed" /\ ~page[j][p].dup
      BY ContentType DEF BillInv, SpoolExact
    <3>2. ~GivenUp(j)
      BY DEF GivenUp
    <3>3. cur = j => pc \notin {"bill", "fail"}
      BY DEF StepInv, StatusAtStep, PageStep
    <3> QED
      BY <3>1, <3>2, <3>3 DEF BillInv, CompletedBilled
  <2> QED
    BY <2>1, <2>2 DEF BilledExactly, BillInv, GrantHeld
<1> QED
  BY <1>1, BillHolds, Inductive, PTL DEF IndInv

-----------------------------------------------------------------------------
(* Fields of the job row, and counting chunks *)

\* FieldMoves: which steps write the counters and the webhook flag of a job row.
LEMMA FieldMoves ==
    ASSUME TypeOK, [Next]_vars, NEW j \in Jobs
    PROVE  /\ \/ job'[j].discovered = job[j].discovered
              \/ cur = j /\ RecordDiscovered
           /\ \/ job'[j].hook = job[j].hook
              \/ SetRetryDelivered(j) /\ job'[j].hook = retry[j]
              \/ /\ cur = j /\ SetWebhookDelivered
                 /\ job'[j].hook = "ok" => pc = "hook_ok"
           /\ \/ job'[j].processed = job[j].processed /\ job'[j].chunks = job[j].chunks
              \/ cur = j /\ (SyncProgress \/ FinishJob)
<1> USE DEF rowVars, objVars
<1> DEFINE Same == /\ job'[j].discovered = job[j].discovered
                   /\ job'[j].hook = job[j].hook
                   /\ job'[j].processed = job[j].processed
                   /\ job'[j].chunks = job[j].chunks
<1>0. job \in [Jobs -> JobRow]
  BY DEF TypeOK, RowTypes
<1>f. ASSUME NEW r \in JobRow, NEW x, NEW t
      PROVE  /\ LET w == [r EXCEPT !.status = x] IN
                /\ w.discovered = r.discovered /\ w.hook = r.hook
                /\ w.processed = r.processed /\ w.chunks = r.chunks
             /\ LET w == [r EXCEPT !.hook = x] IN
                /\ w.discovered = r.discovered /\ w.hook = x
                /\ w.processed = r.processed /\ w.chunks = r.chunks
             /\ LET w == [r EXCEPT !.discovered = x] IN
                /\ w.hook = r.hook
                /\ w.processed = r.processed /\ w.chunks = r.chunks
             /\ LET w == [r EXCEPT !.processed = t.processed, !.failed = t.failed,
                                   !.chunks = t.chunks] IN
                w.discovered = r.discovered /\ w.hook = r.hook
             /\ LET w == [r EXCEPT !.status = "completed", !.output = TRUE,
                                   !.processed = t.processed, !.failed = t.failed,
                                   !.chunks = t.chunks] IN
                w.discovered = r.discovered /\ w.hook = r.hook
  BY DEF JobRow
<1>t. ASSUME NEW k \in Jobs, NEW s, NEW F, TransitionStatus(k, s, F) PROVE Same
  <2>1. job' = job \/ job' = [job EXCEPT ![k] = [job[k] EXCEPT !.status = s]]
    BY <1>t DEF TransitionStatus
  <2>2. CASE job' = [job EXCEPT ![k] = [job[k] EXCEPT !.status = s]]
    <3>1. job[k] \in JobRow /\ job'[j] = IF j = k THEN [job[k] EXCEPT !.status = s]
                                         ELSE job[j]
      BY <1>0, <2>2
    <3> QED
      BY <1>f, <3>1
  <2> QED
    BY <2>1, <2>2
<1>1. CASE UNCHANGED <<job, final>> \/ UploadFinal \/ DiscardFinal
  BY <1>1 DEF UploadFinal, DiscardFinal
<1>2. ASSUME NEW k \in Jobs, CreateJob(k) PROVE Same
  <2>1. job' = [job EXCEPT ![k] = [job[k] EXCEPT !.status = "queued"]]
    BY <1>2 DEF CreateJob
  <2>2. job[k] \in JobRow /\ job'[j] = IF j = k THEN [job[k] EXCEPT !.status = "queued"]
                                       ELSE job[j]
    BY <1>0, <2>1
  <2> QED
    BY <1>f, <2>2
<1>3. ASSUME NEW k \in Jobs, CancelJob(k) PROVE Same
  BY <1>3, <1>t DEF CancelJob
<1>4. CASE SubscriptionUnavailable \/ DiscoveryFails \/ FailAll
  <2>1. TransitionStatus(cur, "failed", Active) /\ cur \in Jobs
    BY <1>4, WorkerHasJob
       DEF SubscriptionUnavailable, DiscoveryFails, FailAll, FailJob
  <2> QED
    BY <1>t, <2>1
<1>5. CASE BeginDiscovery \/ BeginProcessing
  <2>1. /\ cur \in Jobs
        /\ \/ TransitionStatus(cur, "discovering", {"queued", "discovering"})
           \/ TransitionStatus(cur, "processing", Active)
    BY <1>5, WorkerHasJob DEF BeginDiscovery, BeginProcessing
  <2> QED
    BY <1>t, <2>1
<1>6. ASSUME NEW k \in Jobs, SetRetryDelivered(k)
      PROVE  Same \/ (k = j /\ job'[j].hook = retry[j]
                      /\ job'[j].discovered = job[j].discovered
                      /\ job'[j].processed = job[j].processed
                      /\ job'[j].chunks = job[j].chunks)
  <2>1. job' = job \/ job' = [job EXCEPT ![k] = [job[k] EXCEPT !.hook = retry[k]]]
    BY <1>6 DEF SetRetryDelivered
  <2>2. CASE job' = [job EXCEPT ![k] = [job[k] EXCEPT !.hook = retry[k]]]
    <3>1. job[k] \in JobRow /\ job'[j] = IF j = k THEN [job[k] EXCEPT !.hook = retry[k]]
                                         ELSE job[j]
      BY <1>0, <2>2
    <3> QED
      BY <1>f, <3>1
  <2> QED
    BY <2>1, <2>2
<1>7. ASSUME SetWebhookDelivered
      PROVE  Same \/ (cur = j /\ (job'[j].hook = "ok" => pc = "hook_ok")
                      /\ job'[j].discovered = job[j].discovered
                      /\ job'[j].processed = job[j].processed
                      /\ job'[j].chunks = job[j].chunks)
  <2> DEFINE h == IF pc = "hook_ok" THEN "ok" ELSE "failed"
  <2>1. cur \in Jobs /\ job' = [job EXCEPT ![cur] = [job[cur] EXCEPT !.hook = h]]
    BY <1>7, WorkerHasJob DEF SetWebhookDelivered
  <2>2. h = "ok" => pc = "hook_ok"
    OBVIOUS
  <2> HIDE DEF h
  <2>3. job[cur] \in JobRow /\ job'[j] = IF j = cur THEN [job[cur] EXCEPT !.hook = h]
                                         ELSE job[j]
    BY <1>0, <2>1
  <2> QED
    BY <1>f, <2>2, <2>3
<1>8. ASSUME RecordDiscovered
      PROVE  Same \/ (cur = j /\ job'[j].hook = job[j].hook
                      /\ job'[j].processed = job[j].processed
                      /\ job'[j].chunks = job[j].chunks)
  <2> DEFINE n == Cardinality(Pages \ PagesIn(cur, {"absent"}))
  <2>1. /\ cur \in Jobs
        /\ job' = job \/ job' = [job EXCEPT ![cur] = [job[cur] EXCEPT !.discovered = n]]
    BY <1>8, WorkerHasJob DEF RecordDiscovered, SetPagesDiscovered
  <2> HIDE DEF n
  <2>2. CASE job' = [job EXCEPT ![cur] = [job[cur] EXCEPT !.discovered = n]]
    <3>1. job[cur] \in JobRow
          /\ job'[j] = IF j = cur THEN [job[cur] EXCEPT !.discovered = n] ELSE job[j]
      BY <1>0, <2>1, <2>2
    <3> QED
      BY <1>f, <3>1
  <2> QED
    BY <2>1, <2>2
<1>9. ASSUME SyncProgress \/ FinishJob
      PROVE  Same \/ (cur = j /\ job'[j].hook = job[j].hook
                      /\ job'[j].discovered = job[j].discovered)
  <2> DEFINE u == [job[cur] EXCEPT !.processed = tally.processed,
                                   !.failed = tally.failed, !.chunks = tally.chunks]
             c == [job[cur] EXCEPT !.status = "completed", !.output = TRUE,
                                   !.processed = tally.processed,
                                   !.failed = tally.failed, !.chunks = tally.chunks]
  <2>1. /\ cur \in Jobs
        /\ \/ job' = job \/ job' = [job EXCEPT ![cur] = u]
           \/ job' = [job EXCEPT ![cur] = c]
    BY <1>9, WorkerHasJob DEF SyncProgress, FinishJob, UpdateJobProgress, CompleteJob
  <2>2. /\ u.discovered = job[cur].discovered /\ u.hook = job[cur].hook
        /\ c.discovered = job[cur].discovered /\ c.hook = job[cur].hook
    BY <1>0, <1>f, <2>1
  <2> HIDE DEF u, c
  <2> QED
    BY <1>0, <2>1, <2>2
<1> QED
  BY <1>1, <1>2, <1>3, <1>4, <1>5, <1>6, <1>7, <1>8, <1>9, RowWriters

\* What the progress, discovery and completion writes put into an active row.
LEMMA CounterWrites ==
    ASSUME TypeOK, pc # "idle", job[cur].status \in Active
    PROVE  /\ \A n : SetPagesDiscovered(cur, n) => job'[cur].discovered = n
           /\ \A t : UpdateJobProgress(cur, t) =>
                  job'[cur].processed = t.processed /\ job'[cur].chunks = t.chunks
           /\ \A t : CompleteJob(cur, t) =>
                  /\ job'[cur].processed = t.processed /\ job'[cur].chunks = t.chunks
                  /\ job'[cur].failed = t.failed /\ job'[cur].output = TRUE
<1>0. job \in [Jobs -> JobRow] /\ cur \in Jobs
  BY WorkerHasJob DEF TypeOK, RowTypes
<1>1. ASSUME NEW n, SetPagesDiscovered(cur, n) PROVE job'[cur].discovered = n
  <2>1. [job[cur] EXCEPT !.discovered = n].discovered = n
    BY <1>0 DEF JobRow
  <2> QED
    BY <1>0, <1>1, <2>1 DEF SetPagesDiscovered
<1>2. ASSUME NEW t, UpdateJobProgress(cur, t)
      PROVE  job'[cur].processed = t.processed /\ job'[cur].chunks = t.chunks
  <2> DEFINE w == [job[cur] EXCEPT !.processed = t.processed, !.failed = t.failed,
                                   !.chunks = t.chunks]
  <2>1. w.processed = t.processed /\ w.chunks = t.chunks
    BY <1>0 DEF JobRow
  <2>2. job'[cur] = w
    BY <1>0, <1>2 DEF UpdateJobProgress
  <2> QED
    BY <2>1, <2>2
<1>3. ASSUME NEW t, CompleteJob(cur, t)
      PROVE  /\ job'[cur].processed = t.processed /\ job'[cur].chunks = t.chunks
             /\ job'[cur].failed = t.failed /\ job'[cur].output = TRUE
  <2> DEFINE w == [job[cur] EXCEPT !.status = "completed", !.output = TRUE,
                                   !.processed = t.processed, !.failed = t.failed,
                                   !.chunks = t.chunks]
  <2>1. /\ w.processed = t.processed /\ w.chunks = t.chunks
        /\ w.failed = t.failed /\ w.output = TRUE
    BY <1>0 DEF JobRow
  <2>2. job'[cur] = w
    BY <1>0, <1>3 DEF CompleteJob
  <2> QED
    BY <2>1, <2>2
<1> QED
  BY <1>1, <1>2, <1>3

\* ChunksCount: finitely many chunks of each of a set of pages can be counted.
LEMMA ChunksCount ==
    ASSUME NEW n \in [Pages -> Nat], NEW S \in SUBSET Pages
    PROVE  /\ IsFiniteSet(UNION {{p} \X (1..n[p]) : p \in S})
           /\ Cardinality(UNION {{p} \X (1..n[p]) : p \in S}) \in Nat
<1> DEFINE Of(p) == {p} \X (1..n[p])
           Parts == {Of(p) : p \in S}
<1>1. IsFiniteSet(S)
  BY PageSetSize
<1>2. IsFiniteSet(Parts)
  <2> DEFINE f == [p \in S |-> Of(p)]
  <2>1. f \in Surjection(S, Parts)
    BY DEF Surjection
  <2> QED
    BY <1>1, <2>1, FS_Surjection
<1>3. ASSUME NEW T \in Parts PROVE IsFiniteSet(T)
  <2>1. PICK p \in S : T = Of(p)
    BY <1>3
  <2>2. n[p] \in Nat
    BY <2>1
  <2>3. IsFiniteSet(1..n[p])
    BY <2>2, FS_Interval
  <2>4. IsFiniteSet({p})
    BY FS_Singleton
  <2> QED
    BY <2>1, <2>3, <2>4, FS_Product
<1>4. IsFiniteSet(UNION Parts)
  BY <1>2, <1>3, FS_UNION
<1> QED
  BY <1>4, FS_CardinalityType

\* ChunksFinite: the chunks of a set of pages can be counted, after a step too.
LEMMA ChunksFinite ==
    ASSUME NEW j \in Jobs, NEW S \in SUBSET Pages
    PROVE  /\ TypeOK  => /\ IsFiniteSet(ChunksIn(j, S))
                         /\ Cardinality(ChunksIn(j, S)) \in Nat
           /\ TypeOK' => /\ IsFiniteSet(ChunksIn(j, S)')
                         /\ Cardinality(ChunksIn(j, S)') \in Nat
<1>1. ASSUME TypeOK
      PROVE  IsFiniteSet(ChunksIn(j, S)) /\ Cardinality(ChunksIn(j, S)) \in Nat
  <2> DEFINE n == [p \in Pages |-> page[j][p].chunks]
  <2>1. n \in [Pages -> Nat]
    BY <1>1 DEF TypeOK, RowTypes, PageRow
  <2>2. ChunksIn(j, S) = UNION {{p} \X (1..n[p]) : p \in S}
    BY DEF ChunksIn
  <2> HIDE DEF n
  <2> QED
    BY <2>1, <2>2, ChunksCount
<1>2. ASSUME TypeOK'
      PROVE  IsFiniteSet(ChunksIn(j, S)') /\ Cardinality(ChunksIn(j, S)') \in Nat
  <2> DEFINE n == [p \in Pages |-> page'[j][p].chunks]
  <2>1. n \in [Pages -> Nat]
    BY <1>2 DEF TypeOK, RowTypes, PageRow
  <2>2. ChunksIn(j, S)' = UNION {{p} \X (1..n[p]) : p \in S}
    BY DEF ChunksIn
  <2> HIDE DEF n
  <2> QED
    BY <2>1, <2>2, ChunksCount
<1> QED
  BY <1>1, <1>2

\* ChunksAdd: a page adds its own chunks to those of a set it is not in.
LEMMA ChunksAdd ==
    ASSUME TypeOK, NEW j \in Jobs, NEW S \in SUBSET Pages, NEW p \in Pages \ S
    PROVE  Cardinality(ChunksIn(j, S \cup {p}))
               = Cardinality(ChunksIn(j, S)) + page[j][p].chunks
<1> DEFINE n == page[j][p].chunks
           A == ChunksIn(j, S)
           B == {p} \X (1..n)
<1>1. n \in Nat
  BY DEF TypeOK, RowTypes, PageRow
<1>2. ChunksIn(j, S \cup {p}) = A \cup B
  BY DEF ChunksIn
<1>3. A \cap B = {}
  BY DEF ChunksIn
<1>4. IsFiniteSet(A) /\ Cardinality(A) \in Nat
  BY ChunksFinite
<1>5. IsFiniteSet(B) /\ Cardinality(B) = n
  <2>1. IsFiniteSet(1..n) /\ Cardinality(1..n) = n
    <3> HIDE DEF n
    <3>1. 1 \in Int /\ n \in Int
      BY <1>1
    <3>2. IsFiniteSet(1..n) /\ Cardinality(1..n) = IF 1 > n THEN 0 ELSE n - 1 + 1
      BY <3>1, FS_Interval
    <3> QED
      BY <1>1, <3>2
  <2>2. IsFiniteSet({p}) /\ Cardinality({p}) = 1
    BY FS_Singleton
  <2>3. IsFiniteSet(B) /\ Cardinality(B) = 1 * n
    <3> HIDE DEF n
    <3>1. IsFiniteSet({p} \X (1..n))
          /\ Cardinality({p} \X (1..n)) = Cardinality({p}) * Cardinality(1..n)
      BY <2>1, <2>2, FS_Product
    <3> QED
      BY <2>1, <2>2, <3>1
  <2> QED
    BY <1>1, <2>3
<1>6. Cardinality(A \cup B) = Cardinality(A) + Cardinality(B) - Cardinality(A \cap B)
  BY <1>4, <1>5, FS_Union
<1>7. Cardinality(A \cap B) = 0
  BY <1>3, FS_EmptySet
<1> HIDE DEF n, A, B
<1>8. Cardinality(A \cup B) = Cardinality(A) + n
  BY <1>1, <1>4, <1>5, <1>6, <1>7
<1> QED
  BY <1>2, <1>8 DEF n, A

\* ChunksSame: chunks depend on the rows of the pages counted only.
LEMMA ChunksSame ==
    ASSUME NEW j \in Jobs, NEW S \in SUBSET Pages,
           \A p \in S : page'[j][p].chunks = page[j][p].chunks
    PROVE  ChunksIn(j, S)' = ChunksIn(j, S)
BY DEF ChunksIn

-----------------------------------------------------------------------------
(* Pages and counters behind the deliverable *)

\* OnlyCurrentPage: in the middle of a job only the page at hand is written.
LEMMA OnlyCurrentPage ==
    ASSUME TypeOK, OwnInv, [Next]_vars, pc # "idle", pc' # "discovered",
           NEW p \in Pages, p # idx
    PROVE  page'[cur][p] = page[cur][p]
<1>1. PICK j \in Jobs : j = cur
  BY WorkerHasJob
<1>2. ~CreateFilePages(j)
  BY <1>1 DEF CreateFilePages, OwnInv, NotYetQueued, BeforeQueue, InSubmit
<1>3. \A n \in Pages : ~DiscoverPages(n)
  BY DEF DiscoverPages
<1>4. page'[j][p] = page[j][p]
  BY <1>1, <1>2, <1>3, PageMoves
<1> QED
  BY <1>1, <1>4

\* RowExactKept: complete_page writes content and size of what was rendered.
LEMMA RowExactKept ==
    ASSUME TypeOK, CompletedRowExact, [Next]_vars
    PROVE  CompletedRowExact'
<1> SUFFICES ASSUME NEW j \in Jobs, NEW p \in Pages, page'[j][p].status = "completed"
             PROVE  /\ page'[j][p].hash \in Hashes
                    /\ page'[j][p].chunks = IF page'[j][p].dup THEN 0
                                            ELSE ChunksOf[page'[j][p].hash]
  BY DEF CompletedRowExact
<1>1. CASE page'[j][p] = page[j][p]
  BY <1>1 DEF CompletedRowExact
<1>2. CASE page'[j][p] # page[j][p]
  <2>1. /\ CompletePage
        /\ page'[j][p].hash = rendered.hash
        /\ page'[j][p].dup = IsDuplicate(rendered)
        /\ page'[j][p].chunks = IF IsDuplicate(rendered) THEN 0
                                ELSE ChunksOf[rendered.hash]
    BY <1>2, PageMoves
  <2>2. rendered.hash \in Hashes
    BY <2>1 DEF CompletePage, TypeOK, WorkerTypes
  <2> QED
    BY <2>1, <2>2
<1> QED
  BY <1>1, <1>2

\* LoopKept: the page loop and the assembly leave no owed page behind.
LEMMA LoopKept ==
    ASSUME TypeOK, TypeOK', OwnInv, BilledCompleted, LoopSettled, [Next]_vars
    PROVE  LoopSettled'
<1> USE DEF PageStep
<1>0. /\ (pc # "idle" => cur \in Jobs) /\ idx \in Nat /\ \A q \in Pages : q \in Nat
      /\ page \in [Jobs -> [Pages -> PageRow]]
  BY DEF TypeOK, RowTypes, WorkerTypes, Pages
<1>1. ASSUME pc' \in PageStep \cup {"next"}, NEW p \in Pages,
             p < idx' \/ (pc' = "sync" /\ p = idx')
      PROVE  page'[cur'][p].status \notin Resumable
  <2>0. cur' = cur /\ pc # "idle" /\ cur \in Jobs
    BY <1>0, <1>1, ControlFlow DEF Quiet
  <2>1. CASE BeginProcessing
    BY <1>1, <2>1 DEF BeginProcessing, Pages
  <2>2. CASE NextPage
    <3>1. /\ page' = page /\ pc = "next"
          /\ idx' = idx \/ (idx' = idx + 1 /\ page[cur][idx].status \notin Resumable)
      BY <2>2 DEF NextPage, rowVars
    <3>2. pc' # "sync"
      BY <2>2 DEF NextPage
    <3>3. p < idx \/ (p = idx /\ page[cur][idx].status \notin Resumable)
      BY <1>0, <1>1, <3>1, <3>2
    <3> QED
      BY <2>0, <3>1, <3>3 DEF LoopSettled
  <2>3. CASE SyncProgress
    <3>1. page' = page /\ pc = "sync" /\ idx' = idx + 1 /\ pc' = "next"
      BY <2>3 DEF SyncProgress
    <3>2. p < idx \/ p = idx
      BY <1>0, <1>1, <3>1
    <3> QED
      BY <2>0, <3>1, <3>2 DEF LoopSettled
  <2>4. CASE ~BeginProcessing /\ ~NextPage /\ ~SyncProgress
    <3>1. idx' = idx /\ pc \in PageStep \cup {"next"}
      BY <1>1, <2>4, ControlFlow
         DEF Quiet, CheckOpsQuota, MarkPageProcessing, RenderUrl, ConvertFile,
             RenderFails, StagePage, CompletePage, PageFaults, SkipPage, BillPage,
             FailPage
    <3>2. CASE p # idx
      BY <1>0, <1>1, <2>0, <3>1, <3>2, OnlyCurrentPage DEF LoopSettled
    <3>3. CASE p = idx
      <4>1. pc' = "sync"
        BY <1>0, <1>1, <3>1, <3>3
      <4>2. Quiet \/ CompletePage \/ SkipPage \/ BillPage \/ FailPage
        BY <2>4, <4>1, ControlFlow
      <4>3. CASE Quiet
        BY <2>0, <3>3, <4>1, <4>3, QuietPages DEF Quiet, LoopSettled
      <4>4. CASE BillPage
        BY <2>0, <3>3, <4>4 DEF BillPage, BilledCompleted, Resumable
      <4>5. CASE SkipPage \/ FailPage
        <5>1. page'[cur][idx].status \in {"skipped", "failed"}
          BY <1>0, <2>0, <3>3, <4>5, PageStatusEffect DEF SkipPage, FailPage
        <5> QED
          BY <2>0, <3>3, <5>1 DEF Resumable
      <4>6. CASE CompletePage
        <5>1. page' = [page EXCEPT ![cur][idx] =
                [status |-> "completed", hash |-> rendered.hash,
                 dup |-> IsDuplicate(rendered),
                 chunks |-> IF IsDuplicate(rendered) THEN 0
                            ELSE ChunksOf[rendered.hash]]]
          BY <4>6 DEF CompletePage
        <5>2. page'[cur][idx].status = "completed"
          BY <1>0, <2>0, <3>3, <5>1
        <5> QED
          BY <2>0, <3>3, <5>2 DEF Resumable
      <4> QED
        BY <4>2, <4>3, <4>4, <4>5, <4>6
    <3> QED
      BY <3>2, <3>3
  <2> QED
    BY <2>1, <2>2, <2>3, <2>4
<1>2. ASSUME pc' \in Assembling, NEW p \in Pages
      PROVE  page'[cur'][p].status \notin Resumable
  <2>0. /\ cur' = cur /\ pc # "idle" /\ cur \in Jobs
        /\ Quiet \/ PagesDone \/ Assemble \/ StreamPage \/ DemotePage \/ StreamDone
           \/ UploadFinal
    BY <1>0, <1>2, ControlFlow DEF Quiet, Assembling
  <2>1. page[cur][p].status \notin Resumable
    <3>1. CASE PagesDone
      <4>1. pc = "next" /\ p < idx
        BY <1>0, <3>1, IngestAssumption DEF PagesDone, Pages
      <4> QED
        BY <4>1 DEF LoopSettled
    <3>2. CASE ~PagesDone
      <4>1. pc \in Assembling
        BY <1>2, <2>0, <3>2
           DEF Quiet, Assemble, StreamPage, DemotePage, StreamDone, UploadFinal,
               Assembling
      <4> QED
        BY <4>1 DEF LoopSettled
    <3> QED
      BY <3>1, <3>2
  <2>2. CASE DemotePage
    <3>1. idx \in Pages /\ SetPageStatus(cur, idx, "failed")
      BY <2>2 DEF DemotePage, TypeOK, WorkerTypes, Pages
    <3>2. CASE p = idx
      <4>1. page'[cur][p].status = "failed"
        BY <1>0, <2>0, <3>1, <3>2, PageStatusEffect
      <4> QED
        BY <2>0, <4>1 DEF Resumable
    <3>3. CASE p # idx
      <4>1. page'[cur][p] = page[cur][p]
        BY <1>0, <2>0, <3>1, <3>3, PageStatusEffect
      <4> QED
        BY <2>0, <2>1, <4>1
    <3> QED
      BY <3>2, <3>3
  <2>3. CASE ~DemotePage
    <3>1. page'[cur] = page[cur]
      BY <2>0, <2>3, QuietPages
         DEF PagesDone, Assemble, StreamPage, StreamDone, UploadFinal, rowVars
    <3> QED
      BY <2>0, <2>1, <3>1
  <2> QED
    BY <2>2, <2>3
<1> QED
  BY <1>1, <1>2 DEF LoopSettled

\* SeenKept: what contributed is known, and known content does not contribute again.
LEMMA SeenKept ==
    ASSUME TypeOK, TypeOK', StepInv, OwnInv, ContentSeen, [Next]_vars
    PROVE  ContentSeen'
<1> USE DEF PageStep
<1>0. /\ (pc # "idle" => cur \in Jobs)
      /\ page \in [Jobs -> [Pages -> PageRow]]
  BY DEF TypeOK, RowTypes, WorkerTypes
<1>c. ASSUME NEW j \in Jobs, NEW p \in Pages, page'[j][p] # page[j][p],
             page'[j][p].status = "completed"
      PROVE  /\ CompletePage /\ cur = j /\ idx = p /\ pc = "complete"
             /\ page'[j][p].hash = rendered.hash
             /\ page'[j][p].dup = IsDuplicate(rendered)
  BY <1>c, PageMoves DEF CompletePage
<1>1. ASSUME pc' \in PageStep \cup {"next"}, NEW p \in Pages,
             page'[cur'][p].status = "completed", ~page'[cur'][p].dup
      PROVE  page'[cur'][p].hash \in seen'.hashes
  <2>0. cur' = cur /\ pc # "idle" /\ cur \in Jobs
    BY <1>0, <1>1, ControlFlow DEF Quiet
  <2>1. CASE BeginProcessing
    <3>1. /\ page' = page
          /\ seen' = [urls |-> {},
                      hashes |-> {page[cur][q].hash : q \in PagesIn(cur, {"completed"})}]
      BY <1>1, <2>1 DEF BeginProcessing, Reseed
    <3> QED
      BY <1>1, <2>0, <3>1 DEF PagesIn
  <2>2. CASE CompletePage
    <3>1. /\ pc = "complete" /\ seen' = SeenWith(rendered, IsDuplicate(rendered))
      BY <2>2 DEF CompletePage
    <3>2. CASE page'[cur][p] = page[cur][p]
      <4>1. page[cur][p].hash \in seen.hashes
        BY <1>1, <2>0, <3>1, <3>2 DEF ContentSeen
      <4> QED
        BY <2>0, <3>1, <3>2, <4>1 DEF SeenWith
    <3>3. CASE page'[cur][p] # page[cur][p]
      BY <1>1, <1>c, <2>0, <3>1, <3>3 DEF SeenWith
    <3> QED
      BY <3>2, <3>3
  <2>3. CASE ~BeginProcessing /\ ~CompletePage
    <3>1. seen' = seen /\ pc \in PageStep \cup {"next"}
      BY <1>1, <2>3, ControlFlow
         DEF Quiet, NextPage, CheckOpsQuota, MarkPageProcessing, RenderUrl, ConvertFile,
             RenderFails, StagePage, PageFaults, SkipPage, BillPage, FailPage,
             SyncProgress, localVars
    <3>2. page'[cur][p] = page[cur][p]
      BY <1>1, <1>c, <2>0, <2>3
    <3> QED
      BY <1>1, <2>0, <3>1, <3>2 DEF ContentSeen
  <2> QED
    BY <2>1, <2>2, <2>3
<1>2. ASSUME NEW j \in Jobs, NEW p \in Pages, NEW q \in Pages, p # q,
             page'[j][p].status = "completed", page'[j][q].status = "completed",
             ~page'[j][p].dup, ~page'[j][q].dup,
             page'[j][q] = page[j][q]
      PROVE  page'[j][p].hash # page'[j][q].hash
  <2>1. CASE page'[j][p] = page[j][p]
    BY <1>2, <2>1 DEF ContentSeen
  <2>2. CASE page'[j][p] # page[j][p]
    <3>1. /\ cur = j /\ pc = "complete" /\ page'[j][p].hash = rendered.hash
          /\ rendered.hash \notin seen.hashes
      BY <1>2, <1>c, <2>2 DEF IsDuplicate
    <3>2. page[j][q].hash \in seen.hashes
      BY <1>2, <3>1 DEF ContentSeen
    <3> QED
      BY <1>2, <3>1, <3>2
  <2> QED
    BY <2>1, <2>2
<1>3. ASSUME NEW j \in Jobs, NEW p \in Pages, NEW q \in Pages, p # q,
             page'[j][p].status = "completed", page'[j][q].status = "completed",
             ~page'[j][p].dup, ~page'[j][q].dup
      PROVE  page'[j][p].hash # page'[j][q].hash
  <2>1. page'[j][q] = page[j][q] \/ page'[j][p] = page[j][p]
    BY <1>3, <1>c
  <2> QED
    BY <1>2, <1>3, <2>1
<1> QED
  BY <1>1, <1>3 DEF ContentSeen

\* OutputKept: an uploaded object belongs to a completed job or is still at hand.
LEMMA OutputKept ==
    ASSUME TypeOK, StepInv, OwnInv, OutputOwned, [Next]_vars
    PROVE  OutputOwned'
<1> SUFFICES ASSUME crashes' = 0, faults' = 0, NEW j \in Jobs, final'[j].there
             PROVE  \/ job'[j].status = "completed"
                    \/ cur' = j /\ pc' \in {"finish", "discard"}
  BY DEF OutputOwned
<1>0. /\ crashes = 0 /\ faults = 0 /\ ~Fault /\ ~Crash /\ ~Restart
      /\ final \in [Jobs -> [there : BOOLEAN, parts : [Pages -> Blobs]]]
      /\ (pc # "idle" => cur \in Jobs)
  BY NoFaultYet, NoCrashYet DEF TypeOK, ObjectTypes, WorkerTypes
<1>1. CASE final'[j] = final[j]
  <2>1. job[j].status = "completed" \/ (cur = j /\ pc \in {"finish", "discard"})
    BY <1>0, <1>1 DEF OutputOwned
  <2>2. CASE job[j].status = "completed"
    BY <2>2, StatusMoves DEF Active
  <2>3. CASE cur = j /\ pc \in {"finish", "discard"}
    <3>1. CASE FinishJob
      <4>1. CompleteJob(cur, tally) /\ cur' = cur /\ pc' = AfterFinish(cur)
        BY <3>1 DEF FinishJob
      <4>2. job[cur].status \in Active => job'[cur].status = "completed"
        BY <1>0, <2>3, <4>1, CompleteStatuses DEF TypeOK, RowTypes
      <4> QED
        BY <2>3, <4>1, <4>2 DEF AfterFinish
    <3>2. CASE DiscardFinal
      <4>1. final' = [final EXCEPT ![cur] = NoFinal]
        BY <1>0, <3>2 DEF DiscardFinal
      <4>2. final'[j].there = FALSE
        BY <1>0, <2>3, <4>1 DEF NoFinal
      <4> QED
        BY <4>2
    <3>3. CASE UNCHANGED <<pc, cur>>
      BY <2>3, <3>3
    <3>4. \/ FinishJob \/ DiscardFinal \/ UNCHANGED <<pc, cur>>
      <4>1. CASE WorkerStep
        BY <2>3, <4>1
           DEF WorkerStep, RunStep, AssembleStep, StartJob, LoadPages,
               SubscriptionUnavailable, BeginDiscovery, DiscoverPages, DiscoveryFails,
               RecordDiscovered, BeginProcessing, NextPage, PagesDone, CheckOpsQuota,
               SkipPage, MarkPageProcessing, RenderUrl, ConvertFile, RenderFails,
               StagePage, CompletePage, BillPage, FailPage, SyncProgress, Assemble,
               StreamPage, DemotePage, StreamDone, FailAll, UploadFinal, DeliverWebhook,
               SetWebhookDelivered, Unstage, CleanupSourceFiles
      <4>2. ~PageFaults /\ ~WebhookFaults /\ ~JobFaults
        BY <1>0 DEF PageFaults, WebhookFaults, JobFaults
      <4>3. ASSUME UNCHANGED vars \/ \E k \in Jobs : ClientStep(k)
            PROVE  UNCHANGED <<pc, cur>>
        BY <4>3, ClientFrame DEF vars
      <4> QED
        BY <1>0, <4>1, <4>2, <4>3, StepKinds
    <3> QED
      BY <3>1, <3>2, <3>3, <3>4
  <2> QED
    BY <2>1, <2>2, <2>3
<1>2. CASE final'[j] # final[j]
  <2>1. UploadFinal \/ DiscardFinal
    <3>1. ASSUME NEW k \in Jobs, CreateJob(k) \/ CancelJob(k) \/ SetRetryDelivered(k)
          PROVE  final' = final
      BY <3>1 DEF CreateJob, CancelJob, SetRetryDelivered, objVars
    <3>2. CASE \/ SubscriptionUnavailable \/ BeginDiscovery \/ DiscoveryFails
               \/ RecordDiscovered \/ BeginProcessing \/ SyncProgress \/ FailAll
               \/ FinishJob \/ SetWebhookDelivered
      BY <1>2, <3>2 DEF SubscriptionUnavailable, BeginDiscovery, DiscoveryFails,
                        RecordDiscovered, BeginProcessing, SyncProgress, FailAll,
                        FinishJob, SetWebhookDelivered, objVars
    <3> QED
      BY <1>2, <3>1, <3>2, RowWriters
  <2>2. CASE UploadFinal
    BY <1>0, <1>2, <2>2 DEF UploadFinal
  <2>3. CASE DiscardFinal
    <3>1. final' = [final EXCEPT ![cur] = NoFinal]
      BY <1>0, <2>3 DEF DiscardFinal
    <3>2. final'[j].there = FALSE
      BY <1>0, <1>2, <3>1 DEF NoFinal
    <3> QED
      BY <3>2
  <2> QED
    BY <2>1, <2>2, <2>3
<1> QED
  BY <1>1, <1>2

\* HookKept: the webhook flag tells of a POST that was received.
LEMMA HookKept ==
    ASSUME TypeOK, StepInv, HookKnown, [Next]_vars
    PROVE  HookKnown'
<1>0. /\ retry \in [Jobs -> {"idle", "ok", "failed"}] /\ (pc # "idle" => cur \in Jobs)
  BY DEF TypeOK, ClientTypes, WorkerTypes
<1>c. ASSUME NEW j \in Jobs, job[j].status = "completed"
      PROVE  job'[j].status = "completed"
  BY <1>c, StatusMoves DEF Active
<1>1. ASSUME NEW j \in Jobs
      PROVE  /\ j \in received => j \in received'
             /\ j \in received' /\ j \notin received =>
                    \/ RetryWebhook(j)
                    \/ cur = j /\ DeliverWebhook
             /\ \/ retry'[j] = retry[j] \/ retry'[j] = "idle"
                \/ RetryWebhook(j) /\ (retry'[j] = "ok" => j \in received')
  <2> DEFINE Goal == /\ j \in received => j \in received'
                     /\ j \in received' /\ j \notin received =>
                            \/ RetryWebhook(j)
                            \/ cur = j /\ DeliverWebhook
                     /\ \/ retry'[j] = retry[j] \/ retry'[j] = "idle"
                        \/ RetryWebhook(j) /\ (retry'[j] = "ok" => j \in received')
  <2>1. ASSUME NEW k \in Jobs, RetryWebhook(k) PROVE Goal
    BY <1>0, <2>1 DEF RetryWebhook
  <2>2. ASSUME NEW k \in Jobs, SetRetryDelivered(k) PROVE Goal
    BY <1>0, <2>2 DEF SetRetryDelivered
  <2>3. ASSUME NEW k \in Jobs,
               SubmitStep(k) \/ SubmitFault(k) \/ TimeOutSubmit(k) \/ CancelJob(k)
        PROVE  Goal
    BY <2>3 DEF SubmitStep, AcceptSubmit, CreateJob, CreateFilePages, Submit,
                StageUpload, ScheduleFileCleanup, SubmitFault, TimeOutSubmit, CancelJob, clientVars
  <2>4. CASE DeliverWebhook
    BY <1>0, <2>4 DEF DeliverWebhook
  <2>5. CASE Crash \/ Restart \/ UNCHANGED vars
    BY <1>0, <2>5 DEF Crash, Restart, vars, clientVars
  <2>6. CASE (WorkerStep \/ PageFaults \/ WebhookFaults \/ JobFaults) /\ ~DeliverWebhook
    <3>1. retry' = retry
      BY <2>6, WorkerFrame
    <3>2. received' = received
      BY <2>6
         DEF WorkerStep, RunStep, AssembleStep, StartJob, LoadPages,
             SubscriptionUnavailable, BeginDiscovery, DiscoverPages, DiscoveryFails,
             RecordDiscovered, BeginProcessing, NextPage, PagesDone, CheckOpsQuota,
             SkipPage, MarkPageProcessing, RenderUrl, ConvertFile, RenderFails,
             StagePage, CompletePage, BillPage, FailPage, SyncProgress, Assemble,
             StreamPage, DemotePage, StreamDone, FailAll, UploadFinal, FinishJob,
             SetWebhookDelivered, DiscardFinal, Unstage, CleanupSourceFiles,
             PageFaults, WebhookFaults, JobFaults, clientVars
    <3> QED
      BY <3>1, <3>2
  <2> QED
    BY <2>1, <2>2, <2>3, <2>4, <2>5, <2>6, StepKinds DEF ClientStep
<1>2. ASSUME NEW j \in Jobs, j \in received' PROVE job'[j].status = "completed"
  <2>1. job[j].status = "completed"
    BY <1>1, <1>2 DEF HookKnown, HookFlagTruthful, RetryWebhook, HookReady,
                      DeliverWebhook, StepInv, StatusAtStep
  <2> QED
    BY <1>c, <2>1
<1>3. ASSUME NEW j \in Jobs, job'[j].hook = "ok" PROVE j \in received'
  <2>1. j \in received
    BY <1>3, FieldMoves DEF HookKnown, HookFlagTruthful
  <2> QED
    BY <1>1, <2>1
<1>4. ASSUME pc' = "hook_ok" PROVE cur' \in received'
  <2>1. Quiet \/ DeliverWebhook
    BY <1>4, ControlFlow
  <2>2. CASE DeliverWebhook
    BY <1>4, <2>2 DEF DeliverWebhook
  <2>3. CASE Quiet
    BY <1>0, <1>1, <1>4, <2>3 DEF Quiet, HookKnown
  <2> QED
    BY <2>1, <2>2, <2>3
<1>5. ASSUME NEW j \in Jobs
      PROVE  /\ retry'[j] # "idle" => job'[j].status = "completed"
             /\ retry'[j] = "ok" => j \in received'
  BY <1>1, <1>c DEF HookKnown, RetryWebhook, HookReady
<1> QED
  BY <1>2, <1>3, <1>4, <1>5 DEF HookKnown, HookFlagTruthful

-----------------------------------------------------------------------------
(* What complete_job writes counts the pages *)

\* PresentKept: once the worker goes on from discovery its job has the same pages.
LEMMA PresentKept ==
    ASSUME TypeOK, OwnInv, [Next]_vars, pc # "idle", pc' # "discovered"
    PROVE  \A p \in Pages :
               (page'[cur][p].status = "absent") = (page[cur][p].status = "absent")
<1>1. PICK j \in Jobs : j = cur
  BY WorkerHasJob
<1>2. ~CreateFilePages(j)
  BY <1>1 DEF CreateFilePages, OwnInv, NotYetQueued, BeforeQueue, InSubmit
<1>3. \A n \in Pages : ~DiscoverPages(n)
  BY DEF DiscoverPages
<1>4. \A p \in Pages :
          (page'[j][p].status = "absent") = (page[j][p].status = "absent")
  BY <1>2, <1>3, PresenceMoves
<1> QED
  BY <1>1, <1>4

\* DiscoveredKept: the discovered count of a job in hand is the number of its pages.
LEMMA DiscoveredKept ==
    ASSUME TypeOK, TypeOK', StepInv, OwnInv, RowCounts, [Next]_vars,
           pc' \in PageStep \cup Assembling \cup {"begin", "next"},
           job'[cur'].status \in Active
    PROVE  job'[cur'].discovered = Cardinality(Present(cur)')
<1> USE DEF PageStep, Assembling
<1>0. cur' = cur /\ pc # "idle" /\ cur \in Jobs
  BY ControlFlow, WorkerHasJob DEF Quiet
<1>1. Present(cur)' = Present(cur)
  <2>1. \A p \in Pages :
            (page'[cur][p].status = "absent") = (page[cur][p].status = "absent")
    BY <1>0, PresentKept
  <2> QED
    BY <1>0, <2>1 DEF Present, PagesIn
<1>2. job[cur].status \in Active
  <2>1. ~CreateJob(cur)
    BY <1>0 DEF CreateJob, OwnInv, NotYetQueued, BeforeQueue, InSubmit
  <2> QED
    BY <1>0, <2>1, StatusMoves
<1>3. CASE RecordDiscovered
  <2>1. SetPagesDiscovered(cur, Cardinality(Present(cur)))
    BY <1>3 DEF RecordDiscovered, Present
  <2>2. job'[cur].discovered = Cardinality(Present(cur))
    BY <1>0, <1>2, <2>1, CounterWrites
  <2> QED
    BY <1>0, <1>1, <2>2
<1>4. CASE ~RecordDiscovered
  <2>1. job'[cur].discovered = job[cur].discovered
    BY <1>0, <1>4, FieldMoves
  <2>2. pc \in PageStep \cup Assembling \cup {"begin", "next"}
    BY <1>4, ControlFlow
       DEF Quiet, BeginProcessing, NextPage, PagesDone, CheckOpsQuota,
           MarkPageProcessing, RenderUrl, ConvertFile, RenderFails, StagePage,
           CompletePage, PageFaults, SkipPage, BillPage, FailPage, SyncProgress,
           Assemble, StreamPage, DemotePage, StreamDone, UploadFinal
  <2>3. job[cur].discovered = Cardinality(Present(cur))
    BY <1>2, <2>2 DEF RowCounts
  <2> QED
    BY <1>0, <1>1, <2>1, <2>3
<1> QED
  BY <1>3, <1>4

\* StreamCountsKept: the counters of _assemble count what it has streamed.
LEMMA StreamCountsKept ==
    ASSUME TypeOK, TypeOK', StepInv, OwnInv, RowCounts, [Next]_vars,
           pc' \in {"stream", "upload", "finish"}
    PROVE  /\ tally'.processed = Cardinality(Streamed')
           /\ tally'.failed = Cardinality(PagesIn(cur, {"failed", "skipped"})')
           /\ tally'.chunks = Cardinality(ChunksIn(cur, Streamed)')
<1>0. /\ cur' = cur /\ pc # "idle" /\ cur \in Jobs /\ tally \in Tally
      /\ page \in [Jobs -> [Pages -> PageRow]] /\ idx \in Nat
      /\ \A p \in Pages : p \in Nat
  BY ControlFlow, WorkerHasJob DEF Quiet, TypeOK, WorkerTypes, RowTypes, Pages
<1>a. PICK S \in SUBSET Pages : S = Streamed
  BY DEF Streamed, PagesIn
<1>b. PICK L \in SUBSET Pages : L = PagesIn(cur, {"failed", "skipped"})
  BY DEF PagesIn
<1>c. PICK c \in Jobs : c = cur
  BY <1>0
<1>d. ASSUME pc \in {"stream", "upload", "finish"}
      PROVE  /\ tally.processed = Cardinality(S) /\ tally.failed = Cardinality(L)
             /\ tally.chunks = Cardinality(ChunksIn(c, S))
  BY <1>a, <1>b, <1>c, <1>d DEF RowCounts
<1>e. ASSUME tally' = tally, Streamed' = S, pc \in {"stream", "upload", "finish"},
             PagesIn(cur, {"failed", "skipped"})' = L,
             ChunksIn(c, S)' = ChunksIn(c, S)
      PROVE  /\ tally'.processed = Cardinality(Streamed')
             /\ tally'.failed = Cardinality(PagesIn(cur, {"failed", "skipped"})')
             /\ tally'.chunks = Cardinality(ChunksIn(cur, Streamed)')
  <2>1. ChunksIn(cur, Streamed)' = ChunksIn(c, S)'
    BY <1>0, <1>c, <1>e DEF ChunksIn
  <2> QED
    BY <1>d, <1>e, <2>1
<1>1. CASE Quiet
  <2>1. /\ page'[cur] = page[cur] /\ tally' = tally /\ idx' = idx /\ pc' = pc
        /\ pc \in {"stream", "upload", "finish"}
    BY <1>0, <1>1, QuietPages DEF Quiet, localVars
  <2>2. Streamed' = S /\ PagesIn(cur, {"failed", "skipped"})' = L
    BY <1>0, <1>a, <1>b, <2>1 DEF Streamed, PagesIn
  <2>3. ChunksIn(c, S)' = ChunksIn(c, S)
    BY <1>0, <1>c, <2>1 DEF ChunksIn
  <2> QED
    BY <1>e, <2>1, <2>2, <2>3
<1>2. CASE Assemble
  <2>1. /\ page' = page /\ pc' = "stream" /\ idx' = 1
        /\ tally' = [processed |-> 0, chunks |-> 0,
                     failed |-> Cardinality(PagesIn(cur, {"failed", "skipped"}))]
    BY <1>2 DEF Assemble, rowVars
  <2>2. Streamed' = {}
    BY <2>1 DEF Streamed, PagesIn, Pages
  <2>3. ChunksIn(cur, Streamed)' = {}
    BY <2>2 DEF ChunksIn
  <2>4. PagesIn(cur, {"failed", "skipped"})' = PagesIn(cur, {"failed", "skipped"})
    BY <1>0, <2>1 DEF PagesIn
  <2> QED
    BY <2>1, <2>2, <2>3, <2>4, FS_EmptySet
<1>3. CASE StreamPage
  <2>1. /\ page' = page /\ pc = "stream" /\ pc' = "stream" /\ idx \in Pages
        /\ idx' = idx + 1
    BY <1>3 DEF StreamPage, rowVars, TypeOK, WorkerTypes, Pages
  <2>2. PagesIn(cur, {"failed", "skipped"})' = L
    BY <1>0, <1>b, <2>1 DEF PagesIn
  <2>3. ChunksIn(c, S)' = ChunksIn(c, S)
    BY <2>1 DEF ChunksIn
  <2>6. /\ S = {p \in PagesIn(cur, {"completed"}) : p < idx}
        /\ Streamed' = {p \in PagesIn(cur, {"completed"}) : p < idx \/ p = idx}
    <3>1. \A p \in Pages : p < idx + 1 <=> p < idx \/ p = idx
      BY <1>0
    <3>2. PagesIn(cur, {"completed"})' = PagesIn(cur, {"completed"})
      BY <1>0, <2>1 DEF PagesIn
    <3>3. Streamed' = {p \in PagesIn(cur, {"completed"}) : p < idx + 1}
      BY <2>1, <3>2 DEF Streamed
    <3>4. PagesIn(cur, {"completed"}) \subseteq Pages
      BY DEF PagesIn
    <3> QED
      BY <1>a, <2>1, <3>1, <3>3, <3>4 DEF Streamed
  <2>4. CASE page[cur][idx].status = "completed"
    <3>1. idx \notin S /\ Streamed' = S \cup {idx}
      BY <1>0, <2>1, <2>4, <2>6 DEF PagesIn
    <3>2. /\ tally'.processed = tally.processed + 1 /\ tally'.failed = tally.failed
          /\ tally'.chunks = tally.chunks + page[cur][idx].chunks
      BY <1>0, <1>3, <2>4 DEF StreamPage, Tally
    <3>3. Cardinality(S \cup {idx}) = Cardinality(S) + 1
      BY <3>1, PageSetSize, FS_AddElement
    <3>4. Cardinality(ChunksIn(c, S \cup {idx}))
              = Cardinality(ChunksIn(c, S)) + page[c][idx].chunks
      BY <2>1, <3>1, ChunksAdd
    <3>5. ChunksIn(cur, Streamed)' = ChunksIn(c, S \cup {idx})
      BY <1>0, <1>c, <2>1, <3>1 DEF ChunksIn
    <3> QED
      BY <1>c, <1>d, <2>1, <2>2, <3>1, <3>2, <3>3, <3>4, <3>5
  <2>5. CASE page[cur][idx].status # "completed"
    <3>1. Streamed' = S
      BY <1>0, <2>1, <2>5, <2>6 DEF PagesIn
    <3>2. tally' = tally
      BY <1>3, <2>5 DEF StreamPage
    <3> QED
      BY <1>e, <2>1, <2>2, <2>3, <3>1, <3>2
  <2> QED
    BY <2>4, <2>5
<1>4. CASE DemotePage
  <2>1. /\ pc = "stream" /\ pc' = "stream" /\ idx \in Pages /\ idx' = idx + 1
        /\ page[cur][idx].status = "completed" /\ SetPageStatus(cur, idx, "failed")
    BY <1>4 DEF DemotePage, TypeOK, WorkerTypes, Pages
  <2>2. /\ page'[cur][idx].status = "failed"
        /\ \A p \in Pages : p # idx => page'[cur][p] = page[cur][p]
    BY <1>0, <2>1, PageStatusEffect
  <2>3. idx \notin S /\ Streamed' = S
    <3>1. S = {p \in Pages : page[cur][p].status = "completed" /\ p < idx}
      BY <1>a, <2>1 DEF Streamed, PagesIn
    <3>2. Streamed' = {p \in Pages : page'[cur][p].status = "completed" /\ p < idx + 1}
      BY <1>0, <2>1 DEF Streamed, PagesIn
    <3>3. \A p \in Pages : p < idx + 1 <=> p < idx \/ p = idx
      BY <1>0
    <3>4. \A p \in Pages : page'[cur][p].status = "completed" /\ p < idx + 1
                          <=> page[cur][p].status = "completed" /\ p < idx
      BY <1>0, <2>2, <3>3
    <3> QED
      BY <1>0, <3>1, <3>2, <3>4
  <2>4. idx \notin L /\ PagesIn(cur, {"failed", "skipped"})' = L \cup {idx}
    BY <1>0, <1>b, <2>1, <2>2 DEF PagesIn
  <2>5. Cardinality(L \cup {idx}) = Cardinality(L) + 1
    BY <2>4, PageSetSize, FS_AddElement
  <2>6. /\ tally'.processed = tally.processed /\ tally'.chunks = tally.chunks
        /\ tally'.failed = tally.failed + 1
    BY <1>0, <1>4 DEF DemotePage, Tally
  <2>7. ChunksIn(c, S)' = ChunksIn(c, S)
    <3>1. \A p \in S : page'[c][p].chunks = page[c][p].chunks
      BY <1>c, <2>2, <2>3
    <3> QED
      BY <3>1, ChunksSame
  <2>8. ChunksIn(cur, Streamed)' = ChunksIn(c, S)'
    BY <1>0, <1>c, <2>3 DEF ChunksIn
  <2> QED
    BY <1>d, <2>1, <2>3, <2>4, <2>5, <2>6, <2>7, <2>8
<1>5. CASE StreamDone \/ UploadFinal
  <2>1. /\ page' = page /\ tally' = tally /\ pc \in {"stream", "upload"} /\ idx' = idx
        /\ pc' # "stream" /\ (pc = "stream" => idx > MaxPages)
    BY <1>5 DEF StreamDone, UploadFinal, rowVars, localVars
  <2>2. pc = "stream" => \A p \in Pages : p < idx
    BY <1>0, <2>1, IngestAssumption DEF Pages
  <2>3. Streamed' = S /\ PagesIn(cur, {"failed", "skipped"})' = L
    BY <1>0, <1>a, <1>b, <2>1, <2>2 DEF Streamed, PagesIn
  <2>4. ChunksIn(c, S)' = ChunksIn(c, S)
    BY <2>1 DEF ChunksIn
  <2> QED
    BY <1>e, <2>1, <2>3, <2>4
<1> QED
  BY <1>1, <1>2, <1>3, <1>4, <1>5, ControlFlow

\* RowCountsKept: the same for the rows of completed jobs.
LEMMA RowCountsKept ==
    ASSUME TypeOK, TypeOK', StepInv, OwnInv, LoopSettled, RowCounts, [Next]_vars
    PROVE  RowCounts'
<1>1. ASSUME NEW j \in Jobs, job'[j].status = "completed"
      PROVE  /\ job'[j].output /\ PagesIn(j, Resumable)' = {}
             /\ job'[j].discovered = Cardinality(Present(j)')
             /\ job'[j].processed = Cardinality(PagesIn(j, {"completed"})')
             /\ job'[j].failed = Cardinality(PagesIn(j, {"failed", "skipped"})')
             /\ job'[j].chunks = ChunksDone(j)'
  <2>1. CASE job[j].status = "completed"
    <3>1. page'[j] = page[j]
      BY <2>1, CompletedFrozen
    <3>2. /\ job'[j].output = job[j].output /\ job'[j].discovered = job[j].discovered
          /\ job'[j].processed = job[j].processed /\ job'[j].failed = job[j].failed
          /\ job'[j].chunks = job[j].chunks
      <4> DEFINE w(r) == [r EXCEPT !.hook = "unset"]
      <4>1. w(job'[j]) = w(job[j])
        BY <2>1, SettledStep DEF Terminal
      <4>2. \A r \in JobRow :
                /\ w(r).output = r.output /\ w(r).discovered = r.discovered
                /\ w(r).processed = r.processed /\ w(r).failed = r.failed
                /\ w(r).chunks = r.chunks
        BY DEF JobRow
      <4>3. job[j] \in JobRow /\ job'[j] \in JobRow
        BY DEF TypeOK, RowTypes
      <4> HIDE DEF w
      <4> QED
        BY <4>1, <4>2, <4>3
    <3>3. /\ PagesIn(j, Resumable)' = PagesIn(j, Resumable)
          /\ Present(j)' = Present(j)
          /\ PagesIn(j, {"completed"})' = PagesIn(j, {"completed"})
          /\ PagesIn(j, {"failed", "skipped"})' = PagesIn(j, {"failed", "skipped"})
          /\ ChunksDone(j)' = ChunksDone(j)
      BY <3>1 DEF PagesIn, Present, ChunksDone
    <3> QED
      BY <2>1, <3>2, <3>3 DEF RowCounts
  <2>2. CASE job[j].status # "completed"
    <3>1. cur = j /\ FinishJob /\ job[j].status \in Active
      BY <1>1, <2>2, StatusMoves
    <3>2. /\ pc = "finish" /\ page' = page /\ CompleteJob(cur, tally) /\ pc # "idle"
      BY <3>1 DEF FinishJob
    <3>3. /\ job'[j].processed = tally.processed /\ job'[j].chunks = tally.chunks
          /\ job'[j].failed = tally.failed /\ job'[j].output = TRUE
      BY <3>1, <3>2, CounterWrites
    <3>4. job'[j].discovered = job[j].discovered
      BY <3>1, FieldMoves DEF FinishJob, RecordDiscovered
    <3>5. Streamed = PagesIn(j, {"completed"})
      BY <3>1, <3>2 DEF Streamed, PagesIn
    <3>6. ChunksDone(j) = Cardinality(ChunksIn(j, PagesIn(j, {"completed"})))
      BY DEF ChunksDone, ChunksIn
    <3>7. /\ tally.processed = Cardinality(PagesIn(j, {"completed"}))
          /\ tally.failed = Cardinality(PagesIn(j, {"failed", "skipped"}))
          /\ tally.chunks = ChunksDone(j)
          /\ job[j].discovered = Cardinality(Present(j))
      BY <3>1, <3>2, <3>5, <3>6 DEF RowCounts, Assembling
    <3>8. PagesIn(j, Resumable) = {}
      BY <3>1, <3>2 DEF LoopSettled, Assembling, PagesIn
    <3>9. /\ PagesIn(j, Resumable)' = PagesIn(j, Resumable)
          /\ Present(j)' = Present(j)
          /\ PagesIn(j, {"completed"})' = PagesIn(j, {"completed"})
          /\ PagesIn(j, {"failed", "skipped"})' = PagesIn(j, {"failed", "skipped"})
          /\ ChunksDone(j)' = ChunksDone(j)
      BY <3>2 DEF PagesIn, Present, ChunksDone
    <3> QED
      BY <3>3, <3>4, <3>7, <3>8, <3>9
  <2> QED
    BY <2>1, <2>2
<1> QED
  BY <1>1, DiscoveredKept, StreamCountsKept DEF RowCounts

-----------------------------------------------------------------------------
(* DeliverableExact *)

\* DeliverInit: there is no row, object or POST at first.
LEMMA DeliverInit == Init => DeliverInv
<1> SUFFICES ASSUME Init PROVE DeliverInv
  OBVIOUS
<1>1. /\ \A j \in Jobs : job[j].status = "none" /\ job[j].hook = "unset"
      /\ \A j \in Jobs, p \in Pages : page[j][p].status = "absent"
      /\ pc = "idle" /\ received = {}
      /\ \A j \in Jobs : retry[j] = "idle" /\ final[j].there = FALSE
  BY DEF Init, NoRow, NoPage, NoFinal
<1>2. CompletedRowExact /\ LoopSettled /\ ContentSeen
  BY <1>1 DEF CompletedRowExact, LoopSettled, ContentSeen, PageStep, Assembling
<1>3. RowCounts
  BY <1>1 DEF RowCounts, PageStep, Assembling
<1>4. OutputOwned /\ HookKnown
  BY <1>1 DEF OutputOwned, HookKnown, HookFlagTruthful
<1> QED
  BY <1>2, <1>3, <1>4 DEF DeliverInv

\* DeliverKept: every step keeps pages, counters, objects and webhooks together.
LEMMA DeliverKept ==
    ASSUME TypeOK, TypeOK', StepInv, OwnInv, BillInv, DeliverInv, [Next]_vars
    PROVE  DeliverInv'
BY RowExactKept, LoopKept, SeenKept, RowCountsKept, OutputKept, HookKept
   DEF DeliverInv, BillInv

\* DeliverHolds: they form an inductive invariant with ownership and bill.
LEMMA DeliverHolds == Spec => []DeliverInv
<1>1. TypeOK /\ TypeOK' /\ StepInv /\ OwnInv /\ BillInv /\ DeliverInv /\ [Next]_vars
      => DeliverInv'
  BY DeliverKept
<1> QED
  BY <1>1, DeliverInit, BillHolds, OwnershipHolds, Inductive, PTL DEF Spec, IndInv

\* CompletedRowDescribes: the counts of a completed row are those of its object.
LEMMA CompletedRowDescribes ==
    ASSUME TypeOK, BillInv, DeliverInv
    PROVE  CompletedRowMatchesFinal
<1> SUFFICES ASSUME NEW j \in Jobs, job[j].status = "completed"
             PROVE  LET parts == {p \in Pages : final[j].parts[p] # "absent"} IN
                    /\ final[j].there /\ job[j].output
                    /\ parts = PagesIn(j, {"completed"})
                    /\ job[j].processed = Cardinality(parts)
                    /\ job[j].processed + job[j].failed = job[j].discovered
                    /\ job[j].discovered =
                           Cardinality(PagesIn(j, {"completed", "failed", "skipped"}))
                    /\ PagesIn(j, Resumable) = {}
                    /\ job[j].chunks =
                           Cardinality(UNION {{p} \X (1..ChunksOf[final[j].parts[p]]) :
                                p \in {q \in Pages : final[j].parts[q] \in Hashes}})
  BY DEF CompletedRowMatchesFinal
<1> DEFINE parts == {p \in Pages : final[j].parts[p] # "absent"}
           C == PagesIn(j, {"completed"})
           L == PagesIn(j, {"failed", "skipped"})
           D == PagesIn(j, {"completed", "failed", "skipped"})
<1>1. final[j].there /\ \A p \in Pages : final[j].parts[p] = Content(j, p)
  BY DEF BillInv, SpoolExact
<1>2. /\ job[j].output /\ PagesIn(j, Resumable) = {}
      /\ job[j].discovered = Cardinality(Present(j))
      /\ job[j].processed = Cardinality(C) /\ job[j].failed = Cardinality(L)
      /\ job[j].chunks = ChunksDone(j)
  BY DEF DeliverInv, RowCounts
<1>3. parts = C
  BY <1>1, ContentType DEF PagesIn
<1>4. Present(j) = D
  <2>1. \A p \in Pages : page[j][p].status \in {"absent", "pending", "processing",
                                                "completed", "failed", "skipped"}
    BY DEF TypeOK, RowTypes, PageRow
  <2> QED
    BY <1>2, <2>1 DEF Present, PagesIn, Resumable
<1>5. Cardinality(D) = Cardinality(C) + Cardinality(L)
  <2>1. D = C \cup L /\ C \cap L = {} /\ C \in SUBSET Pages /\ L \in SUBSET Pages
    BY DEF PagesIn
  <2>2. /\ IsFiniteSet(C) /\ IsFiniteSet(L)
        /\ Cardinality(C) \in Nat /\ Cardinality(L) \in Nat
    BY <2>1, PageSetSize
  <2> HIDE DEF C, L, D
  <2>3. Cardinality(C \cup L) = Cardinality(C) + Cardinality(L) - Cardinality(C \cap L)
    BY <2>2, FS_Union
  <2>4. Cardinality(C \cap L) = 0
    BY <2>1, FS_EmptySet
  <2> QED
    BY <2>1, <2>2, <2>3, <2>4
<1>6. UNION {{p} \X (1..ChunksOf[final[j].parts[p]]) :
                 p \in {q \in Pages : final[j].parts[q] \in Hashes}}
          = UNION {{p} \X (1..page[j][p].chunks) : p \in C}
  <2> DEFINE F(p) == {p} \X (1..ChunksOf[final[j].parts[p]])
             R(p) == {p} \X (1..page[j][p].chunks)
             H == {q \in Pages : final[j].parts[q] \in Hashes}
  <2>1. ASSUME NEW p \in H PROVE p \in C /\ F(p) = R(p)
    <3>1. /\ page[j][p].status = "completed" /\ ~page[j][p].dup
          /\ final[j].parts[p] = page[j][p].hash
      BY <1>1, ContentType DEF Content
    <3>2. page[j][p].chunks = ChunksOf[page[j][p].hash]
      BY <3>1 DEF DeliverInv, CompletedRowExact
    <3> QED
      BY <3>1, <3>2 DEF PagesIn
  <2>2. ASSUME NEW p \in C, p \notin H PROVE R(p) = {}
    <3>1. page[j][p].status = "completed" /\ p \in Pages
      BY DEF PagesIn
    <3>2. page[j][p].dup
      BY <1>1, <2>2, <3>1 DEF Content, DeliverInv, CompletedRowExact
    <3>3. page[j][p].chunks = 0
      BY <3>1, <3>2 DEF DeliverInv, CompletedRowExact
    <3> QED
      BY <3>3
  <2> HIDE DEF F, R, H, C
  <2>3. UNION {F(p) : p \in H} = UNION {R(p) : p \in C}
    BY <2>1, <2>2
  <2> QED
    BY <2>3 DEF F, R, H
<1>7. job[j].chunks = Cardinality(UNION {{p} \X (1..page[j][p].chunks) : p \in C})
  BY <1>2 DEF ChunksDone
<1> HIDE DEF C, L, D
<1>8. Cardinality(parts) = Cardinality(C)
  BY <1>3
<1>9. job[j].processed + job[j].failed = job[j].discovered
  BY <1>2, <1>4, <1>5
<1> QED
  BY <1>1, <1>2, <1>3, <1>4, <1>6, <1>7, <1>8, <1>9 DEF C, D

\* DeliverableAlwaysExact: what a client is handed is what its row says: object and
\* counts agree, no content is shipped twice, a canceled job leaves no object, and
\* the webhook flag tells of a POST that was received.
THEOREM DeliverableAlwaysExact == Spec => []DeliverableExact
<1>1. TypeOK /\ BillInv /\ DeliverInv => DeliverableExact
  <2> SUFFICES ASSUME TypeOK, BillInv, DeliverInv PROVE DeliverableExact
    OBVIOUS
  <2>1. CompletedRowMatchesFinal
    BY CompletedRowDescribes
  <2>2. NoDuplicateContent
    <3> SUFFICES ASSUME NEW j \in Jobs, NEW p \in Pages, NEW q \in Pages,
                        job[j].status = "completed", p # q,
                        final[j].parts[p] \in Hashes,
                        final[j].parts[p] = final[j].parts[q]
                 PROVE  FALSE
      BY DEF NoDuplicateContent
    <3>1. /\ final[j].parts[p] = Content(j, p) /\ final[j].parts[q] = Content(j, q)
      BY DEF BillInv, SpoolExact
    <3>2. /\ page[j][p].status = "completed" /\ ~page[j][p].dup
          /\ page[j][q].status = "completed" /\ ~page[j][q].dup
      BY <3>1, ContentType
    <3>3. page[j][p].hash = page[j][q].hash
      BY <3>1, <3>2 DEF Content
    <3> QED
      BY <3>2, <3>3 DEF DeliverInv, ContentSeen
  <2>3. CanceledLeavesNoOutput
    BY DEF CanceledLeavesNoOutput, DeliverInv, OutputOwned
  <2> QED
    BY <2>1, <2>2, <2>3 DEF DeliverableExact, DeliverInv, HookKnown
<1> QED
  BY <1>1, DeliverHolds, BillHolds, Inductive, PTL DEF IndInv

-----------------------------------------------------------------------------
(* Progress and resume *)

\* OwedBefore: a job that owes a page after a step owed it before, unless the
\* step gave it its pages.
LEMMA OwedBefore ==
    ASSUME TypeOK, TypeOK', OwnInv, [Next]_vars, NEW j \in Jobs, HasPages(j), Owes(j)'
    PROVE  Owes(j)
<1> USE DEF PageStep
<1>a. ~CreateFilePages(j)
  BY DEF CreateFilePages, OwnInv, NotYetQueued, BeforeQueue, InSubmit, HasPages
<1>b. cur = j => \A n \in Pages : ~DiscoverPages(n)
  BY DEF DiscoverPages, OwnInv, PagesKnown
<1>1. ASSUME NEW p \in Pages, page'[j][p].status \in Resumable PROVE Owes(j)
  <2>1. CASE page'[j][p] = page[j][p]
    BY <1>1, <2>1 DEF Owes, PagesIn
  <2>2. CASE page'[j][p] # page[j][p]
    <3>1. cur = j /\ MarkPageProcessing
      BY <1>a, <1>b, <1>1, <2>2, PageMoves DEF Resumable
    <3> QED
      BY <3>1 DEF MarkPageProcessing, Owes
  <2> QED
    BY <2>1, <2>2
<1>2. ASSUME cur' = j, pc' \in PageStep PROVE Owes(j)
  <2>1. /\ cur = j
        /\ pc \in PageStep \/ (NextPage /\ page[cur][idx].status \in Resumable)
    BY <1>2, ControlFlow
       DEF Quiet, NextPage, CheckOpsQuota, MarkPageProcessing, RenderUrl, ConvertFile,
           RenderFails, StagePage, CompletePage, PageFaults, SkipPage, BillPage, FailPage
  <2>2. NextPage => idx \in Pages
    BY DEF NextPage, TypeOK, WorkerTypes, Pages
  <2> QED
    BY <2>1, <2>2 DEF Owes, PagesIn
<1> QED
  BY <1>1, <1>2 DEF Owes, PagesIn

\* DoneStays: as long as a job owes a page its done pages stay as they are.
LEMMA DoneStays ==
    ASSUME TypeOK, TypeOK', StepInv, OwnInv, LoopSettled, [Next]_vars,
           NEW j \in Jobs, Owes(j), NEW p \in Done(j)
    PROVE  p \in Done(j)' /\ page'[j][p] = page[j][p]
<1> USE DEF PageStep
<1>0. /\ p \in Pages /\ page[j][p].status = "completed"
      /\ ~(cur = j /\ pc \in {"bill", "fail"} /\ p = idx)
  BY DEF Done, PagesIn
<1>a. ~CreateFilePages(j)
  BY <1>0 DEF CreateFilePages, OwnInv, NotYetQueued, BeforeQueue, InSubmit
<1>b. cur = j => \A n \in Pages : ~DiscoverPages(n)
  BY <1>0 DEF DiscoverPages, OwnInv, PagesKnown, HasPages
<1>c. ~(cur = j /\ DemotePage)
  BY DEF DemotePage, Owes, LoopSettled, Assembling, PagesIn
<1>d. ~(/\ cur = j /\ idx = p
        /\ SkipPage \/ MarkPageProcessing \/ FailPage \/ CompletePage)
  BY <1>0 DEF SkipPage, MarkPageProcessing, FailPage, CompletePage, StepInv, PageOwed
<1>1. page'[j][p] = page[j][p]
  BY <1>0, <1>a, <1>b, <1>c, <1>d, PageMoves
<1>2. ASSUME cur' = j, pc' \in {"bill", "fail"} PROVE p # idx'
  <2>1. cur = j /\ idx' = idx
    BY <1>2, ControlFlow DEF Quiet, CompletePage, RenderFails, PageFaults
  <2>2. \/ pc \in {"bill", "fail"}
        \/ pc \in {"render", "stage", "complete"}
    BY <1>2, ControlFlow DEF Quiet, CompletePage, RenderFails, PageFaults
  <2>3. pc \in {"render", "stage", "complete"} => p # idx
    BY <1>0, <2>1 DEF StepInv, PageOwed
  <2> QED
    BY <1>0, <2>1, <2>2, <2>3
<1> QED
  BY <1>0, <1>1, <1>2 DEF Done, PagesIn

\* DoneGrows: so neither they nor their chunks become fewer.
LEMMA DoneGrows ==
    ASSUME TypeOK, TypeOK', StepInv, OwnInv, LoopSettled, [Next]_vars,
           NEW j \in Jobs, Owes(j)
    PROVE  /\ Cardinality(Done(j)) \in Nat /\ Cardinality(Done(j)') \in Nat
           /\ Cardinality(ChunksIn(j, Done(j))) \in Nat
           /\ Cardinality(ChunksIn(j, Done(j))') \in Nat
           /\ Cardinality(Done(j)) <= Cardinality(Done(j)')
           /\ Cardinality(ChunksIn(j, Done(j))) <= Cardinality(ChunksIn(j, Done(j))')
<1>a. PICK S \in SUBSET Pages : S = Done(j)
  BY DEF Done, PagesIn
<1>b. PICK T \in SUBSET Pages : T = Done(j)'
  BY DEF Done, PagesIn
<1>1. S \subseteq T /\ \A p \in S : page'[j][p] = page[j][p]
  BY <1>a, <1>b, DoneStays
<1>2. IsFiniteSet(T) /\ Cardinality(S) \in Nat /\ Cardinality(T) \in Nat
  BY PageSetSize
<1>3. Cardinality(S) <= Cardinality(T)
  BY <1>1, <1>2, FS_Subset
<1>4. /\ IsFiniteSet(ChunksIn(j, T)') /\ Cardinality(ChunksIn(j, T)') \in Nat
      /\ Cardinality(ChunksIn(j, S)) \in Nat
  BY ChunksFinite
<1>5. ChunksIn(j, S) \subseteq ChunksIn(j, T)'
  BY <1>1 DEF ChunksIn
<1>6. Cardinality(ChunksIn(j, S)) <= Cardinality(ChunksIn(j, T)')
  BY <1>4, <1>5, FS_Subset
<1>7. ChunksIn(j, Done(j))' = ChunksIn(j, T)'
  BY <1>b DEF ChunksIn
<1> QED
  BY <1>a, <1>b, <1>2, <1>3, <1>4, <1>6, <1>7

\* TallyKept: the counters of an attempt count its done pages.
LEMMA TallyKept ==
    ASSUME TypeOK, TypeOK', StepInv, OwnInv, BilledCompleted, ProgressBound,
           [Next]_vars, pc' \in PageStep \cup {"next"}
    PROVE  /\ tally'.processed = Cardinality(Done(cur)')
           /\ tally'.chunks = Cardinality(ChunksIn(cur, Done(cur))')
<1> USE DEF PageStep
<1>0. /\ cur' = cur /\ pc # "idle" /\ cur \in Jobs /\ tally \in Tally
      /\ page \in [Jobs -> [Pages -> PageRow]]
  BY ControlFlow, WorkerHasJob DEF Quiet, TypeOK, WorkerTypes, RowTypes
<1>c. PICK c \in Jobs : c = cur
  BY <1>0
<1>a. PICK S \in SUBSET Pages : S = Done(c)
  BY DEF Done, PagesIn
<1>d. ASSUME pc \in PageStep \cup {"next"}
      PROVE  /\ tally.processed = Cardinality(S)
             /\ tally.chunks = Cardinality(ChunksIn(c, S))
  BY <1>a, <1>c, <1>d DEF ProgressBound
<1>e. ASSUME tally'.processed = tally.processed, tally'.chunks = tally.chunks,
             pc \in PageStep \cup {"next"}, Done(c)' = S,
             \A p \in S : page'[c][p].chunks = page[c][p].chunks
      PROVE  /\ tally'.processed = Cardinality(Done(cur)')
             /\ tally'.chunks = Cardinality(ChunksIn(cur, Done(cur))')
  <2>1. ChunksIn(c, S)' = ChunksIn(c, S)
    BY <1>e, ChunksSame
  <2>2. Done(cur)' = Done(c)' /\ ChunksIn(cur, Done(cur))' = ChunksIn(c, S)'
    BY <1>0, <1>c, <1>e DEF Done, PagesIn, ChunksIn
  <2> QED
    BY <1>d, <1>e, <2>1, <2>2
<1>1. CASE Quiet
  <2>1. page'[c] = page[c] /\ UNCHANGED <<tally, pc, cur, idx>>
    BY <1>0, <1>1, <1>c, QuietPages DEF Quiet, localVars
  <2>2. Done(c)' = S
    BY <1>a, <2>1 DEF Done, PagesIn
  <2> QED
    BY <1>e, <2>1, <2>2
<1>2. CASE BeginProcessing
  <2>1. page' = page /\ pc' = "next" /\ tally' = SeedTally(cur)
    BY <1>0, <1>2 DEF BeginProcessing, TypeOK, WorkerTypes
  <2>2. Done(cur)' = PagesIn(cur, {"completed"})
    BY <1>0, <2>1 DEF Done, PagesIn
  <2>3. Cardinality(ChunksIn(cur, Done(cur))') = ChunksDone(cur)
    BY <1>0, <2>1, <2>2 DEF ChunksIn, ChunksDone
  <2> QED
    BY <2>1, <2>2, <2>3 DEF SeedTally
<1>3. CASE \/ NextPage \/ CheckOpsQuota \/ StagePage \/ SyncProgress
           \/ \E u \in Urls, h \in Hashes : RenderUrl(u, h)
           \/ \E h \in Hashes : ConvertFile(h)
  <2>1. /\ page' = page /\ tally' = tally /\ pc \in PageStep \cup {"next"}
        /\ pc \notin {"bill", "fail"} /\ pc' \notin {"bill", "fail"}
    BY <1>3 DEF NextPage, CheckOpsQuota, StagePage, SyncProgress, RenderUrl, ConvertFile,
                rowVars, localVars
  <2>2. Done(c)' = S
    BY <1>a, <2>1 DEF Done, PagesIn
  <2> QED
    BY <1>e, <2>1, <2>2
<1>4. CASE RenderFails \/ PageFaults
  <2>1. /\ page' = page /\ tally' = tally
        /\ pc \in {"render", "stage", "complete", "bill"}
        /\ idx' = idx /\ pc' \in {"skip", "fail"} /\ (pc = "bill" => pc' = "fail")
    BY <1>4 DEF RenderFails, PageFaults, rowVars, localVars
  <2>2. pc # "bill" => page[cur][idx].status # "completed"
    BY <2>1 DEF StepInv, PageOwed
  <2>3. Done(c)' = S
    BY <1>0, <1>a, <1>c, <2>1, <2>2 DEF Done, PagesIn
  <2> QED
    BY <1>e, <2>1, <2>3
<1>5. CASE SkipPage \/ MarkPageProcessing \/ FailPage
  <2>1. /\ pc \in {"skip", "mark", "fail"} /\ pc' \notin {"bill", "fail"} /\ idx \in Pages
        /\ tally'.processed = tally.processed /\ tally'.chunks = tally.chunks
    <3>1. tally' = tally \/ tally' = [tally EXCEPT !.failed = @ + 1]
      BY <1>5 DEF SkipPage, MarkPageProcessing, FailPage, localVars
    <3>2. tally'.processed = tally.processed /\ tally'.chunks = tally.chunks
      BY <1>0, <3>1 DEF Tally
    <3> QED
      BY <1>5, <3>2 DEF SkipPage, MarkPageProcessing, FailPage, TypeOK, WorkerTypes
  <2>2. /\ page'[c][idx].status # "completed"
        /\ \A p \in Pages : p # idx => page'[c][p] = page[c][p]
    BY <1>0, <1>5, <1>c, <2>1, PageStatusEffect DEF SkipPage, MarkPageProcessing, FailPage
  <2>3. pc # "fail" => page[c][idx].status # "completed"
    BY <1>c, <2>1 DEF StepInv, PageOwed
  <2>4. Done(c)' = S /\ idx \notin S
    BY <1>a, <1>c, <2>1, <2>2, <2>3 DEF Done, PagesIn
  <2>5. \A p \in S : page'[c][p].chunks = page[c][p].chunks
    BY <2>2, <2>4
  <2> QED
    BY <1>e, <2>1, <2>4, <2>5
<1>6. CASE CompletePage
  <2> DEFINE row == [status |-> "completed", hash |-> rendered.hash,
                     dup |-> IsDuplicate(rendered),
                     chunks |-> IF IsDuplicate(rendered) THEN 0
                                ELSE ChunksOf[rendered.hash]]
  <2>1. /\ pc = "complete" /\ idx' = idx /\ idx \in Pages
        /\ pc' = AfterComplete(IsDuplicate(rendered))
        /\ tally' = IF IsDuplicate(rendered) THEN [tally EXCEPT !.processed = @ + 1]
                    ELSE tally
        /\ page' = [page EXCEPT ![cur] = [page[cur] EXCEPT ![idx] = row]]
    BY <1>6 DEF CompletePage, TypeOK, WorkerTypes
  <2>2. /\ page'[c][idx].status = "completed"
        /\ IsDuplicate(rendered) => page'[c][idx].chunks = 0
        /\ \A p \in Pages : p # idx => page'[c][p] = page[c][p]
    <3>1. row.status = "completed" /\ (IsDuplicate(rendered) => row.chunks = 0)
      OBVIOUS
    <3> HIDE DEF row
    <3> QED
      BY <1>0, <1>c, <2>1, <3>1
  <2> HIDE DEF row
  <2>3. page[c][idx].status # "completed"
    BY <1>c, <2>1 DEF StepInv, PageOwed
  <2>4. idx \notin S /\ \A p \in S : page'[c][p].chunks = page[c][p].chunks
    BY <1>a, <2>2, <2>3 DEF Done, PagesIn
  <2>5. CASE ~IsDuplicate(rendered)
    <3>1. pc' = "bill" /\ tally' = tally
      BY <2>1, <2>5 DEF AfterComplete
    <3>2. Done(c)' = S
      BY <1>0, <1>a, <1>c, <2>1, <2>2, <2>3, <3>1 DEF Done, PagesIn
    <3> QED
      BY <1>e, <2>1, <2>4, <3>1, <3>2
  <2>6. CASE IsDuplicate(rendered)
    <3>1. /\ pc' = "sync" /\ tally'.processed = tally.processed + 1
          /\ tally'.chunks = tally.chunks
      BY <1>0, <2>1, <2>6 DEF AfterComplete, Tally
    <3>2. Done(c)' = S \cup {idx}
      BY <1>0, <1>a, <1>c, <2>1, <2>2, <2>3, <3>1 DEF Done, PagesIn
    <3>3. Cardinality(S \cup {idx}) = Cardinality(S) + 1
      BY <2>4, PageSetSize, FS_AddElement
    <3>4. ChunksIn(c, S \cup {idx})' = ChunksIn(c, S)
      <4>1. ChunksIn(c, S)' = ChunksIn(c, S)
        BY <2>4, ChunksSame
      <4>2. {idx} \X (1..page'[c][idx].chunks) = {}
        BY <2>2, <2>6
      <4>3. ChunksIn(c, S \cup {idx})' = ChunksIn(c, S)'
                \cup ({idx} \X (1..page'[c][idx].chunks))
        BY <2>1 DEF ChunksIn
      <4> QED
        BY <4>1, <4>2, <4>3
    <3>5. /\ Done(cur)' = S \cup {idx}
          /\ ChunksIn(cur, Done(cur))' = ChunksIn(c, S \cup {idx})'
      BY <1>0, <1>c, <2>1, <3>2 DEF Done, PagesIn, ChunksIn
    <3> QED
      BY <1>d, <2>1, <3>1, <3>3, <3>4, <3>5
  <2> QED
    BY <2>5, <2>6
<1>7. CASE BillPage
  <2>1. /\ pc = "bill" /\ pc' = "sync" /\ page' = page /\ idx' = idx /\ idx \in Pages
        /\ tally'.processed = tally.processed + 1
        /\ tally'.chunks = tally.chunks + page[c][idx].chunks
    <3>1. tally' = [tally EXCEPT !.processed = @ + 1,
                                 !.chunks = @ + page[cur][idx].chunks]
      BY <1>7 DEF BillPage
    <3>2. /\ tally'.processed = tally.processed + 1
          /\ tally'.chunks = tally.chunks + page[cur][idx].chunks
      BY <1>0, <3>1 DEF Tally
    <3> QED
      BY <1>7, <1>c, <3>2 DEF BillPage, TypeOK, WorkerTypes
  <2>2. page[c][idx].status = "completed"
    BY <1>c, <2>1 DEF BilledCompleted
  <2>3. idx \notin S /\ Done(c)' = S \cup {idx}
    BY <1>0, <1>a, <1>c, <2>1, <2>2 DEF Done, PagesIn
  <2>4. Cardinality(S \cup {idx}) = Cardinality(S) + 1
    BY <2>3, PageSetSize, FS_AddElement
  <2>5. Cardinality(ChunksIn(c, S \cup {idx}))
            = Cardinality(ChunksIn(c, S)) + page[c][idx].chunks
    BY <2>1, <2>3, ChunksAdd
  <2>6. /\ Done(cur)' = S \cup {idx}
        /\ ChunksIn(cur, Done(cur))' = ChunksIn(c, S \cup {idx})
    BY <1>0, <1>c, <2>1, <2>3 DEF Done, PagesIn, ChunksIn
  <2> QED
    BY <1>d, <2>1, <2>4, <2>5, <2>6
<1> QED
  BY <1>1, <1>2, <1>3, <1>4, <1>5, <1>6, <1>7, ControlFlow

\* SyncWrites: update_job_progress writes the counters of the attempt to an active
\* row; complete_job leaves no active row behind.
LEMMA SyncWrites ==
    ASSUME TypeOK, [Next]_vars, NEW j \in Jobs,
           job[j].status \in Active, job'[j].status \in Active
    PROVE  \/ job'[j].processed = job[j].processed /\ job'[j].chunks = job[j].chunks
           \/ /\ cur = j /\ pc = "sync"
              /\ job'[j].processed = tally.processed /\ job'[j].chunks = tally.chunks
<1>1. ASSUME cur = j PROVE ~FinishJob
  BY <1>1, CompleteStatuses DEF FinishJob, TypeOK, RowTypes, Active
<1>2. ASSUME cur = j, SyncProgress
      PROVE  /\ pc = "sync"
             /\ job'[j].processed = tally.processed /\ job'[j].chunks = tally.chunks
  <2>1. pc = "sync" /\ UpdateJobProgress(cur, tally)
    BY <1>2 DEF SyncProgress
  <2> QED
    BY <1>2, <2>1, CounterWrites
<1> QED
  BY <1>1, <1>2, FieldMoves

\* RowBoundKept: the row of a job that owes a page is never ahead of its pages.
LEMMA RowBoundKept ==
    ASSUME TypeOK, TypeOK', StepInv, OwnInv, LoopSettled, ProgressBound, [Next]_vars,
           NEW j \in Jobs, job'[j].status \in Active, Owes(j)'
    PROVE  /\ job'[j].processed <= Cardinality(Done(j)')
           /\ job'[j].chunks <= Cardinality(ChunksIn(j, Done(j))')
<1> USE DEF PageStep
<1>0. job \in [Jobs -> JobRow]
  BY DEF TypeOK, RowTypes
<1>1. CASE HasPages(j)
  <2>1. Owes(j)
    BY <1>1, OwedBefore
  <2>2. job[j].status \in Active
    <3>1. ~CreateJob(j)
      BY <1>1 DEF CreateJob, OwnInv, NotYetQueued, BeforeQueue, InSubmit, HasPages
    <3> QED
      BY <3>1, StatusMoves
  <2>3. /\ Cardinality(Done(j)) \in Nat /\ Cardinality(Done(j)') \in Nat
        /\ Cardinality(ChunksIn(j, Done(j))) \in Nat
        /\ Cardinality(ChunksIn(j, Done(j))') \in Nat
        /\ Cardinality(Done(j)) <= Cardinality(Done(j)')
        /\ Cardinality(ChunksIn(j, Done(j))) <= Cardinality(ChunksIn(j, Done(j))')
    BY <2>1, DoneGrows
  <2>4. job[j].processed \in Nat /\ job[j].chunks \in Nat
    BY <1>0 DEF JobRow
  <2>5. /\ job[j].processed <= Cardinality(Done(j))
        /\ job[j].chunks <= Cardinality(ChunksIn(j, Done(j)))
    BY <2>1, <2>2 DEF ProgressBound
  <2>6. CASE job'[j].processed = job[j].processed /\ job'[j].chunks = job[j].chunks
    BY <2>3, <2>4, <2>5, <2>6
  <2>7. CASE /\ cur = j /\ pc = "sync"
             /\ job'[j].processed = tally.processed /\ job'[j].chunks = tally.chunks
    <3>1. /\ tally.processed = Cardinality(Done(j))
          /\ tally.chunks = Cardinality(ChunksIn(j, Done(j)))
      BY <2>7 DEF ProgressBound
    <3> QED
      BY <2>3, <2>7, <3>1
  <2> QED
    BY <2>2, <2>6, <2>7, SyncWrites
<1>2. CASE ~HasPages(j)
  <2>1. job[j].processed = 0 /\ job[j].chunks = 0
    BY <1>2 DEF ProgressBound
  <2>2. ~(cur = j /\ (SyncProgress \/ FinishJob))
    <3>1. cur = j => ~SyncProgress
      <4>1. ASSUME cur = j, SyncProgress PROVE HasPages(j)
        BY <4>1 DEF SyncProgress, OwnInv, PagesKnown, HasPages, TypeOK, WorkerTypes
      <4> QED
        BY <1>2, <4>1
    <3>2. cur = j => ~FinishJob
      <4>1. ASSUME cur = j, FinishJob PROVE FALSE
        <5>1. job[j].status \in {"processing", "canceled"}
          BY <4>1 DEF FinishJob, StepInv, StatusAtStep
        <5>2. job[j].status # "processing"
          BY <1>2 DEF OwnInv, PagesKnown
        <5>3. job'[j].status = job[j].status
          BY <4>1, <5>1, <5>2, CompleteStatuses DEF FinishJob, TypeOK, RowTypes, Active
        <5> QED
          BY <5>1, <5>2, <5>3 DEF Active
      <4> QED
        BY <4>1
    <3> QED
      BY <3>1, <3>2
  <2>3. job'[j].processed = 0 /\ job'[j].chunks = 0
    BY <2>1, <2>2, FieldMoves
  <2>4. Cardinality(Done(j)') \in Nat /\ Cardinality(ChunksIn(j, Done(j))') \in Nat
    <3>1. PICK T \in SUBSET Pages : T = Done(j)'
      BY DEF Done, PagesIn
    <3>2. ChunksIn(j, Done(j))' = ChunksIn(j, T)'
      BY <3>1 DEF ChunksIn
    <3> QED
      BY <3>1, <3>2, PageSetSize, ChunksFinite
  <2> QED
    BY <2>3, <2>4
<1> QED
  BY <1>1, <1>2

\* ProgressKept: counters of the attempt and of the rows stay within the done pages.
LEMMA ProgressKept ==
    ASSUME TypeOK, TypeOK', StepInv, OwnInv, LoopSettled, BilledCompleted,
           ProgressBound, [Next]_vars
    PROVE  ProgressBound'
<1>1. ASSUME NEW j \in Jobs, ~HasPages(j)'
      PROVE  job'[j].processed = 0 /\ job'[j].chunks = 0
  <2>1. ~HasPages(j)
    BY <1>1, HasPagesKept
  <2>2. job[j].processed = 0 /\ job[j].chunks = 0
    BY <2>1 DEF ProgressBound
  <2>3. CASE cur = j /\ SyncProgress
    BY <2>1, <2>3
       DEF SyncProgress, OwnInv, PagesKnown, HasPages, TypeOK, WorkerTypes, PageStep
  <2>4. CASE cur = j /\ FinishJob
    <3>1. job[j].status \notin Active
      BY <2>1, <2>4
         DEF FinishJob, StepInv, StatusAtStep, OwnInv, PagesKnown, Active
    <3>2. job' = job
      BY <2>4, <3>1 DEF FinishJob, CompleteJob
    <3> QED
      BY <2>2, <3>2
  <2> QED
    BY <2>2, <2>3, <2>4, FieldMoves
<1>2. ASSUME pc' \in PageStep \cup {"next"}
      PROVE  /\ tally'.processed = Cardinality(Done(cur)')
             /\ tally'.chunks = Cardinality(ChunksIn(cur, Done(cur))')
  BY <1>2, TallyKept
<1>3. ASSUME NEW j \in Jobs, job'[j].status \in Active, Owes(j)'
      PROVE  /\ job'[j].processed <= Cardinality(Done(j)')
             /\ job'[j].chunks <= Cardinality(ChunksIn(j, Done(j))')
  BY <1>3, RowBoundKept
<1> QED
  BY <1>1, <1>2, <1>3 DEF ProgressBound

\* SeenCompletedKept: known content stays on a completed page of the job in hand.
LEMMA SeenCompletedKept ==
    ASSUME TypeOK, TypeOK', StepInv, OwnInv, BilledCompleted, SeenCompleted, [Next]_vars,
           faults' = 0, pc' \in PageStep \cup {"next"}, NEW h \in seen'.hashes
    PROVE  \E q \in Pages : page'[cur'][q].status = "completed" /\ page'[cur'][q].hash = h
<1> USE DEF PageStep
<1>0. /\ cur' = cur /\ pc # "idle" /\ cur \in Jobs /\ faults = 0
      /\ page \in [Jobs -> [Pages -> PageRow]]
  BY ControlFlow, WorkerHasJob, NoFaultYet DEF Quiet, TypeOK, WorkerTypes, RowTypes
<1>c. PICK c \in Jobs : c = cur
  BY <1>0
<1>k. ASSUME NEW q \in Pages, page[c][q].status = "completed"
      PROVE  page'[c][q] = page[c][q] \/ DemotePage
  <2>1. ~CreateFilePages(c)
    BY <1>k DEF CreateFilePages, OwnInv, NotYetQueued, BeforeQueue, InSubmit
  <2>2. \A n \in Pages : ~DiscoverPages(n)
    BY <1>k, <1>c DEF DiscoverPages, OwnInv, PagesKnown, HasPages
  <2>3. q = idx => ~(SkipPage \/ MarkPageProcessing \/ FailPage \/ CompletePage)
    BY <1>k, <1>0, <1>c
       DEF SkipPage, MarkPageProcessing, FailPage, CompletePage, StepInv, PageOwed,
           BilledCompleted
  <2> QED
    BY <2>1, <2>2, <2>3, PageMoves
<1>d. ~DemotePage
  BY DEF DemotePage
<1>1. CASE h \in seen.hashes /\ pc \in PageStep \cup {"next"}
  <2>1. PICK q \in Pages : page[c][q].status = "completed" /\ page[c][q].hash = h
    BY <1>0, <1>c, <1>1 DEF SeenCompleted
  <2>2. page'[c][q] = page[c][q]
    BY <1>d, <1>k, <2>1
  <2> QED
    BY <1>0, <1>c, <2>1, <2>2
<1>2. CASE BeginProcessing
  <2>1. page' = page /\ seen' = Reseed(cur)
    BY <1>0, <1>2 DEF BeginProcessing, TypeOK, WorkerTypes
  <2>2. PICK q \in PagesIn(cur, {"completed"}) : h = page[cur][q].hash
    BY <2>1 DEF Reseed
  <2> QED
    BY <1>0, <2>1, <2>2 DEF PagesIn
<1>3. CASE CompletePage
  <2>1. /\ pc = "complete" /\ idx \in Pages
        /\ seen' = SeenWith(rendered, IsDuplicate(rendered))
    BY <1>3 DEF CompletePage, TypeOK, WorkerTypes
  <2>2. h \in seen.hashes \/ h = rendered.hash
    BY <2>1 DEF SeenWith
  <2>3. page'[c][idx].status = "completed" /\ page'[c][idx].hash = rendered.hash
    <3> DEFINE row == [status |-> "completed", hash |-> rendered.hash,
                       dup |-> IsDuplicate(rendered),
                       chunks |-> IF IsDuplicate(rendered) THEN 0
                                  ELSE ChunksOf[rendered.hash]]
    <3>1. page' = [page EXCEPT ![cur] = [page[cur] EXCEPT ![idx] = row]]
      BY <1>3 DEF CompletePage
    <3>2. row.status = "completed" /\ row.hash = rendered.hash
      OBVIOUS
    <3> HIDE DEF row
    <3> QED
      BY <1>0, <1>c, <2>1, <3>1, <3>2
  <2> QED
    BY <1>0, <1>1, <1>c, <2>1, <2>2, <2>3
<1>4. CASE ~BeginProcessing /\ ~CompletePage
  <2>1. seen' = seen /\ pc \in PageStep \cup {"next"}
    BY <1>4, ControlFlow
       DEF Quiet, NextPage, CheckOpsQuota, MarkPageProcessing, RenderUrl, ConvertFile,
           RenderFails, StagePage, PageFaults, SkipPage, BillPage, FailPage,
           SyncProgress, localVars
  <2> QED
    BY <1>1, <2>1
<1> QED
  BY <1>2, <1>3, <1>4

\* ResumeInit: there is no attempt and no progress at first.
LEMMA ResumeInit == Init => ResumeInv
<1> SUFFICES ASSUME Init PROVE ResumeInv
  OBVIOUS
<1>1. /\ \A j \in Jobs : /\ job[j].status = "none"
                         /\ job[j].processed = 0 /\ job[j].chunks = 0
      /\ pc = "idle"
  BY DEF Init, NoRow
<1> QED
  BY <1>1 DEF ResumeInv, ProgressBound, SeenCompleted, PageStep, Active

\* ResumeKept: every step keeps what a resumed attempt starts from.
LEMMA ResumeKept ==
    ASSUME TypeOK, TypeOK', StepInv, OwnInv, BillInv, DeliverInv, ResumeInv, [Next]_vars
    PROVE  ResumeInv'
<1>1. ProgressBound'
  BY ProgressKept DEF BillInv, DeliverInv, ResumeInv
<1>2. SeenCompleted'
  BY SeenCompletedKept DEF BillInv, ResumeInv, SeenCompleted
<1> QED
  BY <1>1, <1>2 DEF ResumeInv

\* ResumeHolds: it is an inductive invariant with ownership, bill and deliverable.
LEMMA ResumeHolds == Spec => []ResumeInv
<1>1. TypeOK /\ TypeOK' /\ StepInv /\ OwnInv /\ BillInv /\ DeliverInv /\ ResumeInv
      /\ [Next]_vars => ResumeInv'
  BY ResumeKept
<1> QED
  BY <1>1, ResumeInit, DeliverHolds, BillHolds, OwnershipHolds, Inductive, PTL
     DEF Spec, IndInv

\* NewDuplicate: only complete_page marks a page as a duplicate, of what it rendered.
LEMMA NewDuplicate ==
    ASSUME TypeOK, [Next]_vars, NEW j \in Jobs, NEW p \in Pages,
           ~page[j][p].dup, page'[j][p].dup
    PROVE  /\ cur = j /\ pc = "complete" /\ IsDuplicate(rendered)
           /\ page'[j][p].hash = rendered.hash
<1>0. page \in [Jobs -> [Pages -> PageRow]]
  BY DEF TypeOK, RowTypes
<1>n. ~NoPage.dup /\ ~[NoPage EXCEPT !.status = "pending"].dup
  BY DEF NoPage
<1>1. ASSUME NEW k \in Jobs, CreateFilePages(k) PROVE FALSE
  <2>1. page' = [page EXCEPT ![k] = [q \in Pages |->
                    IF <<k, q>> \in sources THEN [NoPage EXCEPT !.status = "pending"]
                    ELSE NoPage]]
    BY <1>1 DEF CreateFilePages
  <2>2. page'[j] = page[j] \/ page'[j][p] = NoPage
        \/ page'[j][p] = [NoPage EXCEPT !.status = "pending"]
    BY <1>0, <2>1
  <2> QED
    BY <1>n, <2>2
<1>2. ASSUME NEW n \in Pages, DiscoverPages(n) PROVE FALSE
  <2>1. page' = [page EXCEPT ![cur] = [q \in Pages |->
                    IF q <= n THEN [NoPage EXCEPT !.status = "pending"] ELSE NoPage]]
    BY <1>2 DEF DiscoverPages
  <2>2. page'[j] = page[j] \/ page'[j][p] = NoPage
        \/ page'[j][p] = [NoPage EXCEPT !.status = "pending"]
    BY <1>0, <2>1
  <2> QED
    BY <1>n, <2>2
<1>3. ASSUME SkipPage \/ MarkPageProcessing \/ FailPage \/ DemotePage PROVE FALSE
  <2>1. PICK s \in {"skipped", "processing", "failed"} : SetPageStatus(cur, idx, s)
    BY <1>3 DEF SkipPage, MarkPageProcessing, FailPage, DemotePage
  <2>2. cur \in Jobs /\ idx \in Pages
    BY <1>3, WorkerHasJob
       DEF SkipPage, MarkPageProcessing, FailPage, DemotePage, TypeOK, WorkerTypes,
           PageStep, Pages
  <2>3. page'[cur][idx].dup = page[cur][idx].dup
    BY <1>0, <2>1, <2>2, PageFieldsKept
  <2>4. cur # j \/ idx # p => page'[j][p] = page[j][p]
    BY <1>0, <2>1, <2>2, PageStatusEffect
  <2> QED
    BY <2>3, <2>4
<1>4. CompletePage
  BY <1>1, <1>2, <1>3, PageWriters
<1>5. /\ cur = j /\ page'[j][p].hash = rendered.hash
      /\ page'[j][p].dup = IsDuplicate(rendered)
  BY <1>1, <1>2, <1>3, PageMoves
<1> QED
  BY <1>4, <1>5 DEF CompletePage

\* ResumeAlwaysFaithful: the live progress of an active job never goes backwards,
\* over crashes and resumes, and a page is dropped as a duplicate only of what the
\* job has completed.
THEOREM ResumeAlwaysFaithful == Spec => ResumeFaithful
<1>1. TypeOK /\ OwnInv /\ ResumeInv /\ [Next]_vars =>
        [\A j \in Jobs : job[j].status \in Active /\ job'[j].status \in Active =>
            job'[j].processed >= job[j].processed /\ job'[j].chunks >= job[j].chunks]_vars
  <2> SUFFICES ASSUME TypeOK, OwnInv, ResumeInv, [Next]_vars, NEW j \in Jobs,
                      job[j].status \in Active, job'[j].status \in Active
               PROVE  job'[j].processed >= job[j].processed
                      /\ job'[j].chunks >= job[j].chunks
    OBVIOUS
  <2>1. job[j].processed \in Nat /\ job[j].chunks \in Nat /\ tally \in Tally
    BY DEF TypeOK, RowTypes, WorkerTypes, JobRow
  <2>2. CASE job'[j].processed = job[j].processed /\ job'[j].chunks = job[j].chunks
    BY <2>1, <2>2
  <2>3. CASE /\ cur = j /\ pc = "sync"
             /\ job'[j].processed = tally.processed /\ job'[j].chunks = tally.chunks
    <3>1. Owes(j) /\ pc \in PageStep \cup {"next"}
      BY <2>3 DEF Owes, PageStep
    <3>2. job[j].processed <= tally.processed /\ job[j].chunks <= tally.chunks
      BY <2>3, <3>1 DEF ResumeInv, ProgressBound
    <3>3. tally.processed \in Nat /\ tally.chunks \in Nat
      BY <2>1 DEF Tally
    <3> QED
      BY <2>1, <2>3, <3>2, <3>3
  <2> QED
    BY <2>2, <2>3, SyncWrites
<1>2. TypeOK /\ ResumeInv /\ [Next]_vars =>
        [\A j \in Jobs, p \in Pages : faults = 0 /\ ~page[j][p].dup /\ page'[j][p].dup =>
            \/ rendered.url \in seen.urls
            \/ \E q \in Pages : /\ page[j][q].status = "completed"
                                /\ page[j][q].hash = page'[j][p].hash]_vars
  <2> SUFFICES ASSUME TypeOK, ResumeInv, [Next]_vars, NEW j \in Jobs, NEW p \in Pages,
                      faults = 0, ~page[j][p].dup, page'[j][p].dup,
                      rendered.url \notin seen.urls
               PROVE  \E q \in Pages : /\ page[j][q].status = "completed"
                                       /\ page[j][q].hash = page'[j][p].hash
    OBVIOUS
  <2>1. /\ cur = j /\ pc = "complete" /\ rendered.hash \in seen.hashes
        /\ page'[j][p].hash = rendered.hash
    BY NewDuplicate DEF IsDuplicate
  <2> QED
    BY <2>1 DEF ResumeInv, SeenCompleted, PageStep
<1> QED
  BY <1>1, <1>2, ResumeHolds, OwnershipHolds, Inductive, PTL
     DEF Spec, IndInv, ResumeFaithful, ProgressNeverBackwards, DuplicateOfCompleted

=============================================================================
