------------------------------ MODULE Storage ------------------------------
(***************************************************************************)
(* Stored objects, the bytes counted for a project, and the retention      *)
(* sweep: metrics.update_activity_status, usage.record_storage_and_        *)
(* retention, utils/retention, services/retention_worker and the manual    *)
(* /internal/cleanup-file.  One project; an object stands for the files of *)
(* one output, of one byte, named by its primary key; every statement of a *)
(* transaction is a step.                                                  *)
(***************************************************************************)
EXTENDS Common, FiniteSets

CONSTANTS
    Objects,        \* object keys
    Batch,          \* BATCH
    MaxHits,        \* bound: cache hits on a v2 operation
    MaxStorageFaults

VARIABLES
    object,         \* each key: its kind, whether it is in Spaces, how far its upload got,
                    \* the rows of ch_activity that bear it (0 is the upload's own row, the
                    \* others are those of cache hits) and how many hits there were
    deletion,       \* its row of ch_scheduled_deletions: "none", "later", "due", "swept"
    storageUsed,    \* ch_projects.storage_used
    bytesRead,      \* storage_used as read by a v2 request that will write it back
    storagePlan,    \* does the project have a storage plan
    sweep,          \* the sweep's transaction: rows to do, rows done, storage_used to write,
                    \* and whether it has been sent
    cleanup,        \* a call of /internal/cleanup-file: its key, row, storage_used to write
    manual,         \* the keys such calls named
    storageFaults

storageVars ==
    <<object, deletion, storageUsed, bytesRead, storagePlan, sweep, cleanup, manual, storageFaults>>

Unread == -1
NoSweep == [at |-> "idle", todo |-> {}, done |-> {}, cleared |-> {}, used |-> Unread,
            sent |-> FALSE]
NoCleanup == [key |-> None, rows |-> {}, used |-> Unread]
calls == <<cleanup, manual>>
StorageFault == storageFaults < MaxStorageFaults /\ storageFaults' = storageFaults + 1
StorageOk == UNCHANGED storageFaults
Writable == ~sweep.sent         \* the sweep's UPDATE locks the project's row
Reaches(o, at) == object' = [object EXCEPT ![o].at = at]

-----------------------------------------------------------------------------
(* Uploads: an output of V1, an artifact of v2, a rendered page *)

PutObject(o) ==
    /\ object[o].at = "none"
    /\ \E kind \in {"v1", "v2", "html"} :
          object' = [object EXCEPT ![o] =
                        [kind |-> kind, stored |-> TRUE, link |-> {}, hits |-> 0,
                         at |-> CASE kind = "v1" -> "unlinked" [] kind = "v2" -> "uploaded"
                                  [] kind = "html" -> "counted"]]
    /\ StorageOk /\ UNCHANGED <<deletion, storageUsed, bytesRead, storagePlan, sweep, calls>>

\* update_activity_status commits the row with the key: V1 before it counts the bytes, v2
\* and a rendered page (which counts none) once the deletion is scheduled
Link(o) ==
    /\ object[o].at = "unlinked"
    /\ object' = [object EXCEPT ![o].link = @ \cup {0},
                                ![o].at = IF object[o].kind = "v1" THEN "put" ELSE "done"]
    /\ StorageOk /\ UNCHANGED <<deletion, storageUsed, bytesRead, storagePlan, sweep, calls>>

\* complete_operation: from here on the operation may serve the cache
CompleteV2(o) ==
    /\ object[o].at = "uploaded" /\ Reaches(o, "put")
    /\ StorageOk /\ UNCHANGED <<deletion, storageUsed, bytesRead, storagePlan, sweep, calls>>

\* _serve_from_cache within its hour, which began before the deletion's began: the row of
\* the hit gets the cached key and its bytes
CacheHit(o) ==
    /\ object[o].kind = "v2" /\ object[o].at = "done" /\ object[o].hits < MaxHits
    /\ deletion[o] \in {"none", "later"}
    /\ object' = [object EXCEPT ![o].hits = @ + 1, ![o].link = @ \cup {object[o].hits + 1}]
    /\ StorageOk /\ UNCHANGED <<deletion, storageUsed, bytesRead, storagePlan, sweep, calls>>

\* V1 adds in one statement
CountV1(o) ==
    /\ object[o].at = "put" /\ object[o].kind = "v1" /\ Writable
    /\ storageUsed' = storageUsed + 1 /\ Reaches(o, "counted")
    /\ StorageOk /\ UNCHANGED <<deletion, bytesRead, storagePlan, sweep, calls>>

\* v2 reads, then writes
ReadV2(o) ==
    /\ object[o].at = "put" /\ object[o].kind = "v2"
    /\ bytesRead' = [bytesRead EXCEPT ![o] = storageUsed] /\ Reaches(o, "read")
    /\ StorageOk /\ UNCHANGED <<deletion, storageUsed, storagePlan, sweep, calls>>
WriteV2(o) ==
    /\ object[o].at = "read"
    /\ \/ Writable /\ storageUsed' = bytesRead[o] + 1 /\ StorageOk
       \/ StorageFault /\ UNCHANGED storageUsed
    /\ bytesRead' = [bytesRead EXCEPT ![o] = Unread] /\ Reaches(o, "counted")
    /\ UNCHANGED <<deletion, storagePlan, sweep, calls>>

\* schedule_file_cleanup, swallowed when it fails; a storage plan keeps what was converted
ScheduleDeletion(o) ==
    /\ object[o].at = "counted"
    /\ LET keeps == storagePlan /\ object[o].kind # "html"
       IN  \/ /\ deletion' = [deletion EXCEPT ![o] = IF keeps THEN @ ELSE "later"]
              /\ StorageOk
           \/ StorageFault /\ UNCHANGED deletion
    /\ Reaches(o, IF object[o].kind = "v1" THEN "done" ELSE "unlinked")
    /\ UNCHANGED <<storageUsed, bytesRead, storagePlan, sweep, calls>>

\* an hour at the least: any request that uploaded it is over
Expire(o) ==
    /\ deletion[o] = "later" /\ object[o].at = "done"
    /\ deletion' = [deletion EXCEPT ![o] = "due"]
    /\ StorageOk /\ UNCHANGED <<object, storageUsed, bytesRead, storagePlan, sweep, calls>>

BuyStorage ==
    /\ ~storagePlan /\ storagePlan' = TRUE
    /\ StorageOk /\ UNCHANGED <<object, deletion, storageUsed, bytesRead, sweep, calls>>

-----------------------------------------------------------------------------
(* _sweep_batch_sync *)

ClaimDue ==
    /\ sweep.at = "idle"
    /\ \E rows \in SUBSET {o \in Objects : deletion[o] = "due"} :
          /\ Cardinality(rows) = Least(Batch, Cardinality({o \in Objects : deletion[o] = "due"}))
          /\ rows # {}
          /\ sweep' = [NoSweep EXCEPT !.at = "open", !.todo = rows]
    /\ StorageOk /\ UNCHANGED <<object, deletion, storageUsed, bytesRead, storagePlan, calls>>

\* _delete_and_reconcile.  delete_from_storage logs a failure and returns; .first() takes
\* any one of the rows that bear the key, and takes its bytes off unless it is a page's
DeleteObject(o) ==
    \/ object' = [object EXCEPT ![o].stored = FALSE] /\ StorageOk
    \/ StorageFault /\ UNCHANGED object
FirstRow(o) == IF object[o].link = {} THEN {{}} ELSE {{row} : row \in object[o].link}
Reconciled(o, rows, read) ==
    IF rows # {} /\ object[o].kind # "html" THEN Most(0, read - 1) ELSE Unread

\* one row of the sweep: its first query sends what the previous row left pending
SweepRow(o) ==
    /\ sweep.at = "open" /\ o \in sweep.todo
    /\ DeleteObject(o)
    /\ \E rows \in FirstRow(o) :
          LET used == Reconciled(o, rows, IF sweep.used = Unread THEN storageUsed ELSE sweep.used)
          IN  sweep' = [sweep EXCEPT
                 !.todo = @ \ {o}, !.done = @ \cup {o}, !.cleared = @ \cup ({o} \X rows),
                 !.sent = sweep.used # Unread,
                 !.used = IF used = Unread THEN @ ELSE used]
    /\ UNCHANGED <<deletion, storageUsed, bytesRead, storagePlan, calls>>

MutCommitSweep ==       \* the pointer of the row is left
    /\ sweep.at = "open" /\ sweep.todo = {}
    /\ deletion' = [o \in Objects |-> IF o \in sweep.done THEN "swept" ELSE deletion[o]]
    /\ storageUsed' = IF sweep.used = Unread THEN storageUsed ELSE sweep.used
    /\ sweep' = NoSweep
    /\ StorageOk /\ UNCHANGED <<object, bytesRead, storagePlan, calls>>
CommitSweep ==
    /\ sweep.at = "open" /\ sweep.todo = {}
    /\ deletion' = [o \in Objects |-> IF o \in sweep.done THEN "swept" ELSE deletion[o]]
    /\ object' = [o \in Objects |->
          [object[o] EXCEPT !.link = {row \in @ : <<o, row>> \notin sweep.cleared}]]
    /\ storageUsed' = IF sweep.used = Unread THEN storageUsed ELSE sweep.used
    /\ sweep' = NoSweep
    /\ StorageOk /\ UNCHANGED <<bytesRead, storagePlan, calls>>

\* a database error rolls the batch back, its attempts with it
SweepFails ==
    /\ sweep.at = "open" /\ StorageFault /\ sweep' = NoSweep
    /\ UNCHANGED <<object, deletion, storageUsed, bytesRead, storagePlan, calls>>

-----------------------------------------------------------------------------
(* /internal/cleanup-file: the same primitive by hand, with no row of the schedule *)

CleanupFile(o) ==
    /\ cleanup = NoCleanup /\ object[o].at = "done"
    /\ DeleteObject(o)
    /\ \E rows \in FirstRow(o) :
          cleanup' = [key |-> o, rows |-> rows, used |-> Reconciled(o, rows, storageUsed)]
    /\ manual' = manual \cup {o}
    /\ UNCHANGED <<deletion, storageUsed, bytesRead, storagePlan, sweep>>

CommitCleanup ==
    /\ cleanup # NoCleanup /\ (cleanup.used = Unread \/ Writable)
    /\ object' = [object EXCEPT ![cleanup.key].link = @ \ cleanup.rows]
    /\ storageUsed' = IF cleanup.used = Unread THEN storageUsed ELSE cleanup.used
    /\ cleanup' = NoCleanup
    /\ StorageOk /\ UNCHANGED <<deletion, bytesRead, storagePlan, sweep, manual>>

CleanupFails ==
    /\ cleanup # NoCleanup /\ StorageFault /\ cleanup' = NoCleanup
    /\ UNCHANGED <<object, deletion, storageUsed, bytesRead, storagePlan, sweep, manual>>

\* the process dies: the open transactions and every request with it
StorageCrash ==
    /\ StorageFault
    /\ sweep' = NoSweep /\ cleanup' = NoCleanup
    /\ bytesRead' = [o \in Objects |-> Unread]
    /\ object' = [o \in Objects |->
          [object[o] EXCEPT !.at = CASE @ = "none" -> "none" [] @ \in {"uploaded", "lost"} -> "lost"
                                     [] OTHER -> "done"]]
    /\ UNCHANGED <<deletion, storageUsed, storagePlan, manual>>

-----------------------------------------------------------------------------
StorageInit ==
    /\ object = [o \in Objects |-> [kind |-> None, stored |-> FALSE, link |-> {}, hits |-> 0,
                                    at |-> "none"]]
    /\ deletion = [o \in Objects |-> "none"]
    /\ storageUsed = 0 /\ bytesRead = [o \in Objects |-> Unread]
    /\ storagePlan \in BOOLEAN
    /\ sweep = NoSweep /\ cleanup = NoCleanup /\ manual = {} /\ storageFaults = 0

StorageNext ==
    \/ \E o \in Objects :
          \/ PutObject(o) \/ Link(o) \/ CompleteV2(o) \/ CacheHit(o)
          \/ CountV1(o) \/ ReadV2(o) \/ WriteV2(o) \/ ScheduleDeletion(o)
          \/ Expire(o) \/ SweepRow(o) \/ CleanupFile(o)
    \/ BuyStorage \/ ClaimDue \/ CommitSweep \/ SweepFails
    \/ CommitCleanup \/ CleanupFails \/ StorageCrash

StorageSpec == StorageInit /\ [][StorageNext]_storageVars

-----------------------------------------------------------------------------
(* Properties *)

\* A key that one row bears, and that no manual call named, never points for good at an
\* object that is gone: whatever crash or rollback falls between the delete and the commit,
\* the deletion is still due and clears it (retention._delete_and_reconcile: "the caller
\* owns the transaction").
DanglingIsPending ==
    \A o \in Objects :
        object[o].hits = 0 /\ o \notin manual /\ object[o].link # {} /\ ~object[o].stored
        => deletion[o] = "due"

\* What the docstring of _delete_and_reconcile says of an output file: its key is cleared.
\* The code clears one row of it, and those of cache hits keep the key of a swept object.
SweptIsCleared ==
    \A o \in Objects : deletion[o] = "swept" => object[o].link = {}
=============================================================================
