SPECIFICATION FairSpec
CONSTANTS
    b1 = b1  o1 = o1  o2 = o2  o3 = o3  u1 = u1  u2 = u2
    Batches = {b1}
    Singles = {o3}
    BatchOps <- MCBatchOps
    Urls = {u1, u2}
    UrlOf <- MCUrlOf
    ZipBatches = {b1}
    InlineBatches = {b1}
    Ttl = 0
    MaxTime = 1
    MaxCrashes = 1
    MaxFaults = 1
INVARIANTS FinalBatchAgrees BilledIffCompleted PendingOwned
PROPERTIES SettledFrozen BatchEnds
CHECK_DEADLOCK FALSE
