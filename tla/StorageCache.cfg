SPECIFICATION StorageSpec
CONSTANTS
    Objects = {x1}
    Batch = 2
    MaxHits = 1
    MaxStorageFaults = 0
INVARIANT SweptIsCleared
CHECK_DEADLOCK FALSE
