SPECIFICATION ConvSpec
CONSTANTS
    u1 = u1  u2 = u2  r1 = r1  b1 = b1  p1 = p1  p2 = p2  j1 = j1
    Uploads = {u1, u2}
    UrlCalls = {r1}
    AsyncCalls = {b1}
    JobIdOf <- MCJobIdOf
    ProjectOf <- MCProjectOf
    SizeOf <- MCSizeOf
    Pages <- MCPages
    ZipModes = {TRUE, FALSE}
    MaxPendingConversions = 2
    MaxPendingBytes = 2
    MaxConcurrentConversions = 1
    OpsGrant = 3
    NoStoragePlan = TRUE
    Gray = {u1}
    MaxConvertFaults = 1
INVARIANTS AdmissionAgrees ConversionRecords
PROPERTIES RequestsEnd
CHECK_DEADLOCK FALSE
