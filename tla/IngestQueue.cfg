CONSTANTS
  Jobs = {j1, j2}
  FileJobs = {j2}
  HookJobs = {}
  MaxPages = 1
  h1 = h1
  h2 = h2
  h3 = h3
  u1 = u1
  u2 = u2
  Hashes = {h1}
  Urls = {u1}
  PageFields <- MirrorFields
  ChunksOf <- MCChunks
  OpsQuota = 2
  MaxCrashes = 1
  MaxFaults = 1
  NoJob = NoJob
  NoUrl = NoUrl
  NoHash = NoHash
SPECIFICATION FairSpec
INVARIANTS
  ActiveIsServed
PROPERTIES
  Terminates
CHECK_DEADLOCK FALSE
