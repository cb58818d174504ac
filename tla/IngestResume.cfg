CONSTANTS
  Jobs = {j1}
  FileJobs = {}
  HookJobs = {j1}
  MaxPages = 3
  h1 = h1
  h2 = h2
  h3 = h3
  u1 = u1
  u2 = u2
  Hashes = {h1, h2, h3}
  Urls = {u1, u2}
  PageFields <- CloudFields
  ChunksOf <- MCChunks
  OpsQuota = 2
  MaxCrashes = 1
  MaxFaults = 1
  NoJob = NoJob
  NoUrl = NoUrl
  NoHash = NoHash
SPECIFICATION Spec
INVARIANTS
  TypeOK
  StagedUntilTerminal
  DeliverableExact
  BilledExactly
PROPERTIES
  TerminalFrozen
  ResumeFaithful
  ImplementsLifecycle
SYMMETRY MCSymmetry
CHECK_DEADLOCK FALSE
