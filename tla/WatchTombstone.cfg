CONSTANTS
  Watchers = {w1, w2}
  Requests = {q1, q2}
  Contents = {c1, c2}
  PageFields = {"final_url", "html"}
  MaxWatchers = 1
  MaxErrors = 2
  ClaimBatch = 2
  MaxEdits = 1
  MaxMishaps = 0
  NoWatcher = NoWatcher
  NoContent = NoContent
SPECIFICATION WatchSpec
PROPERTIES
  TombstoneKept
CHECK_DEADLOCK FALSE
