CONSTANTS
  Watchers = {w1, w2}
  Requests = {q1, q2}
  Contents = {c1, c2}
  PageFields = {"final_url", "html", "content_category"}
  MaxWatchers = 1
  MaxErrors = 2
  ClaimBatch = 2
  MaxEdits = 1
  MaxMishaps = 1
  NoWatcher = NoWatcher
  NoContent = NoContent
SPECIFICATION WatchFairSpec
INVARIANTS
  ClaimedCountExact
  OvershootBounded
  ChangesAnnouncedOnce

  
CHECK_DEADLOCK FALSE
