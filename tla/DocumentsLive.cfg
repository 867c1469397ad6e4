\* Liveness: one document of one page, a live run and an abandoned one.
SPECIFICATION FairSpec
CONSTANTS
  DocIds = {d1}
  Runs = {r1, r2}
  Hooks = {}
  PageCount = 1
  NumPages <- MCNumPages
  MaxRetry = 1
  CallsMayFail = TRUE
  MayStop = TRUE
  None = None
PROPERTIES NoLimbo TaskEnds
CHECK_DEADLOCK FALSE
