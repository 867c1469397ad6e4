\* One document of two pages, a live run and an abandoned one.
SPECIFICATION Spec
CONSTANTS
  DocIds = {d1}
  Runs = {r1, r2}
  Hooks = {w1}
  PageCount = 2
  NumPages <- MCNumPages
  MaxRetry = 2
  CallsMayFail = TRUE
  MayStop = TRUE
  None = None
SYMMETRY Symmetric
INVARIANTS TypeOK ReadyComplete PageRowHasObject CompletedIsDone AnnouncedComplete
PROPERTY KeptUntilDeleted
CHECK_DEADLOCK FALSE
