SPECIFICATION Spec
CONSTANTS
  DocIds = {d1}
  Runs = {r1}
  Hooks = {}
  PageCount = 1
  NumPages <- MCNumPages
  MaxRetry = 1
  CallsMayFail = FALSE
  MayStop = FALSE
  None = None
INVARIANT DeleteRemovesAll
CHECK_DEADLOCK FALSE
