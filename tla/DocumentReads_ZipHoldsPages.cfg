SPECIFICATION ReadSpec
CONSTANTS
  DocIds = {d1}
  Runs = {r1}
  Hooks = {}
  PageCount = 1
  NumPages <- MCNumPages
  MaxRetry = 1
  CallsMayFail = FALSE
  MayStop = FALSE
  None = None
  Readers = {q1}
  Asked = {1}
INVARIANT ZipHoldsPages
CHECK_DEADLOCK FALSE
