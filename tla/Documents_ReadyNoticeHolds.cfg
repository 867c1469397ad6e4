\* Calls do not fail and the process does not stop; only Asynq's time-outs.
SPECIFICATION Spec
CONSTANTS
  DocIds = {d1}
  Runs = {r1, r2}
  Hooks = {w1}
  PageCount = 1
  NumPages <- MCNumPages
  MaxRetry = 1
  CallsMayFail = FALSE
  MayStop = FALSE
  None = None
INVARIANT ReadyNoticeHolds
CHECK_DEADLOCK FALSE
