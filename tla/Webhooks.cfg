\* Two notices, two goroutines; the source grants three retries.
SPECIFICATION HookFairSpec
CONSTANTS
  Jobs = {n1, n2}
  Runs = {r1, r2}
  MaxRetry = 2
  MaxStops = 1
  CallsMayFail = TRUE
  MayStop = TRUE
  None = None
INVARIANTS HookTypeOK CompletedAccepted PostsBounded OneLiveRun
PROPERTIES AcceptedOrArchived
CHECK_DEADLOCK FALSE
