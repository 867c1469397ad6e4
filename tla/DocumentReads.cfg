\* One reader of a document of two pages that one worker processes, and a deletion.
SPECIFICATION ReadSpec
CONSTANTS
  DocIds = {d1}
  Runs = {r1}
  Hooks = {}
  PageCount = 2
  NumPages <- MCNumPages
  MaxRetry = 1
  CallsMayFail = TRUE
  MayStop = TRUE
  None = None
  Readers = {q1}
  Asked = {1, 2, 3}
INVARIANTS ReadTypeOK HandedOutExactly HandedOutReadable
CHECK_DEADLOCK FALSE
