\* Two users, two requests and one key; a key that expires at 1 is good at 1 and
\* dead at 2, a token issued at 0 is dead at 1.
SPECIFICATION FairSpec
CONSTANTS
  Users = {u1, u2}
  Keys = {k1}
  Expiries <- MCExpiries
  Requests = {q1, q2}
  MaxTime = 2
  TokenLife = 1
  MaxTouches = 2
  CallsMayFail = TRUE
  MayStop = TRUE
  None = None
INVARIANTS TypeOK AdmittedInTime RefusedForCause
PROPERTIES RevokedForGood RevocationTakesHold
CHECK_DEADLOCK FALSE
