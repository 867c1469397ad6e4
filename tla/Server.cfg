\* Two documents, two requests, all kinds of settings and any number of restarts.
SPECIFICATION FairSpec
CONSTANTS
  Migrations = 3
  Settings <- MCSettings
  Docs = {d1, d2}
  Requests = {q1, q2}
  MaxTime = 11
  MaxMissed = 1
  None = None
INVARIANTS TypeOK ServesPrepared StuckBriefly PanicsBelowTwo
PROPERTY SignalEnds
CHECK_DEADLOCK FALSE
