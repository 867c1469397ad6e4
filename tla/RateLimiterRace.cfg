\* Two admissions per window of three ticks, and requests up to a tick late.
SPECIFICATION Spec
CONSTANTS
  Users = {u1}
  Requests = {q1, q2, q3, q4, q5}
  Limit = 2
  Window = 3
  MaxDelay = 1
  MaxClock = 6
  None = None
SYMMETRY Symmetric
INVARIANTS TypeOK RateKept RejectedForCause
CHECK_DEADLOCK FALSE
