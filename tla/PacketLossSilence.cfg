SPECIFICATION Spec
CONSTANTS
  Switch = {s1, s2}
  Interval = 2
  MaxRound = 2
  MaxCount = 1
  NULL = NULL
CHECK_DEADLOCK FALSE
INVARIANT AnsweredOnly
