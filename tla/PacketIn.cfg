SPECIFICATION Spec
CONSTANTS
  Switch = {s1, s2}
  Host = {h1, h2}
  Info = {i1}
  MaxDelivered = 3
  NULL = NULL
  BufferSize = 3
  Boundary = s1
  Src = s1
  Dst = s2
  MaxRound = 2
INVARIANTS
  TypeOK
  ListedOnce
  PostSurvives
  AdmittedIsShown
  DelayComplete
CHECK_DEADLOCK FALSE
