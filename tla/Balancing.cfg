SPECIFICATION Spec
CONSTANTS
  Rate = 2
  Delay = 1
  Ceiling = 7
  IntBits = 6
  Burst = {8, 12}
  MaxBytes = 44
  MaxT = 5
  RingSize = 5
  Q = 7
  ControllerMum = 0
  MaxBacklog = 6
  NULL = NULL
CHECK_DEADLOCK FALSE
INVARIANTS TypeOK Causal WithinRate NeverUnderreported RedirectedToRoom ProbesReachRoom KeptWithinBacklog
