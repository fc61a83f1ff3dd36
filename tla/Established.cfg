SPECIFICATION SpecEstablished
CONSTANTS
  Radix = 4
  Bytes = 2
  MaxKey <- MCMaxKey
  Start <- MCStart
  FingerCount = 2
  Node = {3, 7, 12}
  Device = {5, 14}
  Own = {5}
  NULL = NULL
  NullPointer = NullPointer
  StackOverflow = StackOverflow
  ConcurrentModification = ConcurrentModification
INVARIANTS CurrentLocated TraceExact
CHECK_DEADLOCK FALSE
