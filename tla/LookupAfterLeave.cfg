SPECIFICATION SpecEstablished
CONSTANTS
  Radix = 4
  Bytes = 2
  MaxKey <- MCMaxKey
  Start <- MCStart
  FingerCount = 2
  Node = {3, 7, 12}
  Device = {5}
  Own = {}
  NULL = NULL
  NullPointer = NullPointer
  StackOverflow = StackOverflow
  ConcurrentModification = ConcurrentModification
INVARIANT DeviceLookupAnswers
CHECK_DEADLOCK FALSE
