SPECIFICATION SpecEstablished
CONSTANTS
  Radix = 4
  Bytes = 2
  MaxKey <- MCMaxKey
  Start <- MCStart
  FingerCount = 1
  Node = {3, 7, 12}
  Device = {5}
  Own = {5}
  NULL = NULL
  NullPointer = NullPointer
  StackOverflow = StackOverflow
  ConcurrentModification = ConcurrentModification
PROPERTY HandoverUpdates
CHECK_DEADLOCK FALSE
