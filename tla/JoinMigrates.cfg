SPECIFICATION SpecJoins
CONSTANTS
  Radix = 4
  Bytes = 2
  MaxKey <- MCMaxKey
  Start <- MCStart
  FingerCount = 1
  Node = {3, 7, 12}
  Device = {4, 5}
  Own = {}
  NULL = NULL
  NullPointer = NullPointer
  StackOverflow = StackOverflow
  ConcurrentModification = ConcurrentModification
PROPERTY JoinerServes
CHECK_DEADLOCK FALSE
