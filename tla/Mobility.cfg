SPECIFICATION SpecMobility
CONSTANTS
  Radix = 4
  Bytes = 2
  MaxKey <- MCMaxKey
  Start <- MCStart
  FingerCount = 1
  Node = {3, 7, 12}
  Device = {2, 5}
  Own = {2, 5}
  NULL = NULL
  NullPointer = NullPointer
  StackOverflow = StackOverflow
  ConcurrentModification = ConcurrentModification
INVARIANT TypeOK
PROPERTIES EntryNeverLost ImplementsSupervision
CHECK_DEADLOCK FALSE
