SPECIFICATION Spec
CONSTANTS
  Radix = 3
  Bytes = 2
  MaxKey <- MCMaxKey
  Start <- MCStart
  FingerCount = 3
  Node = {1, 3, 4, 7}
  Device = {}
  Own = {}
  NULL = NULL
  NullPointer = NullPointer
  StackOverflow = StackOverflow
  ConcurrentModification = ConcurrentModification
INVARIANTS OrderedRing LookupSound LookupTotal
