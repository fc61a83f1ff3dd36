CONSTANTS
  BadFormat = BadFormat
  Strings <- MCStrings
  KeyedStrings <- MCKeyedStrings
  Settings <- MCSettings
  Suite <- MCSuite
  Hosts <- MCHosts
  Masks <- MCMasks
  Blank = Blank
  A = A
  B = B
  Names = {A, B}
  Addresses <- MCAddresses
  PageSize = 1
  MaxRows = 4
  FirstData <- MCFirstData
  Requests = {r1, r2}
  MaxLogins = 3
  Ops = {account, unbind}
  Checks = {account}
  NoOp = NoOp
SPECIFICATION Spec
INVARIANTS
  TypeOK
  DigestsKnown
  OneDigest
  PaddedToBlocks
  HmacNested
  HostInNetwork
  RowsMirror
  NotStranded
  RunGuarded
PROPERTIES
  DeleteExact
  RefusedSaveRestores
  RunEnds
