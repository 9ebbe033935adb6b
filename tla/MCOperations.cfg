CONSTANTS
  p = p
  s = s
  q = q
  NoName = NoName
  Primary <- MCPrimary
  Subkey <- MCSubkey
  PrimaryOf <- MCPrimaryOf
  MayUse <- MCMayUse
  Protected <- MCProtected
  Jobs <- MCJobs
SPECIFICATION OpSpec
INVARIANTS
  OpTypeOK
  NothingIsLeftBehind
  UsesWhatExists
  StaysInArray
  OutputIsByAllNamed
  ReportsWithItsKeyring
  AsksForNamedKeysOnly
PROPERTIES
  EveryOperationReturns
  KeepsItsPromise
