CONSTANTS
  p = p
  s = s
  q = q
  Primary <- MCPrimary
  Subkey <- MCSubkey
  PrimaryOf <- MCPrimaryOf
  CanSign <- MCCanSign
  CanEncrypt <- MCCanEncrypt
  CryptoKeys <- MCCryptoKeys
  Messages <- MCMessages
  Queries <- MCQueries
  UnnamedAlgorithm <- MCSubkey
  NoName = NoName
  Import = Import
  Faults = {"crash", "io"}
SPECIFICATION Spec
INVARIANTS
  TypeOK
  OnlyLoadedRingsAreSaved
  NoOrphanSubkeys
  NoKeyLost
  DeletionsArePending
  AcknowledgedKeyIsGone
  SuccessNamesLoadedPrimary
  ListedKeysAreLoaded
PROPERTIES
  FailedCallsChangeNothing
  DeletedKeysComeBackByLoading
  SuccessIsByTheNamedKey
