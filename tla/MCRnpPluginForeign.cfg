CONSTANTS
  p = p
  s = s
  q = q
  Primary <- MCOnePrimary
  Subkey <- MCSubkey
  PrimaryOf <- MCPrimaryOf
  CanSign <- MCCanSign
  CanEncrypt <- MCSubkey
  CryptoKeys <- MCOneCryptoKey
  Messages <- MCOneMessage
  Queries <- MCQueries
  UnnamedAlgorithm <- MCSubkey
  NoName = NoName
  Import = Import
  Faults = {"crash", "io", "foreign"}
SPECIFICATION Spec
INVARIANTS
  WritesBackWhatItOwes
  DeletionsArePending
PROPERTIES
  UnloadCommitsDeletions
  KeepsPromise
  SecretFileIsOnlyRead
