CONSTANTS
  p = p
  s = s
  q = q
  Primary <- MCOnePrimary
  Subkey <- MCSubkey
  PrimaryOf <- MCPrimaryOf
  CanSign <- MCCanSign
  CanEncrypt <- MCSubkey
  CryptoKeys <- MCOneCryptoKey
  Messages <- MCOneMessage
  Queries <- MCQueries
  UnnamedAlgorithm <- MCSubkey
  NoName = NoName
  Import = Import
  Faults = {}
SPECIFICATION Spec
INVARIANTS
  DeletedKeysAreNotListed
