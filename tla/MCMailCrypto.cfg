CONSTANTS
  p = p
  s = s
  NoName = NoName
  Nothing = Nothing
  Garbage = Garbage
  Primary <- MCPrimary
  Subkey <- MCSubkey
  PrimaryOf <- MCPrimaryOf
  Words <- MCWords
  Serialised <- MCSerialised
  Expiring <- MCExpiring
  Signings <- MCSignings
  Arrivals <- MCArrivals
SPECIFICATION MailSpec
INVARIANTS
  MailTypeOK
PROPERTIES
  FailureKeepsThePart
  ValidIffAllValid
  OwnSignaturesAreNeverBad
