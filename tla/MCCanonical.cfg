CONSTANTS
  Char <- MCChar
  CR = "CR"
  LF = "LF"
  NUL = "NUL"
  Texts <- MCTexts
  MaxLength = 7
SPECIFICATION CanonSpec
INVARIANTS
  CanonTypeOK
  CanonicalForm
  VerifiesWhatWasSigned
  LinesAreKept
PROPERTIES
  CanonReturns
