CONSTANTS
  p = p
  s = s
  t = t
  q = q
  e1 = e1
  e2 = e2
  h1 = h1
  h2 = h2
  h3 = h3
  h4 = h4
  NoName = NoName
  NULL = NULL
  Primary <- MCPrimary
  Subkey <- MCSubkey
  PrimaryOf <- MCPrimaryOf
  Handle <- MCHandle
  Element <- MCElement
  Requests <- MCRequests
SPECIFICATION HandleSpec
SYMMETRY MCHandles
INVARIANTS
  HandleTypeOK
  EachHandleHasOneOwner
  OnlyPrimariesAreLeftBehind
PROPERTIES
  UsesLiveHandles
