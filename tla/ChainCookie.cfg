SPECIFICATION ChainSpec
CONSTANTS
  Width = 6
  MaxMarker = 15
  Contexts <- MCContexts
  Known <- MCKnown
  Marker <- MCMarker
  Ips = {0, 7, 48}
  Cookies = {0, 61}
  MaxStack = 4
  MaxContexts = 2
INVARIANT ChainsAreExact
CHECK_DEADLOCK FALSE
