\* Three Joy-Cons with two addresses in an array of two, and three files.
SPECIFICATION HandlesFairSpec
CONSTANTS
  p1 = p1
  p2 = p2
  p3 = p3
  Pads <- ThreePads
  AddressOf <- P1AliasesP2
  Supported <- ThreePads
  MaxConnections = 2
  NULL = NULL
  Files <- ThreeFiles
INVARIANTS
  NoDuplicate
  NoOverrun
  Newcomer
  OwnFile
  Accounted
  RunsOutLate
PROPERTIES
  ConnectEnds
  ScanAdvances
