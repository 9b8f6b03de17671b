\* Three Joy-Cons fill an array of three, a fourth is not supported.
SPECIFICATION ListSpec
CONSTANTS
  p1 = p1
  p2 = p2
  p3 = p3
  p4 = p4
  Pads <- FourPads
  AddressOf <- Distinct
  Supported <- ThreePads
  MaxConnections = 3
  NULL = NULL
INVARIANTS
  ListTypeOK
  Compact
  LightsMatch
PROPERTY
  ImplementsRoster
