\* One Joy-Con more than the array holds.
SPECIFICATION ListSpec
CONSTANTS
  p1 = p1
  p2 = p2
  p3 = p3
  p4 = p4
  Pads <- ThreePads
  AddressOf <- Distinct
  Supported <- ThreePads
  MaxConnections = 2
  NULL = NULL
INVARIANT
  NoOverrun
