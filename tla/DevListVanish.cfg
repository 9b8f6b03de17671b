\* A Joy-Con disconnects between the enumeration and the opening.
SPECIFICATION ListSpec
CONSTANTS
  p1 = p1
  p2 = p2
  p3 = p3
  p4 = p4
  Pads <- ThreePads
  AddressOf <- Distinct
  Supported <- ThreePads
  MaxConnections = 3
  NULL = NULL
PROPERTY
  OpenFailureReported
