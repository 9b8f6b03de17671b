\* A Joy-Con may leave during the drain loop.
SPECIFICATION ListFairSpec
CONSTANTS
  p1 = p1
  p2 = p2
  p3 = p3
  p4 = p4
  Pads <- ThreePads
  AddressOf <- Distinct
  Supported <- ThreePads
  MaxConnections = 3
  NULL = NULL
PROPERTY
  ScanEnds
