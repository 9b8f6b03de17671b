SPECIFICATION Spec
CONSTANTS
  Data <- Triples
  Raws <- SomeRaws
INVARIANT AxisInRange
INVARIANT Monotone
INVARIANT FullTravel
INVARIANT Decoded
