\* Up to four Joy-Cons, two signals.
SPECIFICATION FairSpec
CONSTANTS
  s1 = s1
  s2 = s2
  s3 = s3
  s4 = s4
  int = int
  term = term
  Structs <- FourStructs
  MaxConnections = 4
  Signals <- BothSignals
  Arguments <- SomeArguments
  NULL = NULL
INVARIANTS
  TypeOK
  Intact
  SafeElsewhere
  HalfClosed
PROPERTIES
  KeepsRoster
  SignalEnds
  WindsDown
\* The process ends.
CHECK_DEADLOCK FALSE
