\* Joining and leaving, under a clock that is set once: what the reports say
\* does not matter.
SPECIFICATION DaemonFairSpec
CONSTANTS
  a = a
  b = b
  rest = rest
  held = held
  simple = simple
  NULL = NULL
  Pads <- TwoPads
  AddressOf <- Own
  Supported <- TwoPads
  MaxConnections = 2
  Target = "uinput"
  SideOf <- LeftAndRight
  Inputs <- Idle
  Rest = rest
  Simple = simple
  InboxLimit = 2
  SilenceLimit = 2
  MaxSettings = 1
  RescanPeriod = 1
PROPERTIES
  OnlyGoneLeave
  GoneLeave
  LinkedJoin
