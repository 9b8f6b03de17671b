\* A left and a right Joy-Con on the USB gamepad.
SPECIFICATION DaemonFairSpec
CONSTANTS
  a = a
  b = b
  rest = rest
  held = held
  simple = simple
  NULL = NULL
  Pads <- TwoPads
  AddressOf <- Own
  Supported <- TwoPads
  MaxConnections = 2
  Target = "usb"
  SideOf <- LeftAndRight
  Inputs <- Buttons
  Rest = rest
  Simple = simple
  InboxLimit = 1
  SilenceLimit = 1
  MaxSettings = 0
  RescanPeriod = 1
PROPERTIES
  FrameFresh
  NoPhantom
  HostFollows
INVARIANT
  DaemonTypeOK
