\* A device of each kind, in any order.
SPECIFICATION Spec
CONSTANTS
  bt = bt
  usb = usb
  orphan = orphan
  other = other
  NULL = NULL
  Devices <- FourDevices
  KindOf <- OneOfEach
INVARIANTS
  TypeOK
  InOrder
  Complete
  FreedOnce
