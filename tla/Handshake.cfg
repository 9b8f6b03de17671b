\* Up to three inputs during the set-up, a queue that overflows.
SPECIFICATION FairSpec
CONSTANTS
  Numbers <- TwoNumbers
  InboxLimit = 2
  MaxPresses = 3
  MaxRelights = 1
  None = None
INVARIANTS
  TypeOK
  Slip
  Calibrated
  Settled
PROPERTIES
  ReadsEnd
  Ready
\* The session ends when the Joy-Con has gone.
CHECK_DEADLOCK FALSE
