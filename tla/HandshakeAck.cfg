\* One input after the drain.
SPECIFICATION Spec
CONSTANTS
  Numbers <- OneNumber
  InboxLimit = 3
  MaxPresses = 1
  MaxRelights = 0
  None = None
INVARIANT
  Acknowledged
\* The session ends when the Joy-Con has gone.
CHECK_DEADLOCK FALSE
