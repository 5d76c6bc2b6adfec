SPECIFICATION Spec
CONSTANTS
  Conn = {c1, c2}
  MaxEvents = 2
  MaxAcceptErrors = 1
  Reliable = {c2}
INVARIANT NoCallbackAfterDrain
CHECK_DEADLOCK FALSE
