SPECIFICATION Spec
CONSTANTS
  Conn = {c1, c2}
  MaxEvents = 2
  MaxAcceptErrors = 1
  Reliable = {c2}
INVARIANT ShutdownClosesSockets
CHECK_DEADLOCK FALSE
