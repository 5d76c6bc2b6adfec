SPECIFICATION FairSpec
CONSTANTS
  Conn = {c1, c2}
  MaxEvents = 2
  MaxAcceptErrors = 1
  Reliable = {c2}
INVARIANTS
  NoOrphanRequest
  DrainIsComplete
  StreamInOrder
PROPERTY ClosedConnectionsEnd
CHECK_DEADLOCK FALSE
