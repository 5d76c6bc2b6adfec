SPECIFICATION FairSpec
CONSTANTS
  Batches = 2
  Drained = TRUE
PROPERTY ShutdownReturns
CHECK_DEADLOCK FALSE
