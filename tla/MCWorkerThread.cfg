SPECIFICATION FairSpec
CONSTANTS
  Batches = 3
  Drained = FALSE
INVARIANTS
  ThreadInv
PROPERTIES
  ImplementsExecutor
  AcceptedCompletes
CHECK_DEADLOCK FALSE
