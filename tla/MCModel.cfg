SPECIFICATION ModelSpec
CONSTANTS
  Files <- MCFiles
  Damaged <- MCDamaged
  Prompts <- MCPrompts
  MaxNew = 2
  MaxBlocks = 4
  BlockSize = 2
INVARIANT LoadsTheModel
INVARIANT CacheHoldsReference
INVARIANT SampledIsReference
CHECK_DEADLOCK FALSE
