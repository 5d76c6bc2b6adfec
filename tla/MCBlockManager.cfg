SPECIFICATION Spec
CONSTANTS
  MaxBlocks = 3
  BlockSize = 2
  Owner = {s1, s2}
  Prompts <- MCPrompts
  Token = {1, 2}
  MaxTable = 2
INVARIANTS
  OwnershipInv
  IndexConsistent
  HitsStayCached
PROPERTY ImplementsOwnership
