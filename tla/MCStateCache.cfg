SPECIFICATION Spec
CONSTANTS
  Sequence = {q1, q2, q3}
  Token = {1, 2}
  MaxActive = 2
  MaxSnapshots = 2
  FrontierDepth = 1
  MaxLen = 2
  Torn = Torn
INVARIANTS
  StatesAccounted
  SnapshotsHoldTheirPrefix
PROPERTY StatesAreIsolated
