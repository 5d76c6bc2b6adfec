SPECIFICATION Spec
CONSTANTS
  r1 = r1  r2 = r2  r3 = r3
  Request = {r1, r2, r3}
  Prompt <- MCPrompt
  MaxTokens <- MCMaxTokens
  MaxContext <- MCContext
  DefaultContext = 8
  MaxBlocks = 6
  BlockSize = 2
  MaxSequences = 2
  MaxRunning = 2
  MaxPending = 1
  TokenBudget = 6
  MaxSeqPrefill = 0
  NextToken <- MCNextToken
  EosToken = 40
  HasState = TRUE
  MaxStates = 2
  MaxConcurrent = 2
  Quitters = {r2}
  Stops = TRUE
  MaxFaults = 1
  MaxSeqId = 4
INVARIANTS
  ShutdownReleasesStates
CHECK_DEADLOCK FALSE
