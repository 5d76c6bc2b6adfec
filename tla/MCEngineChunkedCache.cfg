SPECIFICATION Spec
CONSTANTS
  r1 = r1  r2 = r2  r3 = r3
  Request = {r1, r2}
  Prompt <- MCPromptPoisoned
  MaxTokens <- MCMaxTokensChunked
  MaxContext <- MCDefaultContext
  DefaultContext = 8
  MaxBlocks = 6
  BlockSize = 2
  MaxSequences = 2
  MaxRunning = 2
  MaxPending = 2
  TokenBudget = 6
  MaxSeqPrefill = 2
  NextToken <- MCNextToken
  EosToken = 40
  HasState = FALSE
  MaxStates = 2
  MaxConcurrent = 2
  Quitters = {r2}
  Stops = TRUE
  MaxFaults = 0
  MaxSeqId = 3
INVARIANTS
  GreedyOutput
CHECK_DEADLOCK FALSE
