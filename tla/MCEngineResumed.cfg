SPECIFICATION Spec
CONSTANTS
  r1 = r1  r2 = r2  r3 = r3
  Request = {r1, r2, r3}
  Prompt <- MCPromptThree
  MaxTokens <- MCMaxTokensThree
  MaxContext <- MCDefaultContext
  DefaultContext = 5
  MaxBlocks = 3
  BlockSize = 2
  MaxSequences = 2
  MaxRunning = 2
  MaxPending = 3
  TokenBudget = 6
  MaxSeqPrefill = 0
  NextToken <- MCNextToken
  EosToken = 999
  HasState = FALSE
  MaxStates = 2
  MaxConcurrent = 2
  Quitters = {r2}
  Stops = TRUE
  MaxFaults = 0
  MaxSeqId = 8
INVARIANTS
  BindsSampledToken
CHECK_DEADLOCK FALSE
