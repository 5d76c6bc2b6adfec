SPECIFICATION FairSpec
CONSTANTS
  Requests <- MCRequests
  Docs <- MCDocs
  kMaxHeaderSize = 12
INVARIANTS
  AnswerIgnoresReads
  SubmittedIsServable
PROPERTY RequestIsAnswered
CHECK_DEADLOCK FALSE
