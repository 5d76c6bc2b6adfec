SPECIFICATION Spec
CONSTANTS
  Tokenizers <- MCTokenizers
  Texts <- MCTexts
INVARIANT RulesToTheLetter
CHECK_DEADLOCK FALSE
