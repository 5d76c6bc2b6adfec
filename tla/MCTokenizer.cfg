SPECIFICATION Spec
CONSTANTS
  Tokenizers <- MCTokenizers
  Texts <- MCTexts
INVARIANTS
  RoundTrip
  SkippingKeepsTheRest
  PretokenizerRules
  PassesMergeAsDefined
CHECK_DEADLOCK FALSE
