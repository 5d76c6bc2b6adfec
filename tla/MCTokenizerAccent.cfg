SPECIFICATION Spec
CONSTANTS
  Tokenizers <- AccentTokenizers
  Texts <- AccentTexts
INVARIANT SpecialTokensPreserved
CHECK_DEADLOCK FALSE
