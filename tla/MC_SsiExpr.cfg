\* The tokens of every expression of up to four characters against the
\* lexical syntax; size_t is scaled down to 8 bits.
CONSTANTS
  Chars <- MCChars
  MaxLen = 4
  MaxTokens = 5
  CgiEnv <- MCCgiEnv
  SsiVars <- MCSsiVars
  SIZE_BITS = 8
SPECIFICATION Spec
INVARIANT TokensMatchReference
