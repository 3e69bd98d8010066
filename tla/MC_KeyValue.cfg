\* Up to two rules, so that a rule can be decided by the one before it
\* (nomatch) and the realloc at used = 0 is taken; replacement patterns of
\* up to five symbols; byte strings of up to four bytes for the
\* normalisation.
CONSTANTS
  Symbols <- MCSymbols
  MaxLen = 5
  MaxRules = 2
  NGroups = 1
  CondCount = 2
  Bytes <- MCBytes
  MaxBytes = 4
SPECIFICATION Spec
INVARIANT TypeOK
INVARIANT RewriteAsDocumented
INVARIANT NormalizeAsDocumented
