\* Expressions of up to six tokens with two C levels to spare; constructors
\* of up to six fields flushed every two items (three flushes, a record
\* field between list items, a trailing call); assignments of up to three
\* targets over two locals and two upvalues (_ENV and one more).
CONSTANTS
  Tokens <- MCTokens
  MaxLen = 6
  LUAI_MAXCCALLS = 4
  BaseCalls = 1
  FieldKinds <- MCFieldKinds
  MaxFields = 6
  LFIELDS_PER_FLUSH = 2
  NACTVAR = 2
  NUPS = 2
  MaxTargets = 3
SPECIFICATION Spec
INVARIANT ExprMatchesGrammar
INVARIANT CLevelsExact
INVARIANT ArrayAsListed
INVARIANT PendingBounded
INVARIANT AssignMatchesManual
