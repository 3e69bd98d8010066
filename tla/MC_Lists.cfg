CONSTANTS
  h1 = h1
  h2 = h2
  e1 = e1
  e2 = e2
  e3 = e3
  NULL = NULL
SPECIFICATION ListsSpec
INVARIANT KListWellFormed
INVARIANT KSListWellFormed
INVARIANT SafeIteration
PROPERTY KListRefinement
PROPERTY KSListRefinement
PROPERTY LoopTerminates
