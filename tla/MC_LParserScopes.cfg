\* Upvalue chains with MAXVARS 3 and MAXUPVAL 2, the checklimit boundaries
\* with the Tight instance (two locals, one upvalue), and goto resolution
\* with the Goto instance (one name, one label, a main chunk and one nested
\* function; Refs is PartRefs, so that part references no variable).
CONSTANTS
  x = x
  y = y
  L = L
  ENV = ENV
  BREAK = BREAK
  NoName = NoName
  Names <- UpvalNames
  Refs <- PartRefs
  LabelNames = {}
  IfGotoFollows <- GotoIfFollows
  MAXVARS = 3
  MAXUPVAL = 2
  MaxStmts = 4
  MaxDepth = 3
  MaxFuncs = 3
SPECIFICATION ScopesSpec
SYMMETRY Symmetry
INVARIANT ScopesTypeOK
INVARIANT UpvaluesDenoteVisible
INVARIANT UpvalueUnique
INVARIANT CapturedBlocksMarked
INVARIANT GotoSound
INVARIANT GotoComplete
INVARIANT GotoCloses
