\* Command lines of up to four arguments (see MC_LuaMain); REPL sessions
\* of up to three lines and two SIGINTs.
CONSTANTS
  ArgShapes <- MCArgShapes
  EOS <- MCEOS
  MaxArgs = 4
  MaxLines = 3
  MaxSigs = 2
SPECIFICATION MainReplSpec
INVARIANT ArgsMatchUsage
INVARIANT ChunksFollowPlan
INVARIANT InterruptsHaveCause
