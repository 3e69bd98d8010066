CONSTANTS
  ArgShapes <- MCArgShapes
  EOS <- MCEOS
  MaxArgs = 1
INIT Init
NEXT Next
INVARIANT SuccessMeansNoError
