CONSTANTS
  a = a
  b = b
  Names <- MCName1
  MaxRegs = 6
  MaxVars = 6
  MaxUps = 2
  MaxCCalls = 12
  MaxStmts = 4
  MaxFrames = 7
  MaxNames = 1
  MaxExps = 1
  MaxTargets = 1
  FieldsPerFlush = 1
  Productions = {"for", "block", "local", "exprstat", "name", "func"}
SPECIFICATION Spec
INVARIANT BreakableUncaptured
