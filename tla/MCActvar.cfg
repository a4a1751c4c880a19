CONSTANTS
  a = a
  b = b
  Names <- MCName1
  MaxRegs = 6
  MaxVars = 2
  MaxUps = 2
  MaxCCalls = 12
  MaxStmts = 2
  MaxFrames = 6
  MaxNames = 1
  MaxExps = 4
  MaxTargets = 1
  FieldsPerFlush = 1
  Productions = {"local", "block"}
SPECIFICATION Spec
INVARIANT ActvarInBounds
