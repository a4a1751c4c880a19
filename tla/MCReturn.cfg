CONSTANTS
  a = a
  b = b
  Names <- MCName1
  MaxRegs = 5
  MaxVars = 5
  MaxUps = 2
  MaxCCalls = 12
  MaxStmts = 2
  MaxFrames = 6
  MaxNames = 1
  MaxExps = 2
  MaxTargets = 1
  FieldsPerFlush = 1
  Productions = {"local", "return"}
SPECIFICATION Spec
INVARIANT ReturnsOwnValues
