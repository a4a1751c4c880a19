CONSTANTS
  a = a
  b = b
  Names <- MCName1
  MaxRegs = 6
  MaxVars = 5
  MaxUps = 2
  MaxCCalls = 12
  MaxStmts = 2
  MaxFrames = 6
  MaxNames = 1
  MaxExps = 1
  MaxTargets = 2
  FieldsPerFlush = 1
  Productions = {"local", "exprstat", "name", "field", "multi"}
SPECIFICATION Spec
INVARIANT TargetsKept
