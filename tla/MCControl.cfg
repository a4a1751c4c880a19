CONSTANTS
  a = a
  b = b
  Names <- MCName1
  MaxRegs = 5
  MaxVars = 5
  MaxUps = 2
  MaxCCalls = 12
  MaxStmts = 2
  MaxFrames = 6
  MaxNames = 1
  MaxExps = 1
  MaxTargets = 2
  FieldsPerFlush = 1
  Productions = {"for", "forlist", "return", "break", "exprstat", "name", "func", "local", "while", "multi"}
SPECIFICATION Spec
INVARIANTS RegisterOrder
