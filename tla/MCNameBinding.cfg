CONSTANTS
  a = a
  b = b
  Names <- MCNames
  MaxRegs = 5
  MaxVars = 5
  MaxUps = 2
  MaxCCalls = 12
  MaxStmts = 2
  MaxFrames = 6
  MaxNames = 1
  MaxExps = 1
  MaxTargets = 1
  FieldsPerFlush = 1
  Productions = {"local", "block", "exprstat", "name", "for", "forlist"}
SPECIFICATION Spec
INVARIANT NameBinding
