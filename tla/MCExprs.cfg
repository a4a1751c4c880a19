CONSTANTS
  a = a
  b = b
  Names <- MCName1
  MaxRegs = 4
  MaxVars = 4
  MaxUps = 2
  MaxCCalls = 12
  MaxStmts = 2
  MaxFrames = 5
  MaxNames = 1
  MaxExps = 2
  MaxTargets = 1
  FieldsPerFlush = 1
  Productions = {"local", "exprstat", "name", "block", "binop", "call", "field", "unop", "vararg", "nil", "cons", "index", "method"}
SPECIFICATION Spec
INVARIANTS RegisterOrder ListItemsInPlace
