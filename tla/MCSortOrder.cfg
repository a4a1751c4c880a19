CONSTANTS
  N = 5
  Vals = {1, 2}
  Comps = {"any"}
SPECIFICATION Spec
INVARIANT StaysInArray
