CONSTANTS
  Tables <- MCTables
  RangeArgs <- MCRangeArgs
  Gmatches <- MCGmatches
  Firsts1 = {"vals", "gmatch"}
  Seconds = {"vals"}
  Counts = {1, 2}
  MaxStages = 3
  MaxOps = 5
SPECIFICATION Spec
PROPERTY AbsSpec
