CONSTANTS
  Tables <- MCTables
  RangeArgs <- MCRangeArgs
  Gmatches <- MCGmatches
  Firsts1 = {"range"}
  Seconds = {"range"}
  Counts = {1}
  MaxStages = 3
  MaxOps = 4
SPECIFICATION Spec
PROPERTY AbsSpec
