CONSTANTS
  Tables <- MCTables
  RangeArgs <- MCRangeArgs
  Gmatches <- MCGmatches
  Firsts1 = {"vals"}
  Seconds = {"pairs"}
  Counts = {1}
  MaxStages = 3
  MaxOps = 4
SPECIFICATION Spec
PROPERTY AbsSpec
