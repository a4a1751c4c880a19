CONSTANTS
  N = 7
  Vals = {1, 2, 3}
  Comps = {"lt", "any"}
SPECIFICATION FairSpec
INVARIANTS PartitionBounds SortedPermutation TypeOK
PROPERTIES SortCompletes
