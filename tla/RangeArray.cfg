CONSTANTS
  Elt = {a, b}
  MaxData = 4
  MaxRanges = 3
SPECIFICATION Spec
INVARIANT
  RangesPartition
PROPERTY Refinement
