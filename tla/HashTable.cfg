CONSTANTS
  Hash = {1, 2, 3, 5}
  Data = {a, b}
  LOAD_FACTOR = 1
  InitBuckets = {1, 2}
  MaxEntries = 5
SPECIFICATION Spec
INVARIANTS
  LookupComplete
  LoadBounded
PROPERTY Refinement
