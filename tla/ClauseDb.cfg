CONSTANTS
  Elt = {a, b}
  MaxLits = 4
  MaxClauses = 4
  DELETION_GC_NUMER = 1
  DELETION_GC_DENOM = 2
SPECIFICATION Spec
INVARIANT OffsetsOrdered
PROPERTY Refinement
