CONSTANTS
  Var = {1, 2, 3}
  SUBST_TT = 9
  MaxTrue = 1
  MaxPairs = 2
SPECIFICATION Spec
INVARIANTS
  MinimizationSound
  PrintedAsChecked
