CONSTANTS
  Var <- Variables
  SUBST_TT = 9
  Formulas <- CnfFormulas
  Candidates <- CandidateClauses
  Images <- ReducedImages
  MaxLines = 4
  MaxImages = 2
SPECIFICATION Spec
INVARIANTS
  ReasonsOrdered
  AssumptionsUndone
  WatchesAttached
  HintsRefute
  PropagationComplete
