CONSTANTS
  Var <- Variables
  SUBST_TT = 9
  Proofs <- ParsedProofs
  MaxLines = 1
SPECIFICATION Spec
INVARIANT VerdictSound
