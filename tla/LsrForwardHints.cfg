CONSTANTS
  Var = {1, 2}
  SUBST_TT = 9
  num_cnf_clauses = 2
  MaxId = 4
  GLOBAL_GEN = 100
  CNFs <- Formulas
  ProofLines <- RATProof
  ForwardHints = TRUE
  LateDeletions = FALSE
SPECIFICATION Spec
INVARIANT VerdictSound
