CONSTANTS
  Var = {1, 2}
  SUBST_TT = 9
  num_cnf_clauses = 2
  MaxId = 3
  GLOBAL_GEN = 100
  CNFs <- SRFormulas
  ProofLines <- SRProof
  ForwardHints = FALSE
  LateDeletions = FALSE
SPECIFICATION Spec
INVARIANTS
  WitnessCoversFormula
PROPERTIES
  Refinement
