CONSTANTS
  Var = {1, 2}
  SUBST_TT = 9
  num_cnf_clauses = 2
  MaxId = 4
  GLOBAL_GEN = 100
  CNFs <- TautologicalFormulas
  ProofLines <- RATProof
  ForwardHints = FALSE
  LateDeletions = FALSE
SPECIFICATION Spec
INVARIANTS
  TypeOK
  OccurrencesExact
  IntervalsCover
  AssignmentEntailed
  GenerationsSuffice
  VerdictSound
PROPERTIES
  FallThroughFails
