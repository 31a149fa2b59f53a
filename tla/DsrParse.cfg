CONSTANTS
  CnfClauses <- FormulaWithTautology
  AddLines <- ProofWithTautology
  DelClauses <- DeletedWithTautology
  MinCnf = 1
  MaxCnf = 3
  MaxLines = 5
  WITNESS_TERM = 99
SPECIFICATION Spec
INVARIANTS
  MultiplicityExact
  FormulaOfProof
  DeletionsExact
  RefusalsJustified
  WitnessKept
  SizesExact
