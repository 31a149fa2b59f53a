CONSTANTS
  Var <- Variables
  SUBST_TT = 9
  Proofs <- ParsedProofs
  MaxLines = 3
SPECIFICATION Spec
INVARIANTS
  ReasonsPrecede
  WatchesRestored
  PropagationReturns
  LastUseExact
  EmittedAccepted
  OnlyBadProofsRefused
PROPERTIES
  CoreFirst
  Termination
