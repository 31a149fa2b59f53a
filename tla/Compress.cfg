CONSTANTS
  D = D
  G = G
  NewLine = NewLine
  PayloadBits = 2
  IntBits = 6
  LongBits = 9
  TextFiles <- Texts
  MaxOutput = 40
SPECIFICATION Spec
INVARIANT RoundTrip
PROPERTIES
  CutKeepsWholeLines
  Termination
