SPECIFICATION Spec
CONSTANTS
  Home = Home
  Foreign = {a, b}
  None = None
  NonceSlots = 1
  Nonce = {0, 1}
  Cookie = {1, 2, 3}
  Patient = FALSE
  MaxSeq = 2
  MaxInFlight = 2
CONSTRAINT TestsOverlap
SYMMETRY Sym
INVARIANTS
  TokensSpent
  CareOfTested
  OptimisedFromCurrent
  AbortsAfterMishap
\* The program ends where the assertion of sendBU fails.
CHECK_DEADLOCK FALSE
