SPECIFICATION FairSpec
CONSTANTS
  Home = Home
  Foreign = {a, b}
  None = None
  NonceSlots = 1
  Nonce = {0, 1}
  Cookie = {1, 2}
  Patient = TRUE
  MaxSeq = 2
  MaxInFlight = 1
PROPERTIES
  ProcedureEnds
\* The program ends where the assertion of sendBU fails.
CHECK_DEADLOCK FALSE
