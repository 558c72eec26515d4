SPECIFICATION FairSpec
CONSTANTS
  Home = Home
  Foreign = {r1, r2}
  None = None
  MaxBindAckTimeout = 2
  Lifetime = 6
  SeqModulus = 65536
  DadDone = {TRUE, FALSE}
  Prompt = TRUE
  Dwell = FALSE
  MaxSeq = 2
  MaxInFlight = 2
PROPERTIES
  OutstandingResolved
  ReturnConverges
INVARIANT NoAbort
