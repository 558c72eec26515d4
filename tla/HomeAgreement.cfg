SPECIFICATION Spec
CONSTANTS
  Home = Home
  Foreign = {r1, r2}
  None = None
  MaxBindAckTimeout = 2
  Lifetime = 6
  SeqModulus = 65536
  DadDone = {TRUE, FALSE}
  Prompt = FALSE
  Dwell = TRUE
  MaxSeq = 3
  MaxInFlight = 3
SYMMETRY Sym
INVARIANTS
  RetransmissionCurrent
  TunnelForBinding
  HomeIsHome
  ReverseTunnelReady
  AckedAgreement
