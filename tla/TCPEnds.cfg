SPECIFICATION FairSpec
CONSTANTS
  End = {"client", "server"}
  SeqMod = 16
  ISS <- MCISS
  MSS = 1
  RcvWnd = 2
  Algorithm = "Reno"
  Commands <- MCAllCommands
  MaxSynRexmit = 1
  MaxRexmit = 1
  Message <- MCByte
  MaxBytes <- MCOneByte
  MaxInFlight <- MCOneInFlight
INVARIANT
  ErrorsOnlyAfterEarlyFin
PROPERTY NothingWaitsForEver
CHECK_DEADLOCK FALSE
