SPECIFICATION Spec
CONSTANTS
  End = {"client", "server"}
  SeqMod = 16
  ISS <- MCISS
  MSS = 1
  RcvWnd = 2
  Algorithm = "Reno"
  Commands <- MCAllCommands
  MaxSynRexmit = 1
  MaxRexmit = 1
  Message <- MCByte
  MaxBytes <- MCOneByte
  MaxInFlight <- MCOneInFlight
INVARIANT SegmentsFromQueue
CHECK_DEADLOCK FALSE
