SPECIFICATION Spec
CONSTANTS
  End = {"client", "server"}
  SeqMod = 16
  ISS <- MCISS
  MSS = 1
  RcvWnd = 3
  Algorithm = "Reno"
  Commands <- MCCommands
  MaxSynRexmit = 0
  MaxRexmit = 1
  Message <- MCMessage
  MaxBytes <- MCMaxBytes
  MaxInFlight <- MCMaxInFlight
INVARIANTS
  TypeOK
  StreamIsExact
  AckedWasDelivered
  DataIsTimed
CHECK_DEADLOCK FALSE
