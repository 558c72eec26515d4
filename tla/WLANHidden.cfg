CONSTANTS
  a = a
  b = b
  MS = {a, b}
  AP = AP
  Hears <- Between
  Wired = Wired
  Broadcast = Broadcast
  None = None
  SIFS = 1
  SLOTTIME = 2
  DIFS = 5
  RXTXTURNAROUND = 1
  DATATIME = 4
  ACKTIME = 3
  CW_MIN = 1
  CWmax = 1
  retryLimit = 1
  maxQueueSize = 1
  Traffic <- ThreeWays
  MaxFrames <- OneEach
SPECIFICATION FairSpec
INVARIANTS NoAssertionFails MediumSensed InOrderOnce AckMeansReceived
CHECK_DEADLOCK FALSE
PROPERTY MediumQuiet
