SPECIFICATION FairSpec
CONSTANTS
  n = n
  m = m
  Nbr = {n, m}
  LLAddr = {l1}
  numInterfaceGates = 2
  OnLink <- MCOnLink
  LinkOf <- MCLinkOf
  UINT_MAX = 99
  NoIface = NoIface
  None = None
  NoAddrAtStart = {1}
  MAX_MULTICAST_SOLICIT = 2
  MaxPackets = 2
  MaxAdverts = 1
INVARIANTS
  TypeOK
  QueueIsTimed
  ReachableIsSettled
  OneFate
PROPERTY QueueDrains
CHECK_DEADLOCK FALSE
