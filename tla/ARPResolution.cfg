SPECIFICATION FairSpec
CONSTANTS
  host = host
  router = router
  ah = ah
  ar = ar
  p = p
  x = x
  Host = {host, router}
  Addr = {ah, ar, p}
  None = None
  AddrOf <- MCAddrOf
  Local <- MCLocal
  Route <- MCRoute
  ProxyHost = {router}
  retryCount = 2
  MaxPackets <- MCMaxPackets
  MaxInFlight = 2
INVARIANTS
  TimerMatchesEntry
  RightMAC
  PacketsInOrder
PROPERTY ImplementsQueues
CHECK_DEADLOCK FALSE
