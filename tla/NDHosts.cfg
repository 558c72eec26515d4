SPECIFICATION FairSpec
CONSTANTS
  h1 = h1
  h2 = h2
  h3 = h3
  k1 = k1
  k2 = k2
  Host = {h1, h2, h3}
  Token = {k1, k2}
  TokenOf <- MCTokenOf
  Manual <- MCManual
  LinkLocal = LinkLocal
  Global = Global
  dupAddrDetectTrans = 2
  MAX_RTR_SOLICITATIONS = 2
INVARIANTS
  TypeOK
  UniqueAddress
  GroupsMatch
  HeardMeansQuiet
PROPERTY DetectionEnds
CHECK_DEADLOCK FALSE
