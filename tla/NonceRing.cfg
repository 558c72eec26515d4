SPECIFICATION Spec
CONSTANTS
  NonceSlots = 8
  nonceGenerationPeriod = 30
  MAX_TOKEN_LIFETIME = 210
  MAX_NONCE_LIFETIME = 240
  None = None
  MaxTime = 600
INVARIANTS
  TokenIsGood
  TokenIsSpent
CHECK_DEADLOCK FALSE
