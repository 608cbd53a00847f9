SPECIFICATION FairSpec
CONSTANTS
  File <- FourBlocks
  Maxlens = {4}
  MAX_INIT_RETRIES = 2
  MaxRetries = 2
  MaxDamage = 1
  MaxLost = 0
INVARIANT
  SuccessIsComplete
