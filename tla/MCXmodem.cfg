SPECIFICATION FairSpec
CONSTANTS
  File <- TwoBlocks
  Maxlens = {6, 5}
  MAX_INIT_RETRIES = 2
  MaxRetries = 2
  MaxDamage = 2
  MaxLost = 2
INVARIANTS
  StoredIsPrefix
  WithinBuffer
  HostNeverAhead
PROPERTIES
  ReceiverReturns
