SPECIFICATION FairSpec
CONSTANTS
  Core = {c0, c1}
  IrqCore = {c0}
  MaxCalls = 1
  MaxIrqs = 0
  c0 = c0
  c1 = c1
PROPERTY InterruptStateRestored
CHECK_DEADLOCK FALSE
