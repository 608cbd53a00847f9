SPECIFICATION FairSpec
CONSTANTS
  Core = {c0, c1}
  IrqCore = {c0}
  MaxCalls = 2
  MaxIrqs = 1
  c0 = c0
  c1 = c1
INVARIANTS
  MutualExclusion
  HandlerNeverWaitsForMain
PROPERTIES
  EveryCallReturns
CHECK_DEADLOCK FALSE
