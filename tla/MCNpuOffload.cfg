SPECIFICATION FairSpec
CONSTANTS
  MaxJobs = 3
  MaxBudget = 1
  Plan <- MCPlan
INVARIANTS
  DoneMeansFinished
  OperandsAreFresh
  CpuSeesNpuResult
PROPERTIES
  NoDirtyOutputWhileRunning
  EverySubmitReturns
