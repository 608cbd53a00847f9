SPECIFICATION FairSpec
CONSTANTS
  MaxJobs = 3
  MaxBudget = 1
  Plan <- MCPlan
INVARIANT
  DoneOutputIsNpuWritten
