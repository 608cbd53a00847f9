SPECIFICATION FairSpec
CONSTANTS
  N = 2
  MaxRounds = 3
  Ordered = TRUE
INVARIANTS
  EachTaskOnce
  JoinMeansRun
PROPERTIES
  EveryRoundEnds
