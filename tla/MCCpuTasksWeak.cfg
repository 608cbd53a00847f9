SPECIFICATION FairSpec
CONSTANTS
  N = 1
  MaxRounds = 1
  Ordered = FALSE
PROPERTY
  AllCoresStart
