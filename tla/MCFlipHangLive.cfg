SPECIFICATION FairSpec
CONSTANTS
  N = 1
  Policies = {FALSE}
  H = 2
  HoldDepths = {1}
  MaxFlips = 2
  FaultSets = {{"hang"}}
PROPERTIES FlipsComplete
CHECK_DEADLOCK FALSE
