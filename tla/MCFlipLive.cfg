SPECIFICATION FairSpec
CONSTANTS
  N = 1
  Policies = {FALSE}
  H = 2
  HoldDepths = {1}
  MaxFlips = 3
  FaultSets = {{}}
PROPERTIES FlipsComplete
CHECK_DEADLOCK FALSE
