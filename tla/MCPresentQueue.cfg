SPECIFICATION FairSpec
CONSTANTS
  N = 3
  Policies = {TRUE, FALSE}
  MaxFrames = 5
INVARIANTS TypeOK NeverAhead NoLostWakeup DrainedFirst
PROPERTIES ShownInOrder KeptIsPresented QueuedIsShown
CHECK_DEADLOCK FALSE
