SPECIFICATION Spec
CONSTANTS
  N = 1
  Policies = {FALSE}
  H = 2
  HoldDepths = {1}
  MaxFlips = 3
  FaultSets = {{"texture"}, {"fail", "cpu"}, {"hang"}}
INVARIANTS CompletedOnce TextureReuse NoLostWakeup TimeoutCovers DrawableLentOnce
PROPERTIES ScreenInOrder
CHECK_DEADLOCK FALSE
