SPECIFICATION LiveSpec
CONSTANTS
  Workers = {w1, w2}
  Objects = {f1, f2}
  Hosts = {h1, h2}
  Lookers = {}
  None = None
  MaxSlots = 1
  Scenarios <- Sound
  ThreadObjs = {o1, o2}
  MainThread = m0
  NoObj = NoObj
PROPERTIES HandedOver SuspendedBecomesIdle JoinReturns
CHECK_DEADLOCK FALSE
