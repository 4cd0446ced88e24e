SPECIFICATION Spec
CONSTANTS
  Workers = {w1, w2}
  Objects = {f1, f2}
  Hosts = {h1, h2, h3}
  Lookers = {l1}
  None = None
  MaxSlots = 1
  Scenarios <- Sound
SYMMETRY Symmetry
INVARIANTS StackExclusive IdleNotCurrent LookupSafe RunningIsCurrent TcbNamesRunning
CHECK_DEADLOCK FALSE
