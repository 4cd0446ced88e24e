SPECIFICATION DirSpec
CONSTANTS
  DirThreads = {t1}
  DirFds = {3}
  HostDirs = {"d"}
  DirNames = {"x", "y", "._x"}
  HiddenNames = {"._x"}
  GUEST_DIR_CACHE_SLOTS = 2
  DirOpens = 1
  DirChanges = 0
  RawClose = FALSE
INVARIANT EnumerationEnds
CHECK_DEADLOCK FALSE
