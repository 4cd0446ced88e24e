SPECIFICATION A3dSpec
CONSTANTS
  A3dThreads = {t1, t2}
  A3D_MAX_PORTS = 1
  A3D_MAX_ASSOC = 1
  A3D_MAX_OBJECTS = 1
  A3dDepth = 1
  A3dModes = {"ADVANCE_NO_PUSH"}
  A3dOpens = 2
  A3dGrains = 2
  ReuseClosing = TRUE
INVARIANT ClosingNotReused
CHECK_DEADLOCK FALSE
