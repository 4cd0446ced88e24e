SPECIFICATION Spec
CONSTANTS
  Foci = {"threads", "posix_sem", "kernel_sema", "event_flag", "equeue", "aio", "memory", "blocks", "sync_objects", "once", "pending_writes", "windows", "textures", "saves", "save_memory", "paks"}
  ThreadObjs = {o1, o2}
  MainThread = m0
  NoObj = NoObj
  SemThreads = {t1, t2, t3}
  SemSlots = {1}
  SemLives = 2
  SemMax = 2
  KsemThreads = {t1, t2}
  KsemSlots = {1}
  KsemLives = 2
  KsemMax = 2
  EvfThreads = {t1, t2}
  EvfSlots = {1}
  EvfBits = {1}
  EvfLives = 2
  EqThreads = {t1, t2}
  EqSlots = {0}
  EqEvents = {e1, e2}
  EQUEUE_CAPACITY = 3
  EqMaxId = 2
  AioThreads = {t1, t2}
  AIO_MAX_QUEUES = 3
  AioBatch = 2
  AioSubmits = 3
  VmPages = 3
  VmLow = 2
  VmAligns = {1, 2}
  VmLengths = {1, 3}
  VmThreads = {t1}
  MapWhileFreed = FALSE
  DmMax = 4
  DmDefault = 3
  DmTotals = {2, 4}
  DmAliases = 0
  DmSearches <- Searches
  ObjThreads = {t1, t2}
  MutexVars = {v1, v2}
  NodeVars = {w1}
  SYNC_OBJ_SLOTS = 3
  ObjMutexes = 3
  OnceThreads = {t1, t2, t3}
  NoHolder = NoHolder
  PwRanges <- Ranges
  PwEpochs = 4
  kBucketSize = 1
  kWideBuckets = 2
  kIdleFactor = 1
  kKeepIdle = 0
  GmBuffers <- Windows
  GmWindows = 2
  GmTextures = {1, 2, 3}
  GmDevice = {0, 3}
  gm_budget = 2
  tex_budget = 2
  tex_low = 1
  press_age = 1
  keep_age = 1
  idle_age = 2
  gm_futile = 2
  GmTicks = 3
  SaveDirs = {d1, d2}
  SaveValues = {x1}
  SaveUsers = {u1, u2}
  SD_MAX_MOUNTS = 2
  SaveMounts = 3
  SaveCrashes = 1
  MAX_VFS_MOUNTS = 3
  PakNames = {1, 2, 3, 4}
  PakHash <- Hash
  PakParent <- Parent
  PakIndex <- Index
  PakSize = 2
  PAK_CAPACITY = 2
  MAX_VIRTUAL_FILES = 2
  PakReads = 2
INVARIANTS ThreadMemorySafe WaitersServed RecordsExact MemoryExact StorageKept
PROPERTIES UnmappedChangeNoted EvictsLeastRecent
CHECK_DEADLOCK FALSE
