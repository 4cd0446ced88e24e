SPECIFICATION Spec
CONSTANTS
  Foci = {"trophy", "modules", "loaded_list", "app_content", "playgo", "paths", "directories", "clock", "exceptions",
          "selection", "capture", "manifest"}
  MAX_TROPHY_CONTEXTS = 2
  MAX_TROPHY_HANDLES = 1
  TrophyIds = {0, 2}
  MaxTrophies = 2
  TrophyCreates = 3
  ModThreads = {t1, t2}
  ModFiles = {"libc.prx", "a.prx", "a.sprx", "b.prx"}
  ModPreloaded = {"libc.prx"}
  ModStem <- StemOf
  ModRange <- RangeOf
  MainRange <- MainIs
  ModInits = 2
  MAX_PRX_MODULES = 2
  MAX_UNWIND_MODULES = 3
  MAX_LOADED_MODULES = 2
  SysIds <- IdRanges
  ORBIS_APP_CONTENT_INFO_LIST_MAX_SIZE = 3
  AppMounts = 4
  MAX_VFS_MOUNTS = 8
  AppDisks <- Disks
  PlaygoInits = 2
  PlaygoFiles <- ChunkFiles
  HostNames = {"a", "A", "b"}
  Folded <- CaseFolded
  PathDepth = 2
  DirThreads = {t1, t2}
  DirFds = {3, 4}
  HostDirs = {"d", "e"}
  DirNames = {"x", "y", "._x"}
  HiddenNames = {"._x"}
  GUEST_DIR_CACHE_SLOTS = 2
  DirOpens = 2
  DirChanges = 1
  RawClose = FALSE
  RtcStarts <- Starts
  RtcZones <- Zones
  RtcDays = 400
  RtcHours = {0, 23}
  HostZone = 0
  RtcWrap = 1193046
  ExDepth = 2
  ExRaises = 1
  RemoveBusy = FALSE
  SelTop = 6
  SelLists <- Selections
  SelCodes <- StageCodes
  SelPgm <- PgmOf
  SelReads <- ReadLists
  SelExact <- ExactLists
  SelMay <- MayLists
  SelPasses = 3
  kPage = 2
  CapMem = 8
  kMaxSnapshot = 4
  CapRegions <- HostRegions
  CapReads <- PassReads
  CapBuffers <- PassBuffers
  CapAccess <- PassAccesses
  CapSizes <- TextureSizes
  CapUnreadable = {"msaa"}
  CapUses <- PassTextures
  CapGuest = {2, 5}
  CapLimit = 4
  CapPasses = 2
  CapWrites = 1
  CapFails = 1
  DoubleExact = 4
  MfStrings <- ManifestStrings
  MfNonFinite = FALSE
  MfRegs = {0, 1}
  MfChanges = 1
INVARIANTS ServicesExact ContentExact
CHECK_DEADLOCK FALSE
