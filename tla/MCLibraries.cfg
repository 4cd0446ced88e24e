SPECIFICATION Spec
CONSTANTS
  Foci = {"gnm_rings", "gnm_events", "gnm_packets", "ajm", "decode", "ajm_chunks", "video_out", "vblank",
          "audio_out", "audio_dump", "av_player", "audio3d", "h264", "vdecsw", "audiodec", "ngs2"}
  GnmQueues = {h1, h2}
  GNM_MAX_COMPUTE_QUEUES = 2
  RingSize = 3
  GnmPending = 2
  GnmEqs = {q1, q2}
  GnmIrqs = {1, 2}
  GNM_MAX_EQ_REGS = 3
  GnmDwords = 9
  AjmThreads = {t1, t2}
  AJM_CONTEXTS = 1
  AJM_INSTANCES = 1
  AJM_BATCHES = 2
  AjmCodecs = {k1}
  AjmJobs = 1
  AjmStarts = 3
  FrameSamples = 2
  SuperFrames = 2
  SuperBytes = 3
  DecTotals = {0, 2, 5}
  DecSkips = {0, 1, 3}
  DecInput = 6
  DecRoom = 4
  DecHeard = 6
  MAX_AJM_OUTPUT_BUFS = 2
  ChunkInstances = {1}
  ChunkBufs = 3
  ChunkWords = 10
  MAX_VIDEO_HANDLES = 1
  MAX_FRAME_BUFFERS = 2
  MAX_BUFFER_SETS = 1
  MAX_EQUEUES_PER_PORT = 1
  VoEqs = {q1}
  VoThreads = {t1}
  VoOpens = 2
  VoFlips = 2
  VoVblanks = 1
  VoLow = 2
  VoHalf = 4
  VoArgs <- FlipArgs
  CloseBusy = FALSE
  AudThreads = {t1, t2}
  MAX_AUDIO_PORTS = 3
  AudGrains = {1}
  AudSlack = 0
  AudPeriod = 1
  AudLives = 2
  AudFrames = 4
  ReopenBusy = FALSE
  DUMP_RING_FRAMES = 3
  DumpPeriods = {1, 2}
  DumpRate = 2
  DumpFrames = 7
  AvStreams = {"audio"}
  AvBuffers = {1, 2, 3}
  max_fb = 2
  AvPackets = 2
  AvPending = 0
  AvCalls = 2
  A3dThreads = {t1, t2}
  A3D_MAX_PORTS = 1
  A3D_MAX_ASSOC = 1
  A3D_MAX_OBJECTS = 1
  A3dDepth = 1
  A3dModes = {"ADVANCE_NO_PUSH"}
  A3dOpens = 2
  A3dGrains = 2
  ReuseClosing = FALSE
  H264Depths = {2}
  H264Steps = {1, 2}
  MaxPocLsb = 8
  MaxFrameNum = 2
  H264Pictures = 4
  H264Lost = 1
  VswThreads = {t1, t2}
  VDECSW_MAX_DECODERS = 1
  VswDepth = 1
  VDECSW_MAX_READY_PICTURES = 2
  VswCreates = 2
  VswUnits = 2
  VswOverlap = FALSE
  AdecThreads = {t1, t2}
  AUDIODEC_MAX_DECODERS = 1
  AdecGenerations = 4
  AUDIODEC_FRAME = 1
  AUDIODEC_MAX_CH = 2
  AdecRates = {1, 2}
  AdecCreates = 2
  AdecInputs <- Units
  NgsThreads = {t1, t2}
  NgsVoices = 1
  NgsGrains = {0, 2}
  MaxGrains = 2
  NgsCreates = 5
INVARIANTS HandOversExact StreamsExact
CHECK_DEADLOCK FALSE
