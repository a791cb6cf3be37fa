SPECIFICATION LiveSpec
CONSTANTS
  Block = 5
  ChunkFrames = 3
  MaxHeard = 15
  CrashKinds = {"kill", "power"}
  MaxCrashes = 3
  MaxFaults = 1
  LiveLoad = TRUE
  Transcripts = {t1, t2}
  Fresh = {t1}
  Jobs = {j1}
  Nobody = Nobody
  MaxBulks = 1
  MaxOutages = 1
  Generators = {g1, g2}
  MaxVersion = 2
  NoText = NoText
  Rows = {r1, r2}
  Filed = {r1}
  Recordings = {a1}
  None = None
  MaxDeaths = 2
  Keyboards = {k1}
  Modifiers = {ctrl}
  Plain = {space}
  MaxQueue = 1
  MaxPlugs = 2
  MaxRequests = 0
  NoEvent = NoEvent
  Words = {1, 200, 2000}
  Visible = {60, 300}
  Ceilings = {0, 500, 4000}
  Limits = {100, 700, 8192}
  Needs = {50, 400, 900, 3000, 6000}
  MaxRetries = 2
  MaxSignals = 2
CHECK_DEADLOCK FALSE
INVARIANTS
  ChunksAreGapless
  FsyncedChunksSurvive
  LossIsBounded
  RowsDescribeVault
  RefinementAgrees
  UpgradeIsWhole
PROPERTIES
  InterruptedIsRecovered
  BulkEnds
  TextReachesClipboard
  InsightCatchesUp
  PluggedIsHeard
  OpensInTheEnd
  CallsStayInBudget
  EndsWhenAsked
