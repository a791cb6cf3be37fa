SPECIFICATION FairSpec
CONSTANTS
  Recordings = {r1, r2}
  Workers = {}
  Dispatchers = {api, hotkey}
  ApiThreads = {api}
  NoRec = NoRec
  MinFrames = 1
  MaxFrames = 1
  MaxCrashes = 0
  MaxTranscripts = 2
  MayCancel = FALSE
  MayShutdown = FALSE
  LiveRecovery = FALSE
  Faults = TRUE
CHECK_DEADLOCK FALSE
INVARIANTS
  CapturesAreSound
PROPERTIES
  StopEndsCapture
  CaptureSettles
