SPECIFICATION Spec
CONSTANTS
  Recordings = {r1, r2}
  Workers = {w1}
  Dispatchers = {api}
  ApiThreads = {api}
  NoRec = NoRec
  MinFrames = 1
  MaxFrames = 1
  MaxCrashes = 0
  MaxTranscripts = 2
  MayCancel = TRUE
  MayShutdown = FALSE
  LiveRecovery = FALSE
  Faults = FALSE
CHECK_DEADLOCK FALSE
PROPERTIES
  CancelledIsNotTranscribed
