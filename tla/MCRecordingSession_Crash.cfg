SPECIFICATION Spec
CONSTANTS
  Recordings = {r1}
  Workers = {w1}
  Dispatchers = {api, hotkey}
  ApiThreads = {api}
  NoRec = NoRec
  MinFrames = 1
  MaxFrames = 1
  MaxCrashes = 1
  MaxTranscripts = 2
  MayCancel = TRUE
  MayShutdown = TRUE
  LiveRecovery = TRUE
  Faults = TRUE
CHECK_DEADLOCK FALSE
INVARIANTS
  AudioSurvives
  CompletionIsBacked
  SecondHasReason
PROPERTIES
  ImplementsDurableCapture
