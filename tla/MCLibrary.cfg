SPECIFICATION BothSpec
CONSTANTS
  MaxId = 3
  Seeded = {1}
  UserTags = {"user"}
  MaxClock = 1
  MaxStamp = 4
  MaxCrashes = 1
  MaxPending = 1
  NoId = NoId
  Runtimes = {a, b}
  Refiners = {f1}
  Generators = {g1}
  NoRuntime = NoRuntime
  NoOne = NoOne
  LockTimeouts = TRUE
  EarlyRequests = TRUE
CHECK_DEADLOCK FALSE
INVARIANTS
  CompoundsAreFlat
  
  AckedIsDurable
  LibraryAgrees
  InferenceHasEngine
  ReadyMeansLoaded
PROPERTIES
  ImplementsCompounds
  RequestsEnd
  RestartEnds
