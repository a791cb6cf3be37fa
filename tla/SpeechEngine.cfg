SPECIFICATION FairSpec
CONSTANTS
  Runs = {"import", "again"}
  Configs <- MCConfigs
  MaxRetries = 1
  MaxChanges = 1
  MaxRestarts = 1
  NoEngine = NoEngine
  NoConfig = NoConfig
CHECK_DEADLOCK FALSE
INVARIANTS
  ProvenanceIsTrue
  ShownIsTrue
PROPERTIES
  RunsEnd
