SPECIFICATION Spec
CONSTANTS
  Rows = {r1, r2}
  Filed = {r1}
  Recordings = {a1}
  None = None
  MaxCrashes = 2
CHECK_DEADLOCK FALSE
INVARIANT CrashLosesNothing
