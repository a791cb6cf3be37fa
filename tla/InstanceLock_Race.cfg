SPECIFICATION Spec
CONSTANTS
  Processes = {p1, p2, p3}
  MaxFiles = 2
CHECK_DEADLOCK FALSE
INVARIANTS
  OnlyOne
