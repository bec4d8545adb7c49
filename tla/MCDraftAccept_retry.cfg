SPECIFICATION Spec
CONSTANTS
  Calls = {c1}
  Kinds = {"ordinary", "home"}
  MaxEdits = 0
  MaxBlocks = 2
  MaxRuns = 0
  MaxFailures = 1
  MaxCrashes = 0
INVARIANTS
  InsertsOnce
CHECK_DEADLOCK FALSE
