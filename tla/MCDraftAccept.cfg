SPECIFICATION Spec
CONSTANTS
  Calls = {c1}
  Kinds = {"ordinary", "home"}
  MaxEdits = 1
  MaxBlocks = 2
  MaxRuns = 3
  MaxFailures = 3
  MaxCrashes = 1
INVARIANTS
  TypeOK
  
  
  
CHECK_DEADLOCK FALSE
