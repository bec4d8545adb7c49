SPECIFICATION Spec
CONSTANTS
  o1 = o1
  o2 = o2
  o3 = o3
  o4 = o4
  o5 = o5
  c1 = c1
  c2 = c2
  Object = {o1, o2, o3, o4, o5}
  NoObject = NoObject
  Calls = {c1, c2}
  MaxAttempts = 3
  Alone = TRUE
  MaxRecords = 2
  MaxFailures = 3
  MaxRefusals = 0
  MaxCrashes = 0
INVARIANTS
  NeverDangling
