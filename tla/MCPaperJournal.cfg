SPECIFICATION Spec
CONSTANTS
  flat = flat
  short = short
  None = None
  Composers = {here}
  Material = {m1, m2}
  Settings = {plain}
  Shape = {flat, short}
  Flat = {flat}
  Slot = {1, 2}
  Plan <- MCPlan
  Needs <- MCNeeds
  Task <- MCTask
  Version = {v1, v2}
  Retries = 1
  MaxJournals = 2
  MaxChanges = 2
  MaxFailures = 1
  MaxCrashes = 1
INVARIANTS
  TypeOK
  OnePaperPerJournal
  PaperIsWhole
  WrittenOnce
PROPERTIES
  ReadingDiscardsNothing
  RequestEnds
CHECK_DEADLOCK FALSE
