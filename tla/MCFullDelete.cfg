SPECIFICATION Spec
CONSTANTS
  Cache = {cached}
  Records = {record}
  Drafts = {draft}
  Logs = {entry}
  Setting = {off, on}
  MaxInstances = 3
  MaxPending = 2
  MaxDeletes = 1
  MaxFailures = 1
INVARIANTS
  TypeOK
  NothingComesBack
  RunsUnsealed
PROPERTIES
  IdKeptWhileFilesRemain
  SavesMerge
  DeleteEnds
CHECK_DEADLOCK FALSE
