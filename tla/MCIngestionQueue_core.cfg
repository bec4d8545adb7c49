SPECIFICATION Spec
CONSTANTS
  a = a
  b = b
  v1 = v1
  u1 = u1
  t1 = t1
  t2 = t2
  Hash = {a, b}
  Version = {v1}
  Unit = {u1}
  NoVersion = NoVersion
  NoUnit = NoUnit
  NoJob = NoJob
  Inputs <- Mixed
  Transcripts = {}
  Builds = {"new"}
  Ticks = {t1, t2}
  Rank <- SameRank
  MaxAttempts = 1
  Backoffs = {1}
  Pacings = {1}
  Day = 2
  Outcomes <- Failing
  Allowance = 0
  Ceiling = 0
  Horizon = 1
  MaxCrashes = 1
  MaxSaves = 1
  MaxFailures = 1
INVARIANTS
  TypeOK
  UniqueIdentity
  OneTickPerJob
  InFlightIsHeld
  CallsAreCounted
PROPERTIES
  DoneNeverRunsAgain
