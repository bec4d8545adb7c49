SPECIFICATION FairSpec
CONSTANTS
  a = a
  b = b
  v1 = v1
  u1 = u1
  t1 = t1
  t2 = t2
  Hash = {a, b}
  Version = {}
  Unit = {}
  NoVersion = NoVersion
  NoUnit = NoUnit
  NoJob = NoJob
  Inputs <- TwoJobs
  Transcripts = {}
  Builds = {"new"}
  Ticks = {t1}
  Rank <- SameRank
  MaxAttempts = 1
  Backoffs = {1}
  Pacings = {1}
  Day = 2
  Outcomes <- Reached
  Allowance = 0
  Ceiling = 0
  Horizon = 2
  MaxCrashes = 1
  MaxSaves = 1
  MaxFailures = 0
PROPERTIES
  ExhaustedEnds
