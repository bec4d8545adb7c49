SPECIFICATION FairSpec
CONSTANTS
  a = a
  b = b
  v1 = v1
  u1 = u1
  t1 = t1
  t2 = t2
  Hash = {a, b}
  Version = {}
  Unit = {u1}
  NoVersion = NoVersion
  NoUnit = NoUnit
  NoJob = NoJob
  Inputs <- Revisions
  Transcripts = {b}
  Builds = {"old", "new"}
  Ticks = {t1, t2}
  Rank <- SecondFirst
  MaxAttempts = 1
  Backoffs = {1}
  Pacings = {1}
  Day = 2
  Outcomes <- Reached
  Allowance = 2
  Ceiling = 1
  Horizon = 3
  MaxCrashes = 1
  MaxSaves = 1
  MaxFailures = 0
INVARIANTS
  NoneWaitsInVain
  EveryCallIsCharged
PROPERTIES
  
  ImplementsWorkQueue
