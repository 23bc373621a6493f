CONSTANTS
  dir = dir
  file = file
  other = other
  j1 = j1
  j2 = j2
  p1 = p1
  p2 = p2
  None = None
  MaxRuns = 3
  MaxMishaps = 1
  Pids = {p1, p2}
  Jobs = {j1, j2}
  Paths <- AllPaths
  Under <- Inside
  Asked <- OneJob
  Timeouts <- NoTimeouts
  a1 = a1
  Answers = {a1}
  StartTimes = TRUE
SPECIFICATION FairSpec
INVARIANTS
  LiveRunsDisjoint
  LiveRunsRegistered
  
  SpentCyclesStay
  
PROPERTIES
  StaleRecordsGo
