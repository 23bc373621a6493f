CONSTANTS
  dir = dir
  file = file
  other = other
  j1 = j1
  j2 = j2
  p1 = p1
  p2 = p2
  a1 = a1
  None = None
  MaxRuns = 2
  MaxMishaps = 1
  Pids = {p1, p2}
  Jobs = {j1, j2}
  Paths <- AllPaths
  Under <- Inside
  Asked <- TwoJobs
  Timeouts <- NoTimeouts
  Answers = {a1}
  StartTimes = TRUE
SPECIFICATION Spec
INVARIANT WorkersDisjoint
