CONSTANTS
  p = p
  w = w
  h1 = h1
  h2 = h2
  t1 = t1
  t2 = t2
  None = None
  Agents = {p, w}
  Participants = {p}
  Home <- HomeAtH1
  Fractions = 2
  Tasks = {t1}
  Machines = {h1}
  TargetTypes = {}
  TargetIds = {}
  Leases = {l1, l2}
  Callers = {c1}
  AskedOps = {"block"}
  CanRun <- RunsAll
  Rank <- SameRank
  LeaseTicks = 3
  Lag = 1
  MaxNow = 6
SPECIFICATION FairSpec
PROPERTIES
  DeadlineWithinASecond
  StaleLeaseSettles
