CONSTANTS
  p = p
  w = w
  h1 = h1
  h2 = h2
  t1 = t1
  t2 = t2
  None = None
  Agents = {p, w}
  Participants = {p}
  Home <- HomeAtH1
  Fractions = 2
  Tasks = {t1}
  Machines = {h1}
  TargetTypes = {}
  TargetIds = {}
  Leases = {l1, l2}
  Callers = {c1}
  AskedOps = {"complete"}
  CanRun <- RunsAll
  Rank <- SameRank
  LeaseTicks = 2
  Lag = 0
  MaxNow = 3
SPECIFICATION Spec
PROPERTIES
  ExpiredLeaseCannotPass
SYMMETRY Interchangeable
