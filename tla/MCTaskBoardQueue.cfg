CONSTANTS
  p = p
  w = w
  h1 = h1
  h2 = h2
  t1 = t1
  t2 = t2
  None = None
  Agents = {p, w}
  Participants = {p}
  Home <- HomeAtH1
  Fractions = 2
  Tasks = {t1, t2}
  Machines = {h1}
  TargetTypes = {}
  TargetIds = {}
  Leases = {l1, l2, l3}
  Callers = {c1}
  AskedOps = {"fail"}
  CanRun <- RunsAll
  Rank <- FirstIsUrgent
  LeaseTicks = 1
  Lag = 1
  MaxNow = 2
SPECIFICATION Spec
INVARIANTS
  OneActiveLease
PROPERTIES
  OwnershipSpec
SYMMETRY Interchangeable
CONSTRAINT NoDecay
