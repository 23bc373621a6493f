CONSTANTS
  p = p
  w = w
  h1 = h1
  h2 = h2
  t1 = t1
  t2 = t2
  None = None
  Agents = {p, w}
  Participants = {p}
  Home <- HomeAtH1
  Fractions = 2
  Tasks = {t1}
  Machines = {h1, h2}
  TargetTypes = {}
  TargetIds = {}
  Leases = {l1, l2}
  Callers = {c1, c2}
  AskedOps = {"review", "complete"}
  CanRun <- RunsAll
  Rank <- SameRank
  LeaseTicks = 1
  Lag = 0
  MaxNow = 2
SPECIFICATION Spec
INVARIANTS
  ClaimedIffLeased
  HolderIsAssignee
PROPERTIES
  LateWriteIsFenced
  ParticipantSettlesOwnClaim
SYMMETRY Interchangeable
CONSTRAINT NoDecay
