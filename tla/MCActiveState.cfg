CONSTANTS
  None = None
  Broken = Broken
  Boards = {b}
  Callers = {c1}
  Generations = {g1, g2}
  MaxVersion = 1
SPECIFICATION FairSpec
INVARIANTS
  ShownIsKept
  OneCollector
  LateResultsDiscarded
PROPERTIES
  UnavailableMeansNothingKept
  PublishedInOrder
  CollectedIsShown
  WaitsEnd
