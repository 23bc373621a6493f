CONSTANTS
  None = None
  Broken = Broken
  Boards = {b}
  Callers = {c1, c2}
  Generations = {g1, g2}
  MaxVersion = 1
SPECIFICATION Spec
PROPERTIES
  RefusedOnlyWhileCollecting
SYMMETRY Interchangeable
