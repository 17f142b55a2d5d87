SPECIFICATION Spec
CONSTANTS
  n1 = n1
  n2 = n2
  c1 = c1
  c2 = c2
  Name = {n1, n2}
  Content = {c1}
  MaxFile = 3
  MaxSessions = 1
  MaxRestarts = 1
  MaxFailures = 0
  MaxMoves = 2
  Active = {"trash"}
  Habits = {"nest", "below", "overwrite", "span", "ghost"}
SYMMETRY Symmetry
INVARIANTS
  VersionsOfOneSecret
CHECK_DEADLOCK FALSE
