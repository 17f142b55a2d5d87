SPECIFICATION CarefulSpec
CONSTANTS
  n1 = n1
  n2 = n2
  c1 = c1
  c2 = c2
  Name = {n1, n2}
  Content = {c1, c2}
  MaxFile = 3
  MaxSessions = 2
  MaxRestarts = 0
  MaxFailures = 0
  MaxMoves = 2
  Active = {"main"}
  Habits = {}
SYMMETRY Symmetry
INVARIANTS
  TypeOK
  SavedWhenIdle
CHECK_DEADLOCK FALSE
