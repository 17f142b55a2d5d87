SPECIFICATION SyncSpec
CONSTANTS
  n1 = n1
  n2 = n2
  c1 = c1
  c2 = c2
  c3 = c3
  Name = {n1}
  Content = {c1, c2}
  MaxFile = 3
  MaxSessions = 4
  MaxRestarts = 0
  MaxMoves = 2
  MaxFailures = 0
  MaxSwitches = 1
  MaxPulls = 2
  Active = {"main"}
  Habits = {}
SYMMETRY Symmetry
INVARIANTS
  VersionsOfOneSecret
  LostOnlyFromTrash
CONSTRAINT FewMovesOfManyFiles
CHECK_DEADLOCK FALSE
