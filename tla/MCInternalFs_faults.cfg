SPECIFICATION FairSpec
CONSTANTS
  n1 = n1
  n2 = n2
  c1 = c1
  c2 = c2
  Name = {n1, n2}
  Content = {c1}
  MaxFile = 2
  MaxSessions = 2
  MaxRestarts = 0
  MaxFailures = 1
  MaxMoves = 2
  Active = {"main"}
  Habits = {"crash"}
INVARIANTS
  OneHome
  VersionsOfOneSecret
PROPERTIES
  NeverLosesAFile
  AlwaysEnds
CHECK_DEADLOCK FALSE
