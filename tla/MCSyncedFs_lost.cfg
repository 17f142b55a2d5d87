SPECIFICATION SyncSpec
CONSTANTS
  n1 = n1
  n2 = n2
  c1 = c1
  c2 = c2
  c3 = c3
  Name = {n1}
  Content = {c1, c2, c3}
  MaxFile = 4
  MaxSessions = 4
  MaxRestarts = 3
  MaxMoves = 0
  MaxFailures = 0
  MaxSwitches = 3
  MaxPulls = 4
  Active = {"main"}
  Habits = {}
INVARIANTS
  NothingLost
CHECK_DEADLOCK FALSE
CONSTRAINT
  OneAtATime
