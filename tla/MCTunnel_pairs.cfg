SPECIFICATION FairSpec
CONSTANTS
  k1 = k1
  k2 = k2
  k3 = k3
  Conn = {k1, k2, k3}
  MaxConn = 2
  MaxTries = 2
  Trouble = {"reset", "late", "cut"}
INVARIANTS
  LostOnlyByTrouble
  TwiceOnlyByTrouble
PROPERTIES
  ClosedForGood
  AllReleased
  OpenEnds
CHECK_DEADLOCK FALSE
