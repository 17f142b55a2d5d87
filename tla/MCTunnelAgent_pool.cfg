SPECIFICATION FairSpec
CONSTANTS
  s1 = s1
  s2 = s2
  s3 = s3
  r1 = r1
  r2 = r2
  u1 = u1
  Socket = {s1, s2, s3}
  Request = {r1, r2, u1}
  Upgrade = {u1}
  MaxTcpSockets = 2
  NoSocket = NoSocket
INVARIANTS
  TypeOK
  Counted
  GraceWhenOffline
  OneUse
  QueueKept
PROPERTIES
  OfflineEnds
CHECK_DEADLOCK FALSE
