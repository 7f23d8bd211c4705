SPECIFICATION FairSpec
CONSTANTS
  u1 = u1
  t1 = t1
  t2 = t2
  r1 = r1
  r2 = r2
  None = None
  User = {u1}
  Tab = {t1, t2}
  Request = {r1, r2}
  MaxGrants = 2
  MaxRevokes = 1
  MaxFaults = 1
CHECK_DEADLOCK FALSE
INVARIANTS RotationRetires
PROPERTIES NeverMintsAgain DeadSessionEnds
