SPECIFICATION FairSpec
CONSTANTS
  f1 = f1
  f2 = f2
  w1 = w1
  w2 = w2
  Files = {f1, f2}
  Workers = {w1, w2}
  PageSize = 1
  MaxChanges = 2
  MaxQueue = 1
  MaxFaults = 1
  MaxCrashes = 0
PROPERTY CatchesUp
