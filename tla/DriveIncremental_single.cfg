SPECIFICATION Spec
CONSTANTS
  f1 = f1
  f2 = f2
  w1 = w1
  w2 = w2
  Files = {f1, f2}
  Workers = {w1}
  PageSize = 2
  MaxChanges = 3
  MaxQueue = 1
  MaxFaults = 2
  MaxCrashes = 1
SYMMETRY Symmetry
INVARIANTS CursorCovered SettledIsCurrent
