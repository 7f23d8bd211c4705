SPECIFICATION RetrievalSpec
CONSTANTS
  d1 = d1 d2 = d2 d3 = d3
  Doc = {d1, d2, d3}
  Gone = Gone
  Size = 1
  MaxChanges = 1
  MaxFaults = 1
SYMMETRY Symmetry
CONSTRAINT Trouble
INVARIANTS PageIsExact OpenedIsVisible
