SPECIFICATION Spec
CONSTANTS
  m1 = m1 m2 = m2 m3 = m3 m4 = m4 w1 = w1 w2 = w2
  Msg = {m1, m2, m3, m4} Crawler = {w1} Notifier = {w2}
  Present <- MCPresent
  PageSize = 2 HistoryMax = 1 PullMax = 1
  MaxEvents = 4 MaxCrawls = 1 MaxFaults = 1 MaxTerms = 1
INVARIANTS CursorCovered AcknowledgedIsIndexed
CHECK_DEADLOCK FALSE
SYMMETRY MCSymmetry
