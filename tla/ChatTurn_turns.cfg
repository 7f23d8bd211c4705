SPECIFICATION ChatSpec
CONSTANTS
  t1 = t1 t2 = t2 t3 = t3 p1 = p1 p2 = p2 s1 = s1 d1 = d1 d2 = d2
  Turn = {t1, t2} Proc = {p1, p2} Session = {s1} Source = {d1}
  Null = Null MaxRounds = 2
  MaxOutages = 1 MaxErrors = 1 MaxCrashes = 1 MaxRuns = 2
CONSTRAINT Apart
INVARIANTS ConversationKept CitesReachable
PROPERTIES EveryTurnEnds
