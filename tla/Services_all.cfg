SPECIFICATION Spec
CONSTANTS
  None = None
  ada = ada bob = bob sam = sam
  x = x y = y w1 = w1 w2 = w2
  e1 = e1 e2 = e2 e3 = e3 page = page
  Native <- Staff First = ada Subject <- Sam Caller <- Two Feeder <- Pair MaxWork = 3
  Item <- Pair Worker <- Two PageSize = 1 MaxChanges = 3 MaxCrawls = 2
  Event <- All Who <- MCWho Private <- E1 Happened <- MCHappened Given <- MCGiven Window = 1
  Document = page Process <- Two
  Config <- MCConfig Default <- MCDefault CachePeriod = 1 MaxTime = 3
  Person <- Trio Relation <- MCRelation MaxMerges = 2
  Admin <- Pair Request <- Two MaxConsents = 3 MaxTimeouts = 1
  Tenant <- Pair Writer <- Two Reader <- Ada MaxVersion = 2 MaxRuns = 3
  MaxMoves = 1 MaxKeys = 4 MaxTokens = 2
  Address <- Pair Source <- MCSource Name <- Both MaxCalls = 3
  User <- Ada MaxPasses = 1 MaxRevokes = 2
  MaxFaults = 1 MaxLosses = 2
SYMMETRY Symmetry
INVARIANTS FeedApplied LinkCovered NotifiedIsIndexed IngestedOnce AnswerStands RelationsStand ConsentStands AnswerFits EngineOpens TokenReadable SameIdentity RevokedTurnedAway
PROPERTY AccountStands
CHECK_DEADLOCK FALSE
