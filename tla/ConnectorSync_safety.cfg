SPECIFICATION Spec
CONSTANTS
    NPages = 2
    Workers = {w1, w2}
    MaxRequests = 2
    MaxDisconnects = 1
    MaxFaults = 1
    MaxRedis = 2
    MaxCrashes = 1
    MaxLost = 1
CONSTRAINT Troubles
SYMMETRY WorkerSymmetry
INVARIANTS CheckpointCovered BoundedLateIndexing SyncingHasOwner
PROPERTY CrawlSpec
CHECK_DEADLOCK FALSE
