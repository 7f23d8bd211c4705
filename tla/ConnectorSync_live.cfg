SPECIFICATION FairSpec
CONSTANTS
    NPages = 2
    Workers = {w1, w2}
    MaxRequests = 2
    MaxDisconnects = 1
    MaxFaults = 0
    MaxRedis = 0
    MaxCrashes = 1
    MaxLost = 0
PROPERTY SyncingSettles
CHECK_DEADLOCK FALSE
