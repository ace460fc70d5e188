SPECIFICATION FairSpec
CONSTANTS
    Refs = {r1}
    MaxPending = 1
    Keys = {k1, k2}
    MaxKeys = 2
    MaxBuffered = 1
    MaxWrites = 3
    AllowPoison = FALSE
PROPERTIES LatestArrives
CHECK_DEADLOCK FALSE
