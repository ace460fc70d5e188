SPECIFICATION PartsSpec
CONSTANTS
    Calls = {a, b, c, d}
    Keys = {k1, k2}
    MaxKeys = 1
    MaxWaiters = 2
    MaxClears = 1
    None = None
    RateKeys = {"k1", "k2"}
    Points = 2
    Interval = 2
    Block = 3
    Longest = 4
    SweepAbove = 1
    MaxBuckets = 1
    NoBucket = NoBucket
    Ids = {"i", "j", "k", "l"}
    Ttl = 2
    MaxEntries = 2
    Topics = {"x", "y", "z"}
    Late = "z"
    MaxTopics = 2
    Bad = {2}
    MaxMsgs = 3
INVARIANTS Sound LimitsAreKept
PROPERTIES ImplementsLine
CHECK_DEADLOCK FALSE
