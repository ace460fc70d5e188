SPECIFICATION PartsSpec
CONSTANTS
    Socks = {s1, s2, s3}
    Topics = {t1}
    NoSock = NoSock
    MaxAttempts = 2
    ThrottleJump = 1
    QueueMax = 2
    MaxRefs = 2
    MaxGiven = 3
    MaxWaiting = 2
    None = None
    Wrappers = {"w1", "w2", "w3"}
    OfEvent = {"w2", "w3"}
    MaxEvents = 2
    MaxSubs = 1
    Items = {"i1", "i2"}
    MaxAge = 2
    Roles = {"member", "admin"}
    MaxMembers = 2
    MaxMoves = 3
    MaxLost = 1
    Movers = {"m1", "m2"}
    Viewers = {"v"}
    Rooms = {"t1", "t2"}
    Data = {"d1", "d2"}
    MaxConns = 2
    MaxTopics = 2
    Aging = {"t2"}
    MaxKeys = 2
    MaxOps = 3
SYMMETRY Symmetry
INVARIANTS ConnectionIsKept Resubscribed ShownAndKept MountedHear FreshStay CursorsArrive RosterIsMembership
PROPERTIES NoResurrection
CHECK_DEADLOCK FALSE
