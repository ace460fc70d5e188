SPECIFICATION PartsSpec
CONSTANTS
    Refs = {r1, r2}
    MaxPending = 1
    Keys = {k1, k2, k3}
    MaxKeys = 2
    MaxBuffered = 1
    MaxWrites = 2
    AllowPoison = TRUE
    Workers = {w}
    Requests = {q1, q2, q3}
    MaxConns = 3
    NoConn = NoConn
    NoRequest = NoRequest
    None = None
    Pushes = {1, 2, 3, 4, 5}
    Drains = {1}
    QueueKeys = {"k1", "k2"}
    Concurrency = 2
    MaxSize = 2
    Topics = {"chat", "other"}
    Chat = "chat"
    Size = 2
    MaxTopics = 1
    MaxMsgs = 3
    MaxStops = 1
    Capacity = 2
    MaxStamps = 4
    MaxLost = 2
INVARIANTS SettlingIsSure RepliesMatch QueueBooks Gapless
PROPERTIES LatestGoesOut RequestsSettle QueuesDrain GoesLive
CHECK_DEADLOCK FALSE
