SPECIFICATION PartsSpec
CONSTANTS
    Ids = {a, b}
    Num = 2
    RestartMax = 2
    BaseDelay = 100
    MaxDelay = 300
    MissedTicks = 1
    Running = Running
    Clients = {"c1"}
    MaxSaves = 1
    Conns = {"a", "b", "c"}
    Topics = {"t"}
    Keys = {"u", "v"}
    KeyOf <- Tabs
    Data = {"d1", "d2"}
    MaxConns = 2
    MaxTopics = 1
    MaxAge = 1
    MaxOps = 3
    MaxDrops = 1
    NoEntry = NoEntry
    Varied = {"b"}
    Usual = "d1"
INVARIANTS Manned OneInstance PresenceIsTold
PROPERTIES OnlySilentTerminated Recovers HooksWhileUp SavesTakeEffect ViewHeals
CHECK_DEADLOCK FALSE
