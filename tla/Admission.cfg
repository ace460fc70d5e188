SPECIFICATION PartsSpec
CONSTANTS
    Attempts = {1, 2, 3, 4}
    MaxConcurrent = 3
    PerTickBudget = 1
    HasTimeout = TRUE
    None = None
    Bad = Bad
    Reqs = {"r1", "r2"}
    Kinds <- SomeKinds
    Keys = {"k1"}
    Responses <- SomePages
    BodyCap = 1
    MaxDedup = 2
    PoolMax = 1
    NoReq = NoReq
    Assets = {"a"}
    DirPages = {"d"}
    FilePages = {"f"}
    Others = {"o"}
    Size = 3
    MaxByte = 4
    Own = "own"
    Foreign = "foreign"
    PerWindow = 3
    Window = 3
    MaxTicks = 8
    MaxEvicted = 1
INVARIANTS SlotBooks OneAnswer HttpIsSound DecisionsAreRight
PROPERTIES InOrder SlotsReturn HandlersEnd
CHECK_DEADLOCK FALSE
