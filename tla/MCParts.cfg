\* The parts that work by themselves.  A part stops where its bounds end, and
\* where the program does.
CHECK_DEADLOCK FALSE
CONSTANTS
    SayIds = 3
    ChatSlots = {0, 1}
    Censored = {2}
    ChatBurst = 1
    ChatCapacity = 2
    MaxLines = 4
    MaxUnheard = 2
    MaxJoins = 2
    Hardware = {"Ethernet", "NoAddress", "Modem"}
    MaxBegins = 3
    MaxCalls = 3
    Hooks = {"discord"}
    NewsKinds = {"ann", "bob", "start"}
    Throttle <- MCThrottle
    QueueLen = 1
    MaxTime = 3
    Clients = {c1, c2}
    Files = {1, 2}
    MaxRows <- MCMaxRows
    MaxStored = 3
    MaxBatches = 1
    MaxRevision = 2
    Names = {"a", "b", "c"}
    Sizes = {1, 2}
    QUOTA = 3
    MAX_OBJECTS = 3
    MAX_ENTRIES = 2
    MAX_DEPTH = 3
    MaxId = 4
    Claimants = {1, 2}
    MaxPairings = 3
SPECIFICATION PartsSpec
SYMMETRY ClientSymmetry
INVARIANTS
    LineOnce
    SentWasRelayed
    StageIsSettled
    CallsAreClean
    ImportsOnce
    RowsWithinLimits
    DriveIsATree
    DriveWithinLimits
    OneLinkACode
PROPERTIES
    LinesGetThrough
    ConnectEnds
    ExitEnds
    OneAlertAWindow
    NoLostUpdate
    ImportsWhole
