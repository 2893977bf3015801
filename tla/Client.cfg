SPECIFICATION ClientSpec
CONSTANTS
    MaxPages = 2
    MaxTasks = 4
    Tracks = {1}
    MaxReads = 3
    PoolSize = 2
INVARIANTS
    TypeOK
    StartsExclusive
    StopExclusive
    InitializedIdle
    NoPacketDropped
    ReaderConfined
PROPERTIES
    UIReturns
    TrackIsRead
CHECK_DEADLOCK FALSE
