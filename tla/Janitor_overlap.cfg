SPECIFICATION OverlapSpec
CONSTANTS
    Requests = {r1, r2}
    Users = {u1}
    Codes = {c1}
    Instances = {i1}
    None = None
    MaxRoomAttempts = 1
    MaxFaults = 0
INVARIANT ActiveSetAgrees
PROPERTY ImplementsSessionLife
PROPERTY SweptSessionsClose
CHECK_DEADLOCK FALSE
