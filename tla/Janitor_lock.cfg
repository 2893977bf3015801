SPECIFICATION FairSpec
CONSTANTS
    Requests = {}
    Users = {u1}
    Codes = {c1}
    Instances = {i1, i2}
    None = None
    MaxRoomAttempts = 1
    MaxFaults = 2
INVARIANT LockHeld
INVARIANT SweepExclusion
PROPERTY SweepsGoOn
CHECK_DEADLOCK FALSE
