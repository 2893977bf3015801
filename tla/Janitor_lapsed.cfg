SPECIFICATION FairSpec
CONSTANTS
    Requests = {r1}
    Users = {u1}
    Codes = {c1}
    Instances = {i1}
    None = None
    MaxRoomAttempts = 1
    MaxFaults = 0
PROPERTY LapsedSessionsClosed
