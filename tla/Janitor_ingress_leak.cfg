SPECIFICATION Spec
CONSTANTS
    Requests = {r1, r2, r3}
    Users = {u1}
    Codes = {c1}
    Instances = {}
    None = None
    MaxRoomAttempts = 1
    MaxFaults = 0
SYMMETRY Symmetry
INVARIANT ClosedSessionHasNoIngress
CHECK_DEADLOCK FALSE
