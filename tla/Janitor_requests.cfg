SPECIFICATION Spec
CONSTANTS
    Requests = {r1, r2, r3}
    Users = {u1, u2}
    Codes = {c1}
    Instances = {}
    None = None
    MaxRoomAttempts = 2
    MaxFaults = 1
SYMMETRY Symmetry
INVARIANT TypeOK
INVARIANT CloseAuthorised
INVARIANT SessionsListed
INVARIANT IngressTracked
INVARIANT ClosedPreventsJoins
CHECK_DEADLOCK FALSE
