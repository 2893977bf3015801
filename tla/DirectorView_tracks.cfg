SPECIFICATION Spec
CONSTANTS
    Sids = {1, 2}
    Unreadable = {}
    MaxConnects = 1
    MaxEvents = 3
    MaxCameras = 2
    MaxPages = 1
INVARIANT TracksAppear
CHECK_DEADLOCK FALSE
