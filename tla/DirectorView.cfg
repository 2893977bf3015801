SPECIFICATION Spec
CONSTANTS
    Sids = {1, 2, 3}
    Unreadable = {3}
    MaxConnects = 2
    MaxEvents = 3
    MaxCameras = 2
    MaxPages = 2
INVARIANTS
    TypeOK
    ConnectsExclusive
    FeedMatches
    NoGhostTrack
PROPERTY
    FeedFollows
CHECK_DEADLOCK FALSE
