SPECIFICATION Spec
CONSTANTS
    CodecDepth = 2
    MaxInputs = 4
    MaxInits = 3
INVARIANTS
    TypeOK
    ReadyIsUsable
    OutputsReachTheirCallback
    EncoderKeepsAll
    OneInitializeReleasesAll
    KeyframeNotLost
CHECK_DEADLOCK FALSE
