SPECIFICATION FairSpec
CONSTANTS
    QueueCapacity = 2
    CodecDepth = 1
    MaxFrames = 4
    NvencAvailable = FALSE
INVARIANTS
    TypeOK
    FrameAccounting
    DeliveryOrder
    NoMissedFrame
    EncoderConfined
    CaptureQuiescent
    ThreadDiscipline
PROPERTIES
    FrameProgress
    CaptureJoinReturns
    ImplementsFrameStream
