SPECIFICATION FairSpec
CONSTANTS
    QueueCapacity = 3
    CodecDepth = 1
    MaxFrames = 2
    NvencAvailable = TRUE
PROPERTIES
    StopReturns
