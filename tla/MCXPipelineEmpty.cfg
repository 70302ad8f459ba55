SPECIFICATION Spec
CONSTANTS
    N = 0
    BufferSize = 2
    Monitored = FALSE
    MaxFrames = 6
INVARIANTS
    TypeOK
    NothingLost
    OnlyOutputBlocks
PROPERTIES
    PipelineEnds
    ImplementsStream
CHECK_DEADLOCK FALSE
