SPECIFICATION Spec
CONSTANTS
    N = 2
    BufferSize = 1
    Monitored = TRUE
    MaxFrames = 6
INVARIANTS
    NothingLost
    ResultIsComplete
PROPERTIES
    PipelineEnds
    ImplementsStream
CHECK_DEADLOCK FALSE
