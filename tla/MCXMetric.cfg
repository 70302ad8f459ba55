SPECIFICATION Spec
CONSTANTS
    Threads = {t1, t2}
    Kinds = {"counter", "histogram"}
    Names <- MCNames
    LabelLists <- OneSeries
    Configs <- MCConfigs
    MaxCalls = 3
INVARIANTS
    NoUpdateLost
    ExposedOnce
PROPERTIES
    EventuallyExposed
CHECK_DEADLOCK FALSE
