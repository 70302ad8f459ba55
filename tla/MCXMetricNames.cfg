SPECIFICATION Spec
CONSTANTS
    Threads = {t1, t2}
    Kinds = {"counter", "histogram"}
    Names <- MCNames
    LabelLists <- OneSeries
    Configs <- MCConfigs
    MaxCalls = 3
INVARIANTS
    TypeOK
    NamesDiffer
CHECK_DEADLOCK FALSE
