SPECIFICATION Spec
CONSTANTS
    Threads = {t1}
    Kinds = {"counter", "histogram"}
    Names <- MCNames
    LabelLists <- OneSeries
    Configs <- MCConfigs
    MaxCalls = 1
INVARIANTS
    BucketsAsConfigured
CHECK_DEADLOCK FALSE
