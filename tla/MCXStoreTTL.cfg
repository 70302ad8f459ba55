SPECIFICATION Spec
CONSTANTS
    SearchPaths <- MCSearchPaths
    NoExtension = {"raw"}
    Worlds <- MCWorlds
    Durations <- MCDurations
    Fallback = 3
    Keys = {k1}
    Types = {t1, t2}
    CustomTTLs = {1, 4}
    MaxNow = 4
INVARIANTS
    OwnTTLReplacesDefault
CHECK_DEADLOCK FALSE
