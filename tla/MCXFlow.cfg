SPECIFICATION Spec
CONSTANTS
    N = 5
    Weak <- MCWeak
    Monitored = TRUE
INVARIANTS
    AbortUndoesAll
    ResultIsHonest
    AbortLeavesLittle
PROPERTIES
    ImplementsSaga
CHECK_DEADLOCK FALSE
