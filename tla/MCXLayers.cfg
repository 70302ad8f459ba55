SPECIFICATION Spec
CONSTANTS
    Requests = {q1, q2}
    Threads = {t1, t2}
    Builders <- MCBuilders
    Shapes = {"small", "large", "chunked", "cut"}
INVARIANTS
    OwnContext
    RecordsAgree
    LogInTrace
    BodyReaches
CHECK_DEADLOCK FALSE
