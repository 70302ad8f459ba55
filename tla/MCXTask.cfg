SPECIFICATION Spec
CONSTANTS
    Jobs <- MCJobs
    Pooled <- MCPooled
    Retries <- MCRetries
    Workers = {w1, w2}
    PerWorker = 1
INVARIANTS
    LossNeedsPanics
    AnswerIsHonest
PROPERTIES
    FreeWorkerTakes
    WaiterEnds
CHECK_DEADLOCK FALSE
