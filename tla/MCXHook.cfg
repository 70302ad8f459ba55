SPECIFICATION Spec
CONSTANTS
    Hooks = {"a", "b", "c"}
    PhaseOf <- MCPhaseOf
    Callers = {t1, t2}
    Order <- MCOrder
    Must <- MCMust
    MaxHookNum = 2
INVARIANTS
    HeldInOneSlot
    RunsInOrder
    OkMeansMustHooksOk
    ErrMeansFailFast
PROPERTIES
    VerdictIsFinal
    InvocationEnds
