SPECIFICATION LifeSpec
CONSTANTS
    Hooks <- MCHooksOne
    PhaseOf <- MCPhaseOf
    Callers = {r1, m1}
    Runners = {r1}
    Order <- MCOrder
    Must <- MCMust
    MaxHookNum = 3
    Modules = {"log"}
    ModuleOf <- MCModuleOf
    Builtin <- MCBuiltinOne
    StoresFirst = {"log"}
    MaxSignals = 1
INVARIANTS
    ServeOnlyInitialised
    StopsAfterServer
    InitIsShared
    ReleasedUnlessLate
    FailedInitKeepsStops
PROPERTIES
    SignalEndsRun
CHECK_DEADLOCK FALSE
