SPECIFICATION LifeSpec
CONSTANTS
    Hooks <- MCHooks
    PhaseOf <- MCPhaseOf
    Callers = {r1}
    Runners = {r1}
    Order <- MCOrder
    Must <- MCMust
    MaxHookNum = 3
    Modules = {"log", "trace"}
    ModuleOf <- MCModuleOf
    Builtin <- MCBuiltin
    StoresFirst = {"log"}
    MaxSignals = 1
INVARIANTS
    ExitCleansUp
CHECK_DEADLOCK FALSE
