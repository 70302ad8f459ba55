SPECIFICATION LifeSpec
CONSTANTS
    Hooks <- MCHooksAll
    PhaseOf <- MCPhaseOf
    Callers = {m1}
    Runners = {}
    Order <- MCOrder
    Must <- MCMust
    MaxHookNum = 9
    Modules = {}
    ModuleOf <- MCModuleOf
    Builtin <- BuiltinHookList
    StoresFirst = {}
    MaxSignals = 0
CONSTRAINT FewFail
INVARIANTS
    LifetimesNest
CHECK_DEADLOCK FALSE
