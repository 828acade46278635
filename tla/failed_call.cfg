SPECIFICATION Spec
CONSTANTS
    NULL = NULL
    NUM_PROCS = 4
    UserCalls <- BadDestination
    SYSTEM_QUANTUM = 1
    INIT_QUANTUM = 1
    SHELL_QUANTUM = 1
    DEFAULT_QUANTUM = 1
    AllocOutcomes = {TRUE}
INVARIANTS
    FailedCallReturns
