SPECIFICATION LiveSpec
CONSTANTS
    NULL = NULL
    NUM_PROCS = 4
    UserCalls <- LibraryCallsWithGetc
    SYSTEM_QUANTUM = 1
    INIT_QUANTUM = 1
    SHELL_QUANTUM = 2
    DEFAULT_QUANTUM = 1
    AllocOutcomes = {TRUE}
PROPERTIES
    Answered
    RoundRobin
    ImplementsScheduler
