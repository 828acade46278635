SPECIFICATION FineSpec
CONSTANTS
    NULL = NULL
    NUM_PROCS = 4
    UserCalls <- ExecAndRaw
    SYSTEM_QUANTUM = 2
    INIT_QUANTUM = 1
    SHELL_QUANTUM = 1
    DEFAULT_QUANTUM = 1
    AllocOutcomes = {TRUE}
INVARIANTS
    SchedNeverNull
