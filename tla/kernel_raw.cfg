SPECIFICATION Spec
CONSTANTS
    NULL = NULL
    NUM_PROCS = 4
    UserCalls <- RawCalls
    SYSTEM_QUANTUM = 1
    INIT_QUANTUM = 1
    SHELL_QUANTUM = 1
    DEFAULT_QUANTUM = 1
    AllocOutcomes = {TRUE, FALSE}
INVARIANTS
    TypeOK
    SchedNeverNull
    NoNullTail
    IdleLast
