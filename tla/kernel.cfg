SPECIFICATION Spec
CONSTANTS
    NULL = NULL
    NUM_PROCS = 5
    UserCalls <- LibraryCalls
    SYSTEM_QUANTUM = 1
    INIT_QUANTUM = 1
    SHELL_QUANTUM = 2
    DEFAULT_QUANTUM = 1
    AllocOutcomes = {TRUE}
INVARIANTS
    ReadyExactlyOnce
    SendsNeverBlock
    ReplyReaches
    OneAtATime
    PriorityOrder
    ServesUndisturbed
    PanicsWhenFull
PROPERTIES
    OnlyReplyWakes
