SPECIFICATION SessionSpec
CONSTANTS
    NULL = NULL
    UNSET = UNSET
    NUM_PROCS = 6
    NUM_HOLES = 7
    ORIGIN = 8
    BSS_SIZE = 8
    LAST = 119
    SIZE_LIMIT = 512
    Sizes = {3}
    BLOCK = 8
    WORD_BITS = 7
    SYSTEM_QUANTUM = 4
    INIT_QUANTUM = 1
    SHELL_QUANTUM = 2
    DEFAULT_QUANTUM = 3
    INIT_LENGTH = 2
    SHELL_LENGTH = 5
    BYTE = 16
    WORD_BYTES = 3
    Deltas = {1, 8, 15}
    INT_MAX = 127
    PLACES = 3
    HEX_DIGITS = 2
    BUF_LEN = 4
    Printable = {"exec", "exit", "fork", "ps", "S"}
    PROC_NAME_LEN = 2
    NAME_LEN = 1
    PREFIX_LEN = 2
    Programs <- MCPrograms
    ExitCodes <- Codes
    Budgets <- MCBudgets
INVARIANTS
    SessionTypeOK
    NoOverlap
    ImageIsOwned
    ReachesItsImage
    ScreenIsLine
    StaysInBuffer
    OnlyNamedCalls
    
    OverrunIsBounded
    WholeProgram
    NoWrongWord
    AgreesWithTool
    ReportTellsTheEnd
    KeepsItsNumber
PROPERTIES
    HandsOverKernel
    RefusesOnlyShort
    OnlyExecFrees
CHECK_DEADLOCK FALSE
