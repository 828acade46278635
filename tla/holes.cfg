SPECIFICATION Spec
CONSTANTS
    NULL = NULL
    NUM_HOLES = 3
    ORIGIN = 1
    BSS_SIZE = 2
    LAST = 7
    SIZE_LIMIT = 16
    Sizes = {0,1,3}
INVARIANTS
    TypeOK
    NoOverlap
    OnOneList
    WithinMemory
