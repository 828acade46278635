SPECIFICATION Spec
CONSTANTS
    NULL = NULL
    NUM_HOLES = 4
    ORIGIN = 1
    BSS_SIZE = 2
    LAST = 8
    SIZE_LIMIT = 16
    Sizes = {1, 2}
INVARIANTS
    FreeFindsBlock
