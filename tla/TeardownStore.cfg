SPECIFICATION TeardownSpec
CONSTANTS
    Addr = {o1, o2, o3}
    Limits = {0, 2}
    Extras = {0, 1}
    MaxCells = 1
    TypeFirst = TRUE
    Base = base
    NULL = NULL
SYMMETRY Symmetry
CHECK_DEADLOCK FALSE
PROPERTIES NoStoreToDeadBase
