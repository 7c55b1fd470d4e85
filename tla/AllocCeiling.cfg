SPECIFICATION TeardownSpec
CONSTANTS
    Addr = {o1, o2, o3}
    Limits = {0, 1, 2}
    Extras = {0, 1}
    MaxCells = 2
    TypeFirst = TRUE
    Base = base
    NULL = NULL
CHECK_DEADLOCK FALSE
INVARIANTS TypeOK CountExact OneReport NoDeadBase TeardownFreesAll
PROPERTIES CeilingHolds NoLivelock
