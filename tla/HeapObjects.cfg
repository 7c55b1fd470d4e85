SPECIFICATION BorrowSpec
CONSTANTS
    Addr = {a1, a2, a3}
    Off = {}
    Base = base
    Tree = tree
    NULL = NULL
    Kinds = {"atom", "pair"}
    MaxBorrowed = 3
SYMMETRY Symmetry
INVARIANTS ChainComplete NoDangling PassSeesReachable HeapFlagsTakenBack
PROPERTIES OnlyGarbageFreed GarbageReclaimed
