SPECIFICATION Spec
CONSTANTS
    Addr = {a1, a2}
    Off = {s1}
    Base = base
    Tree = tree
    NULL = NULL
    Kinds = {"atom", "pair", "custom"}
SYMMETRY Symmetry
INVARIANTS TypeOK InductiveInvariant NoDangling MarksClean MarkDepthBounded
PROPERTIES OnlyGarbageFreed CollectionRunsDown ImplementsCollect
