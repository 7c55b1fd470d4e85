SPECIFICATION FairSpec
CONSTANTS
    Addr = {a1}
    Off = {s1, s2}
    Base = base
    Tree = tree
    NULL = NULL
    Kinds = {"pair"}
INVARIANTS RootChainMirrorsFrames
PROPERTIES OnlyGarbageFreed CollectionEnds
