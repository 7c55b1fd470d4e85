SPECIFICATION StaticSpec
CONSTANTS
    Addr = {a1, a2}
    Off = {s1}
    Base = base
    Tree = tree
    NULL = NULL
    Kinds = {"atom", "pair"}
SYMMETRY Symmetry
PROPERTIES StaticRootsProtect
