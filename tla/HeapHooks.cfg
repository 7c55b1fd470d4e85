SPECIFICATION HookedSpec
CONSTANTS
    Addr = {a1, a2}
    Off = {}
    Base = base
    Tree = tree
    NULL = NULL
    Kinds = {"atom", "pair"}
PROPERTIES FieldsSurviveHooks
