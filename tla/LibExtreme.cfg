SPECIFICATION TextSpec
CONSTANTS
    CharBits = 2
    SizeBits = 2
    MemSize = 3
    IntBits = 6
    Bases = {0, 8, 16}
    Texts <- MCTexts
INVARIANTS
    ConvertsEveryInteger
CHECK_DEADLOCK FALSE
