SPECIFICATION Spec
CONSTANTS
    CharBits = 2
    SizeBits = 2
    MemSize = 3
    IntBits = 6
    Bases = {0, 8, 16}
    Texts <- MCTexts
INVARIANTS
    NoOverread
    ReadsLongestNumeral
    TextReadsBack
PROPERTIES
    AgreesWithStandard
