SPECIFICATION UseSpec
CONSTANTS
    Fd = {file}
    Buf = {b1, b2}
    Value = {obj}
    UsedSets <- MCUsedSets
    MaxDepth = 2
    InLen = 2
    OutMax = 3
    MaxSize = 2
    MaxCalls = 2
SYMMETRY Symmetry
INVARIANTS NoTruncation Delivered OverrideAnswers
