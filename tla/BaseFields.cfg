SPECIFICATION Spec
CONSTANTS
    Fd = {file}
    Buf = {buf}
    Value = {obj}
    UsedSets <- TwoOfThem
    MaxDepth = 2
PROPERTIES ImplementsFields
