SPECIFICATION Spec
CONSTANTS
    Width = 5
    ByteBits = 2
    Chunk = 3
    MinBuf = 4
    Memory = 9
    Contents <- SmallContents
    Texts <- SmallTexts
    Limits = {0, 2}
    Offsets = {0, 1, 3, 5}
    Sizes = {0, 2, 3, 6, 8}
    ViewSizes = {2, 4, 30}
    MaxCalls = 2
INVARIANTS
    WritesConfined
    TextReadBack
    LoadedIsPrefix
PROPERTIES
    GrownIsZero
CHECK_DEADLOCK FALSE
