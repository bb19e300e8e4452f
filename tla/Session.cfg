SPECIFICATION Spec
CONSTANTS
    Width = 5
    WordWidth = 4
    UnitSize = 4
    DosUnit = 4
    DOS_PARAGRAPH = 2
    PhdrSize = 4
    ShdrSize = 6
    EhdrSize = 4
    NameRoom = 3
    Files <- SmallFiles
    Inputs <- SmallInputs
    Dec <- SmallDec
    Hex <- SmallHex
    MinBuf = 6
    MaxMap = 30
    FetchSize = 3
    ManyStrings = 5
    RESTYPE_STRING = 6
INVARIANTS
    AddressesAgree
    SegmentsValid
PROPERTIES
    Ends
    FailedInputRunsNothing
CHECK_DEADLOCK FALSE
