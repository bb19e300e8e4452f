SPECIFICATION Spec
CONSTANTS
    FileAlign = 0
    SectAlign = 0
    MinImage = 4
    HdrsSize = 4
    Slots = 3
    SecTblOff = 2
    HdrLen = 1
    NtEnd = 2
    SecMax = 2
    DW = 64
    WW = 4
    RawSizes = {0, 1, 2, 5}
    VirtSizes = {0, 5}
    Growths = {0, 3}
    FileSizes = {1, 3, 7}
    MaxFile = 11
    MaxImage = 17
    InitImages <- Malformed
INVARIANTS
    TypeOK
    LoadedIsWrap
    HeadersKept
CHECK_DEADLOCK FALSE
