SPECIFICATION AllSpec
CONSTANTS
    FileAlign = 2
    SectAlign = 4
    MinImage = 4
    HdrsSize = 6
    Slots = 3
    SecTblOff = 2
    HdrLen = 1
    NtEnd = 2
    SecMax = 4
    DW = 64
    WW = 16
    RawSizes = {0, 1, 2}
    VirtSizes = {0, 5}
    Growths = {0, 3}
    FileSizes = {1, 3, 9}
    MaxFile = 13
    MaxImage = 21
    InitImages <- Ordinary
    Threads = {t1}
    NoThread = none
    Calls = {"add", "extend", "resize", "read"}
    CallsPerThread = 4
    MemoryShort = TRUE
    NtLen = 1
    NtLen32 = 1
PROPERTY
    StepsImplementSectionTable
