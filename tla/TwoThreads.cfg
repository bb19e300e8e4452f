SPECIFICATION FairSpec
CONSTANTS
    FileAlign = 2
    SectAlign = 4
    MinImage = 4
    HdrsSize = 6
    Slots = 4
    SecTblOff = 2
    HdrLen = 1
    NtEnd = 2
    SecMax = 4
    DW = 64
    WW = 16
    RawSizes = {2}
    VirtSizes = {1}
    Growths = {3}
    FileSizes = {1, 3}
    MaxFile = 17
    MaxImage = 29
    InitImages <- OneSection
    Threads = {t1, t2}
    NoThread = none
    Calls = {"add", "extend", "resize", "read", "hdr"}
    CallsPerThread = 2
    MemoryShort = TRUE
    NtLen = 1
    NtLen32 = 1
INVARIANTS
    ThreadsTypeOK
    ReadersSeeWhole
    Settled
    HeadersAlwaysKept
PROPERTY
    CallsEnd
