SPECIFICATION Spec
CONSTANTS
    FileAlign = 4
    SectAlign = 8
    MinImage = 8
    HdrsSize = 4
    Slots = 4
    SecTblOff = 0
    HdrLen = 1
    NtEnd = 1
    SecMax = 3
    DW = 64
    WW = 16
    RawSizes = {0, 1, 4}
    VirtSizes = {0, 9}
    Growths = {0, 3}
    FileSizes = {2, 12}
    MaxFile = 15
    MaxImage = 33
    InitImages <- WellFormed
INVARIANTS
    TypeOK
    SectionsOrdered
    LoadedIsWrap
    SectionLimit
    MapsCurrent
    RoundTrip
    SectionsReachable
PROPERTIES
    ImplementsSectionTable
CHECK_DEADLOCK FALSE
