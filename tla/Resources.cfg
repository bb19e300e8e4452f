SPECIFICATION Spec
CONSTANTS
    MaxEntries = 2
    MaxDepth = 3
    FileMax = 12
    RelMax = 9
    Lengths = {2, 6, 12}
    MaxWraps = 4
    Files <- SmallFiles
INVARIANTS
    LeafsAreThePaths
    ContentsCurrent
    AlbumOwnsLive
CHECK_DEADLOCK FALSE
