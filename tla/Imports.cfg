SPECIFICATION Spec
CONSTANTS
    InvalidLimit = 2
    OrdinalFlag = 100
    FileMax = 14
    Lengths = {7, 14}
    Targets = {2, 3, 4, 8, 10}
    Files <- SmallFiles
INVARIANTS
    ThunksAnswered
    ListedOnce
    TerminatorKept
PROPERTY
    MoveKeepsLibraries
CHECK_DEADLOCK FALSE
