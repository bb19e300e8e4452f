SPECIFICATION Spec
CONSTANTS
    Files <- SmallFiles
    Edits <- SmallEdits
    Lengths = {436, 470}
    MaxEdits = 2
INVARIANTS
    DirsCurrent
    PointersInFile
