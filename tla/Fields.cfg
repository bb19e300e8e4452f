SPECIFICATION Spec
CONSTANTS
    Files <- SmallFiles
    Edits <- SmallEdits
    Lengths = {440, 710}
    MaxWraps = 2
INVARIANTS
    FieldsCoverMembers
    ListedAreDeclared
    TablesOwnEntries
PROPERTIES
    CertificateInFile
CHECK_DEADLOCK FALSE
