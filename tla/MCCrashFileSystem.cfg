SPECIFICATION CSpec

CONSTANTS
    Clients = {c1, c2}
    Names = {n1}
    RootName = RootName
    Data = {d1, d2}
    NoData = NoData
    MaxBlocks = 7
    FolderCapacity = 2
    FileCapacity = 2
    Commands = {"cd", "mk", "mkdir", "rm", "rmdir", "w", "d", "format"}
    MaxWrite = 2
    MaxPath = 3

SYMMETRY Symmetry

INVARIANTS
    CrashTypeOK
    SoundAfterCrash
    AllOrNothing

PROPERTIES
    Persistent
