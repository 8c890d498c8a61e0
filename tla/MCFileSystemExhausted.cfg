SPECIFICATION Spec

CONSTANTS
    Clients = {c1}
    Names = {n1}
    RootName = RootName
    Data = {d1}
    NoData = NoData
    MaxBlocks = 6
    FolderCapacity = 2
    FileCapacity = 2
    Commands = {"cd", "mk", "mkdir", "rm", "rmdir", "w", "cat", "i", "d", "format"}
    MaxWrite = 2
    MaxPath = 2

SYMMETRY Symmetry

INVARIANTS
    TypeOK

PROPERTIES
    TreeSpec

CHECK_DEADLOCK FALSE
