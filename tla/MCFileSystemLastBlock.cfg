SPECIFICATION Spec

CONSTANTS
    Clients = {c1}
    Names = {n1, n2}
    RootName = RootName
    Data = {d1}
    NoData = NoData
    MaxBlocks = 6
    FolderCapacity = 2
    FileCapacity = 2
    Commands = {"mk", "w"}
    MaxWrite = 2
    MaxPath = 3

SYMMETRY Symmetry

INVARIANTS
    NoSharing

CHECK_DEADLOCK FALSE
