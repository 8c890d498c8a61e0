SPECIFICATION Spec

CONSTANTS
    Clients = {c1, c2}
    Names = {n1}
    RootName = RootName
    Data = {d1}
    NoData = NoData
    MaxBlocks = 7
    FolderCapacity = 2
    FileCapacity = 2
    Commands = {"mk", "w", "i"}
    MaxWrite = 2
    MaxPath = 3

SYMMETRY Symmetry

PROPERTIES
    EditsCurrentContent

CHECK_DEADLOCK FALSE
