SPECIFICATION Spec

CONSTANTS
    Clients = {c1}
    Names = {n1}
    RootName = RootName
    Data = {d1}
    NoData = NoData
    MaxBlocks = 8
    FolderCapacity = 2
    FileCapacity = 2
    Commands = {"mk", "w"}
    MaxWrite = 3
    MaxPath = 3

SYMMETRY Symmetry
CONSTRAINT WhileIntact

INVARIANTS
    WithinNode

CHECK_DEADLOCK FALSE
