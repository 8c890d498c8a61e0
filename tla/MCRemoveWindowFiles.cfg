SPECIFICATION WSpec

CONSTANTS
    Clients = {c1, c2}
    Names = {n1, n2}
    RootName = RootName
    Data = {d1, d2}
    NoData = NoData
    MaxBlocks = 8
    FolderCapacity = 2
    FileCapacity = 2
    Commands = {"mk", "rm", "cat", "w", "i", "d", "format"}
    MaxWrite = 2
    MaxPath = 3

SYMMETRY Symmetry
CONSTRAINT WhileIntact

INVARIANTS
    CountsExact
    BlocksOwnedOnce
    TreeSound
    OpenFileListed

PROPERTIES
    NoCrossTalk
    TreeSpec

CHECK_DEADLOCK FALSE
