SPECIFICATION WSpec

CONSTANTS
    Clients = {c1, c2}
    Names = {n1, n2}
    RootName = RootName
    Data = {d1}
    NoData = NoData
    MaxBlocks = 7
    FolderCapacity = 2
    FileCapacity = 2
    Commands = {"cd", "mk", "mkdir", "rm", "rmdir", "format"}
    MaxWrite = 2
    MaxPath = 3

SYMMETRY Symmetry
CONSTRAINT WhileIntact

INVARIANTS
    TypeOK
    CountsExact
    BlocksOwnedOnce
    ParentsMatch
    NamesUnique
    PathIsCwd
    TreeSound

PROPERTIES
    NoRemovalInUse
    TreeSpec
    AtomicSpec

CHECK_DEADLOCK FALSE
