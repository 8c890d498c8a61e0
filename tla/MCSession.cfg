SPECIFICATION FairSpec

CONSTANTS
    c1 = c1
    c2 = c2
    Clients = {c1, c2}
    Greeters = {c1, c2}
    Commands <- TwoUsers
    Nobody = Nobody
    MaxPath = 1
    MaxEntries = 2

INVARIANTS
    TypeOK
    InStep
    PromptIsPath

PROPERTIES
    Answered
    SessionEnds
    CloseEnds

CHECK_DEADLOCK FALSE
