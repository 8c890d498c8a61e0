SPECIFICATION FairSpec

CONSTANTS
    c1 = c1
    c2 = c2
    Clients = {c1, c2}
    Greeters = {}
    Commands <- TwoUsers
    Nobody = Nobody
    MaxPath = 1
    MaxEntries = 2

PROPERTIES
    Prompted

CHECK_DEADLOCK FALSE
