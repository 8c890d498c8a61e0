SPECIFICATION FairSpec

CONSTANTS
    Callers = {c1, c2}
    Sectors = {s1}
    Values = {v1, v2}
    Blank = Blank
    Torn = Torn
    Pending = Pending
    Nobody = Nobody
    MaxTid = 4

INVARIANTS
    TypeOK
    HandlerInStep
    InOnePlace

PROPERTIES
    StoreSpec
    CallsReturn
    NextIsServed
    JoinReturns
