CONSTANTS
    Conn = {c1, c2}
    NoCircuit = NoCircuit
    PoolSize = 2
    MaxAttempts = 1
    MaxId = 8
    MaxFailures = 1
    MaxEvents = 1
SPECIFICATION FairSpec
CHECK_DEADLOCK FALSE
INVARIANTS
    TypeOK
    CapacityKept
PROPERTIES
    ClosedIsReplaced
    DirtyIsRetired
    OpeningSettles
