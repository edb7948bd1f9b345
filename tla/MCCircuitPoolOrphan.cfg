CONSTANTS
    Conn = {c1}
    NoCircuit = NoCircuit
    PoolSize = 1
    MaxAttempts = 1
    MaxId = 4
    MaxFailures = 0
    MaxEvents = 1
SPECIFICATION FairSpec
CHECK_DEADLOCK FALSE
PROPERTY OrphansDoNotPinCircuits
