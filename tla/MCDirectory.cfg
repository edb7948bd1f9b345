CONSTANTS
    e1 = e1
    e2 = e2
    m1 = m1
    m2 = m2
    x1 = x1
    Relay <- MCRelay
    Type <- MCType
    Address <- MCAddress
    Ip <- MCIp
    Operator <- MCOperator
    NoOperator = "none"
    Loopback = {"loopback"}
    AllowSameIp = FALSE
    HopCounts = {3, 4}
    StaleTimeout = 2
    CleanupInterval = 1
    HeartbeatInterval = 1
    Latency = 0
    MaxFaults = 1
SPECIFICATION Spec
CHECK_DEADLOCK FALSE
INVARIANTS
    TypeOK
    OneNodePerAddress
    OnlyFreshNodes
    RunningStaysRegistered
    PathsAreDiverse
