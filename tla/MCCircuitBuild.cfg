CONSTANTS
    entry = entry
    m1 = m1
    m2 = m2
    exit = exit
    None = None
    Build <- MCBuild
    Relay <- MCRelay
    Path <- MCPath
    CircuitId <- MCOneClient
    MaxFaults = 1
SPECIFICATION FairSpec
CHECK_DEADLOCK FALSE
INVARIANTS
    TypeOK
    BuiltInStep
PROPERTIES
    BuildsComplete
    LocksAreReleased
    GivingUpIsReported
