CONSTANTS
    entry = entry
    m1 = m1
    m2 = m2
    exit = exit
    None = None
    Build <- MCBuild
    Relay <- MCRelay
    Path <- MCPath
    CircuitId <- MCTwoClients
    MaxFaults = 0
SPECIFICATION Spec
CHECK_DEADLOCK FALSE
INVARIANT RegistryHasAllCircuits
