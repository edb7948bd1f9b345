CONSTANTS
    up = up
    op = op
    entry = entry
    m1 = m1
    m2 = m2
    exit = exit
    Relay = {entry, m1, m2, exit}
    Circuit = {up, op}
    N = 4
    Path <- MCPath
    Cap = 1
    Script <- MCScript
    Down <- MCDown
    Leaver = {up}
    Beating = {m1}
    MaxBeats = 1
    None = None
SPECIFICATION FairSpec
CHECK_DEADLOCK FALSE
INVARIANTS
    TypeOK
    StuckOnlyInCircle
PROPERTIES
    CellsArrive
    HeartbeatsGoOut
    PermitIsReturned
