CONSTANTS
    up = up
    op = op
    entry = entry
    m1 = m1
    m2 = m2
    exit = exit
    Relay = {entry, m1, exit}
    Circuit = {up}
    N = 3
    Path <- MCPathDuplex
    Cap = 1
    Script <- MCScriptDuplex
    Down <- MCDownDuplex
    Leaver = {}
    Beating = {}
    MaxBeats = 0
    None = None
SPECIFICATION FairSpec
CHECK_DEADLOCK FALSE
PROPERTY CellsArrive
