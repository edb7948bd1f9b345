CONSTANTS
    up = up
    op = op
    entry = entry
    m1 = m1
    m2 = m2
    exit = exit
    Relay = {entry, m1, m2, exit}
    Circuit = {up, op}
    N = 4
    Path <- MCPath
    Cap = 1
    Script <- MCScriptOpposed
    Down <- MCDownOpposed
    Leaver = {}
    Beating = {}
    MaxBeats = 0
    None = None
SPECIFICATION FairSpec
CHECK_DEADLOCK FALSE
INVARIANT NeverStuck
