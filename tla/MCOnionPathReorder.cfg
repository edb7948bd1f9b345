CONSTANTS
    N = 3
    data = data
    end = end
    DESTROY = DESTROY
    Garbled = Garbled
    None = None
    Cell <- MCCell
    Bytes <- MCBytes
    FBase <- MCBase
    BBase <- MCBase
    MaxForward = 2
    MaxBackward = 3
    MaxBreaks = 1
SPECIFICATION Spec
CHECK_DEADLOCK FALSE
INVARIANT NoBackwardMismatch
