CONSTANTS
    N = 4
    data = data
    end = end
    DESTROY = DESTROY
    Garbled = Garbled
    None = None
    Cell <- MCCell
    Bytes <- MCBytes
    FBase <- MCBase
    BBase <- MCBase
    MaxForward = 2
    MaxBackward = 3
    MaxBreaks = 1
SPECIFICATION FairSpec
CHECK_DEADLOCK FALSE
INVARIANTS
    TypeOK
    ForwardIntegrity
    Layering
    BackwardIntegrity
    MismatchOnlyByOvertaking
PROPERTIES
    ForwardIsChannel
    BackwardIsChannel
    TeardownReachesClient
    ForwardDelivery
    BackwardDelivery
