CONSTANTS
    c1 = c1
    c2 = c2
    Conn = {c1, c2}
    None = None
    MaxStreamId = 2
    MaxUp <- MCUp
    MaxDown <- MCDown
    MaxFaults = 1
SPECIFICATION FairSpec
CHECK_DEADLOCK FALSE
INVARIANT TypeOK
PROPERTIES
    UploadIsByteStream
    DownloadIsByteStream
    ExitForgets
    CloseIsReported
    BeginIsAnswered
