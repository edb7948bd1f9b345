SPECIFICATION Spec
CONSTANTS
    MAX_PAYLOAD_SIZE = 8
    None = None
    Relay = {"r1", "r2", "r3"}
    Build = {"b1", "b2"}
    Path <- MCPath
    NodeType <- MCNodeType
    MaxStarts <- MCMaxStarts
    HasZero <- MCHasZero
CHECK_DEADLOCK FALSE
INVARIANTS
    TypeOK
    KeysAgree
    KeysAreSeparate
PROPERTIES
    RefusedOnlyIfStale
