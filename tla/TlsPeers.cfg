SPECIFICATION LiveSpec
CONSTANTS
    HandshakeWindow = 1
    TransitionWindow = 2
    DeferWindow = 1
    KeyIdMask = 3
    SingleSession = FALSE
    RenegotiateByTime = TRUE
    SidCount = 20
    SidsRecur = FALSE
    MaxFaults = 1
    MaxKeyId = 1
    MaxNet = 2
INVARIANTS
    SettledIsSynced
PROPERTIES
    Recovers
