SPECIFICATION MCSpec
CONSTANTS
    HandshakeWindow = 2
    TransitionWindow = 1
    DeferWindow = 1
    KeyIdMask = 3
    SingleSession = FALSE
    RenegotiateByTime = TRUE
    SidCount = 3
    SidsRecur = TRUE
    Server = TRUE
    Mode = "SERVER"
    RemoteSids = {1}
    Verdicts = {"TRUE", "DEFERRED", "FALSE"}
    MaxKeyId = 1
    MaxMessage = 2
INVARIANTS
    TypeOK
    OnlyTrustedKeys
PROPERTIES
    OldKeySurvivesNegotiation
    NoKeyLingers
