CONSTANTS
    Half = 16
    AckSize = 2
    NAckRetransmit = 1
    SendSize = 2
    RecSize = 3
    SendAckMax = 1
    Data = {d1, d2}
    Hold = FALSE
    MaxClient = 4
    MaxServer = 1
    MaxNet = 2
    d1 = d1
    d2 = d2
    NoData = NoData
SPECIFICATION MCSpec
INVARIANTS
    TypeOK DeliveredInOrder NothingForgotten NeverJams
    ListsAndWindowAreExact
SYMMETRY DataSymmetry
CHECK_DEADLOCK FALSE
