CONSTANTS
    Half = 16
    AckSize = 2
    NAckRetransmit = 1
    SendSize = 2
    RecSize = 2
    SendAckMax = 1
    Data = {d1, d2}
    Hold = TRUE
    MaxClient = 3
    MaxServer = 1
    MaxNet = 1
    d1 = d1
    d2 = d2
    NoData = NoData
SPECIFICATION LiveSpec
PROPERTIES FifoSpec EventuallyDelivered
CHECK_DEADLOCK FALSE
