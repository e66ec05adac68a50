CONSTANTS
    SeqBacktrack = 2
    TimeBacktrack = 1
    ReapInterval = 1
    PacketIdMax = 3
    LongForm = TRUE
    MaxNow = 3
    MaxStarts = 3
SPECIFICATION Spec
CHECK_DEADLOCK FALSE
INVARIANT NoReplayAcrossSessions
