CONSTANTS
    SeqBacktrack = 2
    TimeBacktrack = 1
    ReapInterval = 1
    PacketIdMax = 3
    LongForm = TRUE
    MaxNow = 4
    FutureCount = 1
    EpochMax = 4
    UsageLimit = 2
    FailWarn = 0
    FailLimit = 0
    MaxClientEpoch = 4
    MaxServerEpoch = 3
    MaxDamaged = 1
SPECIFICATION MCSpec
INVARIANTS TypeOK NoReplay RejectsWithCause RejectsInEverySetting
INVARIANTS KeysInOrder AcceptedOnceAcrossEpochs
INVARIANTS DatagramsIntact EndsAgree
PROPERTIES HeadersAreFresh NoNonceReuse
CHECK_DEADLOCK FALSE
