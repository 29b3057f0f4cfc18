SPECIFICATION FairSpec
CONSTANTS
    QueueSize = 2
    NetBuffer = 1
    Sizes <- MCSizes
    MaxWrites = 4
INVARIANTS Safety BytesAccounted SuccessIsComplete
PROPERTY WrapperReturns
CHECK_DEADLOCK FALSE
