SPECIFICATION Spec
CONSTANTS
    QueueSize = 2
    NetBuffer = 1
    Sizes <- MCSizes
    MaxWrites = 4
INVARIANT LossReported
CHECK_DEADLOCK FALSE
