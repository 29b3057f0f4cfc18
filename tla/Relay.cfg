SPECIFICATION FairSpec
CONSTANTS
    ClientQueue = 2
    NetBuffer = 1
    Sizes = {1}
    MaxWrites = 3
    DaemonQueue = 1
    MaxEvents = 5
    MaxParts = 1
INVARIANTS SuccessIsComplete ChannelIsTrue
PROPERTIES ImplementsSession RunEnds
CHECK_DEADLOCK FALSE
