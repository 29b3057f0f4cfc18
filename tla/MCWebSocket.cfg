SPECIFICATION MCSpec
CONSTANTS
    Closers = {"canceller"}
    Frame <- MCRead
    MaxMessage = 3
    MaxControl = 1
    WriteTimeout = 2
    CloseTimeout = 1
    ReadTimeout = 1
    MaxFrames = 4
    MaxWrites = 2
INVARIANTS Safety MessagesWhole PingsAnswered
PROPERTY ClosedEndsAll
CHECK_DEADLOCK FALSE
