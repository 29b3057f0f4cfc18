SPECIFICATION FairLogSpec
CONSTANTS
    Char <- MCChar
    EscHead = "ESC["
    EscTail = "0m"
    Notice = "notice"
    Record <- MCRecord
    QueueSize = 1
    MaxLogBytes = 2
    StripsANSI = TRUE
    MaxAdds = 3
INVARIANTS Safety InOrder
PROPERTIES CloseReturns NothingStuck ImplementsRunLog
CHECK_DEADLOCK FALSE
