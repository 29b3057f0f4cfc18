SPECIFICATION Spec
CONSTANTS
    Char <- MCChar
    EscHead = "ESC["
    EscTail = "0m"
    Notice = "notice"
    Record <- MCSplitEscape
    QueueSize = 2
    MaxLogBytes = 4
    StripsANSI = TRUE
    MaxAdds = 2
INVARIANT NoEscapeShown
CHECK_DEADLOCK FALSE
