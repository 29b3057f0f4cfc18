SPECIFICATION MCSpec
CONSTANTS
    r1 = r1
    r2 = r2
    r3 = r3
    Run <- MCRun
    MaxConcurrentRuns = 2
    QueueSize = 1
    MaxEvents = 3
    MaxParts = 2
INVARIANTS Safety SuccessIsComplete EndingTried SlotsExact
CHECK_DEADLOCK FALSE
