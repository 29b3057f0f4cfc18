SPECIFICATION FairSpec
CONSTANTS
    c1 = c1
    c2 = c2
    Call <- MCCall
    NoCall = NoCall
    MaxRetries = 2
    Wait <- MCWait
INVARIANTS Safety HonestResult
PROPERTIES WaitsAsTold SendReturns
CHECK_DEADLOCK FALSE
