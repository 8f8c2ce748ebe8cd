\* Two turns, two calls each at most, a retried instruction, trims, retries and cancels.
SPECIFICATION FairSpec
CONSTANTS
    MaxTurns = 2
    MaxContextTurns = 1
    KeepTurns = 2
    MaxRetries = 1
    LoopTurn = 3
    RefuseAfter = 1
    AbortAfter = 1
    Steers = {s1}
    MaxPending = 1
    MaxKeys = 2
    MaxRuns = 2
    MaxCalls = 2
    MaxEffort = 2
INVARIANTS
    NothingToRepair
    
    AcceptedSteeringIsShown
    CancelIsOrderly

    
CHECK_DEADLOCK FALSE
