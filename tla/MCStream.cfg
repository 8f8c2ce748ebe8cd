\* One request, a client that reconnects to either process, one fault.
SPECIFICATION FairSpec
CONSTANTS
    p1 = p1  p2 = p2
    Procs = {p1, p2}
    Home = p1
    Capacity = 2
    MaxProgress = 1
    MaxFaults = 1
    None = None
CHECK_DEADLOCK FALSE
INVARIANTS
    ShownIsDurable
    DoneIsTrueAndComplete
PROPERTIES
    
    EveryClientIsTold
