\* Two messages of one session, an urgent one among them, and a reset of all.
SPECIFICATION FairSpec
CONSTANTS
    m1 = m1 m2 = m2 m3 = m3 s1 = s1 s2 = s2
    Messages = {m1, m2, m3}
    Sessions = {s1, s2}
    SessionOf <- MCSessionOf
    Urgent = {m2}
    Resets = {m3}
    ResetsOf <- MCResetsOf
    Recalls = {m1}
    Concurrency = 2
    PoolSize = 2
    NoOne = NoOne NoFutures = NoFutures
INVARIANTS
    PermitsBalance
    DispatchedOnce
    QueuesKeepOrder
    EveryRunIsCancellable

    
CHECK_DEADLOCK FALSE
