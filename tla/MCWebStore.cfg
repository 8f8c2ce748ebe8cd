\* Workers of two turns against a clear and a delete of their session.
SPECIFICATION WebSpec
CONSTANTS
    s1 = s1
    k1 = k1  k2 = k2
    r1 = r1  r2 = r2
    h1 = h1  h2 = h2
    Sessions = {s1}
    Requests = {r1, r2}
    Keys = {k1, k2}
    SessionOf <- OneSession
    KeyOf <- OwnKeys
    LegacyRequests = {}
    Handlers = {h1, h2}
    TargetOf <- AllOnFirst
    KindOf <- ClearThenDelete
    Lease = 1
    MaxLag = 0
    MaxEvents = 0
    MaxMutations = 2
    PoolSize = 1
    MaxTools = 1
    NoFence = NoFence
    NoMutation = NoMutation
INVARIANTS
    
    FailedSafeIsHarmless
    CompletedIsStored
    
