\* Two turns of one session, without a mutation: every claim ends.
SPECIFICATION FairWebSpec
CONSTANTS
    s1 = s1
    k1 = k1  k2 = k2
    r1 = r1  r2 = r2
    h1 = h1  h2 = h2
    Sessions = {s1}
    Requests = {r1, r2}
    Keys = {k1, k2}
    SessionOf <- OneSession
    KeyOf <- OwnKeys
    LegacyRequests = {}
    Handlers = {}
    TargetOf <- AllOnFirst
    KindOf <- AllClear
    Lease = 2
    MaxLag = 0
    MaxEvents = 0
    MaxMutations = 0
    PoolSize = 1
    MaxTools = 1
    NoFence = NoFence
    NoMutation = NoMutation
PROPERTIES
    ClaimIsResolved
