\* Claims, leases, settlement and cancellation; no mutation, no journals.
SPECIFICATION FairSpec
CONSTANTS
    s1 = s1
    k1 = k1  k2 = k2
    r1 = r1  r2 = r2  r3 = r3
    Sessions = {s1}
    Requests = {r1, r2, r3}
    Keys = {k1, k2}
    SessionOf <- OneSession
    KeyOf <- RetriedKey
    LegacyRequests = {}
    Lease = 2
    MaxLag = 1
    MaxEvents = 0
    MaxMutations = 0
    NoFence = NoFence
    NoMutation = NoMutation
INVARIANTS
    FenceOwnership
    ClaimedOnce
    KeyExecutesOnce
    ServedInOrder
    QueueMatchesRuns
PROPERTIES
    OutcomeIsFinal
    LiveLeaseNotStolen
    QueuedIsServed
