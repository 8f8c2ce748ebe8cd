\* A run without a key and one with, their journals, and two mutations.
SPECIFICATION Spec
CONSTANTS
    s1 = s1
    k1 = k1  k2 = k2
    r1 = r1  r2 = r2  r3 = r3
    Sessions = {s1}
    Requests = {r1, r2}
    Keys = {k1, k2}
    SessionOf <- OneSession
    KeyOf <- OwnKeys
    LegacyRequests = {r1}
    Lease = 1
    MaxLag = 0
    MaxEvents = 2
    MaxMutations = 2
    NoFence = NoFence
    NoMutation = NoMutation
INVARIANTS
    OneTrueEnding
    OldContextQuiet
PROPERTIES
    MutationGate
