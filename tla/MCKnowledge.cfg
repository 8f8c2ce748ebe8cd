\* Two runtimes, two documents, two paths, one failure or crash.
SPECIFICATION FairSpec
CONSTANTS
    p1 = p1 p2 = p2 c1 = c1
    Runtimes = {r1, r2}
    Paths = {p1, p2}
    Commands <- MCCommands
    Batches <- MCBatches
    Fresh <- MCFresh
    MaxDocs = 2
    MaxVersions = 3
    MaxFailures = 1
    NoOne = NoOne NoFile = NoFile NoPath = NoPath
INVARIANTS
    
    EffectOnce
PROPERTIES
    RestartFinishesJobs
CHECK_DEADLOCK FALSE
