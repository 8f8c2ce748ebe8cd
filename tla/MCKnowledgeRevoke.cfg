\* One runtime without failures.
SPECIFICATION Spec
CONSTANTS
    p1 = p1 p2 = p2 c1 = c1
    Runtimes = {r1}
    Paths = {p1, p2}
    Commands <- MCCommands
    Batches <- MCBatches
    Fresh <- MCFresh
    MaxDocs = 2
    MaxVersions = 3
    MaxFailures = 0
    NoOne = NoOne NoFile = NoFile NoPath = NoPath
PROPERTIES
    RevokeRevokes
CHECK_DEADLOCK FALSE
