\* One scanning process and one click against edits, crashes and lost outcomes.
SPECIFICATION FairSpec
CONSTANTS
    t1 = t1 s1 = s1 c1 = c1 k1 = k1
    Tasks = {t1}
    Scanners = {s1}
    Clicks = {c1}
    TaskOf <- MCTaskOf
    KeyOf <- MCKeyOf
    Keys = {k1}
    Window = 1
    Period = 1
    MaxTime = 3
    MaxGenerations = 2
    NoTask = NoTask NoSnapshot = NoSnapshot NoJob = NoJob
INVARIANTS
    LedgerInv
PROPERTIES
    AtMostOncePerOccurrence
    RecreatedTaskStartsClean
    OverdueIsHandled
