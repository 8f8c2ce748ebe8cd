\* Two skills, three versions; crashes, exceptions, the console and the tools anywhere.
SPECIFICATION Spec
CONSTANTS
    n1 = n1  n2 = n2
    a = a  b = b  c = c
    Names = {n1, n2}
    Proposers = {a}
    Validators = {a, b}
    Publishers = {a, b, c}
    MaxVersions = 3
    MaxProposals = 2
    MaxEvaluations = 2
    MaxSuites = 2
    MaxContents = 1
    NoFile = NoFile
    NoJournal = NoJournal
SYMMETRY Alike
INVARIANTS
    ActiveIsGated
    FactsAreProjected
    RollbackOnce
CHECK_DEADLOCK FALSE
