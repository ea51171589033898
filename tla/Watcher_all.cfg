SPECIFICATION FairTreeSpec
CONSTANTS
    f1 = f1
    f2 = f2
    d1 = d1
    d2 = d2
    File = {f1, f2}
    Dir = {d1, d2}
    Root = Root
    Path <- MCPath
    In <- MCIn
    MaxLockRetries = 1
    RetryCap = 2
    MaxEdits = 2
    MaxErrors = 1
    MaxChanges = 2
INVARIANTS NoFalseFresh DirectoriesCovered
PROPERTIES ImplementsWatcher ContentionGivesUp EditsReachIndex
