SPECIFICATION FairSpec
CONSTANTS
    good = good
    heavy = heavy
    slow = slow
    File = {good, heavy, slow}
    NoFile = NoFile
    Outcomes <- MCOutcomes
    RecycleInterval = 2
INVARIANTS NoMixUp AccountedFor HealthyIsIndexed
PROPERTY RunEnds
CHECK_DEADLOCK FALSE
