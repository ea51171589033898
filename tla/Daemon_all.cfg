SPECIFICATION MCSpec
CONSTANTS
    d1 = d1
    d2 = d2
    c1 = c1
    c2 = c2
    None = None
    Dead = Dead
    Corrupt = Corrupt
    Process = {d1, d2}
    Client = {c1, c2}
    MaxAttempts = 2
INVARIANTS OneDaemon
PROPERTIES NoAbandonedDaemon StopEnds CommandStops
CHECK_DEADLOCK FALSE
