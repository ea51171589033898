SPECIFICATION TelemetrySpec
CONSTANTS
    daemon = daemon
    cli = cli
    e = e
    u = u
    Process = {daemon, cli}
    Server = {daemon}
    Line = {e, u}
    Event = {e}
    Cap = 2
    Chunk = 1
    MaxFaults = 1
    MaxQuiet = 1
INVARIANTS NothingForgotten SentOnce
PROPERTY OffIsOff
CHECK_DEADLOCK FALSE
