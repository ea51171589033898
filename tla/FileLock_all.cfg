SPECIFICATION FileLockFairSpec
CONSTANTS
    i1 = i1
    i2 = i2
    i3 = i3
    p1 = p1
    p2 = p2
    NoPid = NoPid
    NoFile = NoFile
    Instance = {i1, i2, i3}
    Pid = {p1, p2}
    PidOf <- MCPidOf
INVARIANT AtMostOneWriter
PROPERTY LockAlwaysRecovers
CHECK_DEADLOCK FALSE
