SPECIFICATION FairSpec
CONSTANTS
    here = here
    there = there
    s1 = s1
    s2 = s2
    c1 = c1
    c2 = c2
    c3 = c3
    Root = {here, there}
    NoRoot = NoRoot
    Cwd = here
    Only = s1
    Session = {s1, s2}
    Call = {c1, c2, c3}
    SessionOf <- MCSessionOf
    Target <- MCTarget
    Uris <- MCUris
    MaxInode = 1
INVARIANTS NothingLeaks WatchedIsServed
PROPERTIES GateIsKept CallsAnswered
CHECK_DEADLOCK FALSE
