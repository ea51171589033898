SPECIFICATION FacadeSpec
CONSTANTS
    c1 = c1
    c2 = c2
    c3 = c3
    c4 = c4
    NoCaller = NoCaller
    Caller = {c1, c2, c3, c4}
    Barger = {c4}
    Does <- MCDoes
    MaxReplaced = 1
INVARIANTS WritersExclude NoLeakedLock
PROPERTIES ImplementsMutexSpec EveryWaiterServed
