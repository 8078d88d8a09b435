CONSTANTS
    Instances = {i1}
    Callers = {t1, t2}
    LockObjects = {o1, o2}
    Containers = {c1, c2, c3}
    NoLock = NoLock
    NoCaller = NoCaller
    NoInstance = NoInstance
    NoContainer = NoContainer
    NameConflict = TRUE
    Events = {"exit", "remove", "fault", "restart"}
    MaxCalls = 3
SPECIFICATION FairSpec
CHECK_DEADLOCK FALSE
INVARIANTS
    KeyMutex
    LocksReclaimed
PROPERTIES
    CallReturns
