CONSTANTS
    Instances = {i1}
    Callers = {t1, t2, t3}
    LockObjects = {o1, o2, o3}
    Containers = {c1, c2, c3, c4}
    NoLock = NoLock
    NoCaller = NoCaller
    NoInstance = NoInstance
    NoContainer = NoContainer
    NameConflict = FALSE
    Events = {"exit", "remove"}
    MaxCalls = 4
SPECIFICATION Spec
SYMMETRY Symmetry
CHECK_DEADLOCK FALSE
INVARIANTS
    OneRunning
    StopEffective
