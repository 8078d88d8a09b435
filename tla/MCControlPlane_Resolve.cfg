\* A crash, a lost call, a worker that drains, or two of them.
CONSTANTS
    p1 = p1
    Projects = {p1}
    Deps = {d1}
    ProjectOf <- OneProject
    Workers = {w1, w2}
    Threads = {t1}
    MaxInst = 1
    Capacity = 9
    NoThread = NoThread  NoDep = NoDep  NoWorker = NoWorker
    NameConflict = TRUE
    Events = {"crash", "lost", "drain"}
    MaxEvents = 2
    Ops = {"create", "stop"}
    Targets = {1}
    MaxCalls = 2
    Drifts = {}

SPECIFICATION FairSpec
PROPERTIES HandlersReturn InterruptedResolved OrphansStopped
