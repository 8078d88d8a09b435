\* A container removed on its worker.
CONSTANTS
    p1 = p1
    Projects = {p1}
    Deps = {d1}
    ProjectOf <- OneProject
    Workers = {w1}
    Threads = {}
    MaxInst = 1
    Capacity = 5
    NoThread = NoThread  NoDep = NoDep  NoWorker = NoWorker
    NameConflict = TRUE
    Events = {}
    MaxEvents = 0
    Drifts = {"running", "removed"}

SPECIFICATION FairReconcilerSpec
PROPERTY MissingRepaired
