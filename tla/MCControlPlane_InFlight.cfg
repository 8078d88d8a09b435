\* A pass overlapping one deploy.
CONSTANTS
    p1 = p1
    Projects = {p1}
    Deps = {d1}
    ProjectOf <- OneProject
    Workers = {w1}
    Threads = {t1}
    MaxInst = 1
    Capacity = 9
    NoThread = NoThread  NoDep = NoDep  NoWorker = NoWorker
    NameConflict = TRUE
    Events = {}
    MaxEvents = 0
    Ops = {"create"}
    Targets = {1}
    MaxCalls = 1
    Drifts = {}

SPECIFICATION Spec
PROPERTY InFlightLeftAlone
