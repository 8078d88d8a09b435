\* Handlers, passes, and crashes at every point of them and of the recovery.
CONSTANTS
    p1 = p1
    Projects = {p1}
    Deps = {d1, d2, d3}
    ProjectOf <- OneProject
    Workers = {w1}
    Threads = {t1, t2}
    MaxInst = 1
    Capacity = 9
    NoThread = NoThread  NoDep = NoDep  NoWorker = NoWorker
    NameConflict = TRUE
    Events = {"crash"}
    MaxEvents = 2
    Ops = {"create", "stop", "rollback"}
    Targets = {1}
    MaxCalls = 3
    Drifts = {}

SYMMETRY HandlersAndIds
SPECIFICATION Spec
INVARIANTS InFlightOwned OneInFlight
PROPERTIES ProgressLegal RunningBacked NoDoubleCreate
