\* Two handlers and every operation, on one project.
CONSTANTS
    p1 = p1
    Projects = {p1}
    Deps = {d1, d2, d3}
    ProjectOf <- OneProject
    Workers = {w1}
    Threads = {t1, t2}
    MaxInst = 2
    Capacity = 5
    NoThread = NoThread  NoDep = NoDep  NoWorker = NoWorker
    NameConflict = FALSE
    Events = {"runfail", "lost"}
    MaxEvents = 1
    Ops = {"create", "stop", "scale", "rollback"}
    Targets = {1, 2}
    MaxCalls = 4

SYMMETRY Symmetry
SPECIFICATION ServiceSpec
INVARIANT ReplicasServed
PROPERTY RollbackContinuity
CHECK_DEADLOCK FALSE
