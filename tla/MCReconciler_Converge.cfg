\* Workers that are lost and return, containers that die, do not start or are missing.
CONSTANTS
    p1 = p1
    Projects = {p1}
    Deps = {d1}
    ProjectOf <- OneProject
    Workers = {w1, w2}
    Threads = {}
    MaxInst = 2
    Capacity = 5
    NoThread = NoThread  NoDep = NoDep  NoWorker = NoWorker
    NameConflict = TRUE
    Events = {"health", "lost", "runfail", "startfail", "exit"}
    MaxEvents = 2
    Drifts = {"running", "exited", "unknown"}

SPECIFICATION FairReconcilerSpec
PROPERTY Converges
