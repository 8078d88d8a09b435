\* Two recorded instances, dead, lost or about to be, on two workers that drain.
CONSTANTS
    p1 = p1
    Projects = {p1}
    Deps = {d1}
    ProjectOf <- OneProject
    Workers = {w1, w2}
    Threads = {}
    MaxInst = 2
    Capacity = 5
    NoThread = NoThread  NoDep = NoDep  NoWorker = NoWorker
    NameConflict = FALSE
    Events = {"exit", "remove", "runfail", "startfail", "drain", "undrain"}
    MaxEvents = 2
    Drifts = {"running", "exited", "unknown"}

SPECIFICATION ReconcilerSpec
PROPERTIES NoOvershoot MigratesBeforeStop
