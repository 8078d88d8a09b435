SPECIFICATION FairSpec
CONSTANTS
    Workers = {w1, w2}
    Insts = {i1}
    NoWorker = NoWorker
    SuspectedThreshold = 2
    UnhealthyThreshold = 3
    ConsecutiveBeatsToHeal = 2
    MaxEvents = 2
INVARIANT DrainSurvives RoutesAgree UnhealthyEvicted
PROPERTY DeadWorkerDetected LiveWorkerRecovers
