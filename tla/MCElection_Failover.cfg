\* Two electors; partitions, step-downs and stops, two in all.
CONSTANTS
    Nodes = {n1, n2}
    NoNode = NoNode
    TTL = 1
    MaxFaults = 2

SPECIFICATION FairSpec
INVARIANT LeaseKept
PROPERTIES ImplementsLeadership LostLockFenced LeaderEmerges
