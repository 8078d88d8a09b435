CONSTANTS
    r1 = r1
    r2 = r2
    r3 = r3
    k1 = k1
    p1 = p1
    p2 = p2
    w1 = w1
    w2 = w2
    w3 = w3
    m1 = m1
    m2 = m2
    m3 = m3
    m4 = m4
    m5 = m5
    d1 = d1
    d2 = d2
    d3 = d3
    Reqs = {r1, r2, r3}
    BuildWorkers = {b1}
    NoBuilder = NoBuilder
    Capacity = 1
    NoImage = NoImage
    Referenced = {r1}
    Keys = {k1}
    NoKey = NoKey
    ProjectOf <- TheProjects
    Calls <- TheCalls
    MaxUpsets = 1
    Fields = {w1, w2, w3}
    TextOf <- TheTexts
    MaxEntries = 4
    Writers = {w1, w2}
    SecretDeps = {s1}
    NoValue = NoValue
    MaxMasters = 2
    MaxDEKs = 2
    Evals = {e1, e2}
    Policies <- ThePolicies
    Metrics = {5, 8, 11, 15}
    TargetValue = 10
    ScaleUpCooldown = 1
    ScaleDownCooldown = 2
    MaxReplicas = 4
    RecordWriters = {m1, m2, m3, m4, m5}
    Records = {d1, d2, d3}
    RecordOf <- TheRecords
    TableOf <- TheTables
    Absent = Absent
SPECIFICATION Spec
CHECK_DEADLOCK FALSE
INVARIANT OncePerKey LoadExact NoneLeftInFlight TamperEvident RowsReadable NoLostVersion OneValuePerDeployment DecisionSound PointInTime
PROPERTY CooldownKept RequestsAnswered
