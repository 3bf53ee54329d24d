SPECIFICATION Spec
CONSTANTS
    None = None
    w1 = w1 w2 = w2
    m0 = m0 m1 = m1 m2 = m2 m3 = m3 m4 = m4
    k1 = k1 k2 = k2 k3 = k3 k4 = k4
    v1 = v1 v2 = v2 v3 = v3 v4 = v4
    e1 = e1 e2 = e2 e3 = e3 e4 = e4
    t1 = t1 t2 = t2
    Origin = m0
    Workers <- MCWorkers
    Requests <- MCRequests
    Versions <- MCVersions
    MaxCrashes = 2
CHECK_DEADLOCK FALSE
INVARIANTS
    TypeOK
    StartsPass
    RecoveryIsOwned
    AnswersHold
