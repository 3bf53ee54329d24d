SPECIFICATION Spec
CONSTANTS
    None = None
    c1 = c1 c2 = c2 c3 = c3
    k1 = k1 k2 = k2
    m1 = m1 m2 = m2 m3 = m3
    a1 = a1 a2 = a2
    p1 = p1 p2 = p2 v1 = v1 v2 = v2 s1 = s1 s2 = s2
    Callers <- MCCallers
    Requests <- MCRequests
    Attempts <- MCAttempts
    Isolations <- MCIsolations
    Prior <- MCPrior
SYMMETRY Symmetry
CHECK_DEADLOCK FALSE
INVARIANTS
    TypeOK
    AcceptedIsWhole
    AnswersHold
    ClaimsFollowReservations
PROPERTIES
    AuthorizedUnderControl
