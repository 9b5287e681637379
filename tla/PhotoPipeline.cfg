SPECIFICATION Spec
CONSTANTS
    p1 = p1  p2 = p2
    s1 = s1  s2 = s2
    e1 = e1  e2 = e2
    NULL = NULL
    Photos = {p1}
    Executions = {e1, e2}
    Subjects = {s1, s2}
    ExecutionOf <- MCExecutionOf
    PresignRequests <- MCPresignRequests
    Metas = {m1}
    Calls = {c1, c2}
    UrlTTL = 1
    OrphanAge = 0
    SweepLimit = 1
    MaxTime = 2
    SuspendTimes = {1, 2}
CHECK_DEADLOCK FALSE
SYMMETRY CallSymmetry
INVARIANTS TypeOK ConfirmedHasBytes  
PROPERTIES ConfirmedRowsArePermanent 
