SPECIFICATION FairSpec
CONSTANTS
    p1 = p1  p2 = p2
    s1 = s1  s2 = s2
    e1 = e1  e2 = e2
    NULL = NULL
    Photos = {p1, p2}
    Executions = {e1}
    Subjects = {s1}
    ExecutionOf <- MCExecutionOf
    PresignRequests <- MCPresignRequests
    Metas = {}
    Calls = {c1}
    UrlTTL = 0
    OrphanAge = 0
    SweepLimit = 1
    MaxTime = 2
    SuspendTimes = {}
CHECK_DEADLOCK FALSE
PROPERTIES AbandonedRowsAreCollected
