CONSTANTS
    ip = ip
    w1 = w1
    w2 = w2
    NULL = NULL
    IPs = {ip}
    Principals = {w1, w2}
    Requests <- MCRequests
    PerMin <- MCPerMin
    Minute = 2
    IdleTTL = 2
    SweepInterval = 2
    MaxBuckets = 3
    MaxTime = 5

SPECIFICATION Spec
SYMMETRY Workers
INVARIANTS TypeOK
PROPERTIES UncountedOnlyWhenBusy ImplementsIdeal
