SPECIFICATION Spec
CONSTANTS
    t1 = t1  t2 = t2
    w1 = w1  w2 = w2  w3 = w3
    o1 = o1  o2 = o2
    e1 = e1  e2 = e2
    i1 = i1  i2 = i2
    a = a  b = b  v1 = v1  v2 = v2
    n1 = n1  n2 = n2
    NULL = NULL
    Tenants = {t1, t2}
    Workers = {w1, w2, w3}
    Orders = {o1, o2}
    Executions = {e1, e2}
    Items = {i1, i2}
    Templates = {a, b}
    Versions = {v1, v2}
    Notes = {n1, n2}
    Calls = {c1, c2}
    TenantOf <- MCTenantOf
    UtcOffset <- MCUtcOffset
    VersionOf <- MCVersionOf
    Requests <- MCRequests
    Batches <- MCBatches
    Patches <- MCPatches
    DayLength = 1
    MaxTime = 1
CHECK_DEADLOCK FALSE
SYMMETRY CallSymmetry
INVARIANTS TypeOK StatusMatchesEvidence ItemsMatchChecklist
PROPERTIES CompletionIsPermanent OnlyAssigneeWrites EvidenceStaysApart ReplayConverges
    OpenWorkPrecedesSuspension OnlyOpenWorkReopens KeepsPlannedLoop
