CONSTANTS
    t1 = t1
    w1 = w1
    o1 = o1  o2 = o2
    e1 = e1  e2 = e2
    b1 = b1  b2 = b2
    v1 = v1  n1 = n1  k1 = k1
    NULL = NULL
    Tenants = {t1}
    Workers = {w1}
    Orders = {o1, o2}
    Executions = {e1, e2}
    Items = {}
    Templates = {}
    Versions = {v1}
    Notes = {n1}
    Objects = {b1, b2}
    Contracts = {k1}
    Calls = {c1}
    TenantOf <- MCTenantOf
    UtcOffset <- MCUtcOffset
    VersionOf <- MCVersionOf
    Requests <- MCRequests
    Batches <- MCBatches
    Patches <- MCPatches
    ObjectOf <- MCObjectOf
    Id <- MCId
    PageLimit = 1
    ReportRequests <- MCReports
    ObjectPatches <- MCObjectPatches
    DayLength = 1
    MaxTime = 1

SPECIFICATION ReadsSpec
INVARIANTS HistoryIsExact ReportCoversDone MissedHasNoJob DashboardMatchesReport
PROPERTIES OverdueOrdersSettle
