SPECIFICATION FairSpec
CONSTANTS
    NULL = NULL
    Tenants = {t1}
    Reports = {r1, r2, r3}
    Calls = {c1, c2}
    MaxPending = 2
    MaxAttempts = 3
INVARIANTS TypeOK  SoftCapHolds FailedWasExhausted
PROPERTIES KeepsLifecycle EveryReportIsAnswered
