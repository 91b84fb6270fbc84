SPECIFICATION FairSpec
CONSTANTS
    Jobs = {j1, j2, p1}
    Protected = {p1}
    Workers = 1
    MaxRestarts = 1
    MaxFaults = 1
CHECK_DEADLOCK FALSE
INVARIANTS
    TypeOK
    ProtectedUninterrupted
    RecordsTellTheTruth
    Supervised
PROPERTIES
    DurableOutcome
    IsLedger
    StartedOnce
    PooledJobsSettle
