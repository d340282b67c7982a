SPECIFICATION Spec
CONSTANTS
    Requests = {r1, r2, r3}
    FirstGeneration = 1
    maxAuditMemory = 2
    maxAuditLines = 2
    MaxKills = 2
    DiskFails = TRUE
    WriteTears = TRUE
SYMMETRY Symmetry
INVARIANTS
    TypeOK
    SnapshotIsAPastState
    RecentEndsWithTheLog
PROPERTY ImplementsLedger
CHECK_DEADLOCK FALSE
