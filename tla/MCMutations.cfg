SPECIFICATION SpecMutations
CONSTANTS
    Requests = {r1, r2}
    FirstGeneration = 1
    maxAuditMemory = 1
    maxAuditLines = 1
    MaxKills = 1
    DiskFails = TRUE
    WriteTears = FALSE
    maxClients = 2
    Ops = {"replace", "apply", "remove"}
CHECK_DEADLOCK FALSE
INVARIANTS
    NoSpuriousConflict
    ClaimNeedsARace
PROPERTY AcceptedIsAnswered
