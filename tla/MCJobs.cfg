SPECIFICATION Spec
CONSTANTS
    Names = {n1}
    Requests = {r1}
    Sched = sched
    Drift = drift
    None = none
    Defs <- MCDefs
    MaxRuns = 2
    MaxWaiters = 2
    MaxTime = 2
    MaxUpsets = 1
INVARIANTS TypeOK NoRunIsLost ScheduleKeepsCeiling
PROPERTIES TurnsAreNew RunsAreCollected
