SPECIFICATION Spec
CONSTANTS
    p1 = p1
    p2 = p2
    s1 = s1
    s2 = s2
    web = web
    Procs <- MCProcs
    Services <- MCServices
    Repos <- MCRepos
    RepoOf <- MCRepoOf
    MaxImage = 2
    Keep = 1
    None = None
    MaxJobs = 4
    MaxUpsets = 1
SYMMETRY Symmetry
INVARIANTS
    MarkIsItsContent
PROPERTIES
    HeldStaysNamed
    NewestAreKept
    OnlyOursGo
    RollbackRunsWhatWasChosen
CHECK_DEADLOCK FALSE
