SPECIFICATION FairSpec
CONSTANTS
    a = a
    Hosts <- MCHosts
    Loops = {1, 2}
    Conns = {1, 2, 3}
    Limit = 2
    MaxLines = 2
    None = None
    MaxActions = 1
    MaxReloads = 2
    MaxFaults = 1
INVARIANTS ConnectionsAreKept StaleVersionNeedsARace LinesComeOnce
CHECK_DEADLOCK FALSE
PROPERTY PictureCatchesUp
