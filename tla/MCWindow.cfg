SPECIFICATION FairSpec
CONSTANTS
    a = a
    b = b
    Views <- MCViews
    Hosts <- MCHosts
    Acts <- MCActs
    Workers = {1}
    Clicks = {1, 2}
    MaxLines = 2
    None = None
    MaxWire = 2
    Batches = {1}
    MaxEvents = 3
INVARIANTS DeletesTakeTwoClicks PageIsCurrent
CHECK_DEADLOCK FALSE
PROPERTY ButtonsComeUp
