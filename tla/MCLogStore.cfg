SPECIFICATION FairSpec
CONSTANTS
    c1 = c1
    c2 = c2
    Clients <- MCClients
    Readers <- MCReaders
    Follower = follower
    Writer = writer
    QueueDepth = 1
    BatchSize = 2
    BufferSize = 2
    MaxRows = 1
    Limit = 2
    MaxLines = 2
    MaxReports = 1
    MaxUpsets = 1
INVARIANTS
    NothingIsLostSilently
    ReadsItsOwnLines
    FollowerInOrder
    FollowerMissesNothing
    NumbersAreNew
PROPERTIES
    SearchAnswers
CHECK_DEADLOCK FALSE
