SPECIFICATION Spec
CONSTANTS
    web = web
    Services <- MCServices
    Host = host
    Database = database
    Minute = 2
    RawRetention = 2
    Retention = 4
    MaxRows = 3
    RepeatProblem = 2
    MaxTime = 7
    MaxProcs = 2
    MaxUpsets = 1
INVARIANTS
    AnswerCountsOnce
    RatesAreRight
PROPERTIES
    NothingVanishesEarly
CHECK_DEADLOCK FALSE
