SPECIFICATION FairSpec
CONSTANTS
    w1 = w1
    w2 = w2
    HostFirst = 1
    HostLast = 3
    PortFirst = 1
    PortLast = 2
    Workers <- TwoWorkers
    SlowWorkers <- TwoWorkers
    PatientLonger = TRUE
    CancelUsed = TRUE
CHECK_DEADLOCK FALSE
INVARIANTS
    TypeOK
    NeverShared
    FoundOnce
    NothingSkipped
    TopsOutAtEnd
PROPERTIES
    BarOnlyGrows
    Returns
