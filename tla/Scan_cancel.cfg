SPECIFICATION FairSpec
CONSTANTS
    w1 = w1
    w2 = w2
    HostFirst = 1
    HostLast = 2
    PortFirst = 1
    PortLast = 1
    Workers <- TwoWorkers
    SlowWorkers <- OneWorker
    PatientLonger = TRUE
    CancelUsed = TRUE
CHECK_DEADLOCK FALSE
PROPERTY CancelReturns
