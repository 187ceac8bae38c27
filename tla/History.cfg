SPECIFICATION Spec
CONSTANTS
    c1 = c1
    c2 = c2
    n1 = n1
    n2 = n2
    n3 = n3
    t1 = t1
    t2 = t2
    Clients <- TwoClients
    Names <- Computers
    Tasks <- TwoTasks
    RunsOn <- AllOnOne
    LocalClients <- TwoClients
    Logged = c1
    Window = 1
    SeenMax = 1
    LongTermDays = 1
    Retentions = {0, 1}
    MaxDay = 2
    MaxPosted = 1
    MaxStarts = 2
    MaxRestarts = 1
SYMMETRY Alike
CHECK_DEADLOCK FALSE
INVARIANTS
    TypeOK
PROPERTIES
    OnlyPruneForgets
    ArchivedSurvive
