SPECIFICATION Spec
CONSTANTS
    StateEvery = 2
    LogMax = 2
    MaxStarts = 1
    MaxCommands = 2
    MaxSessions = 3
    MaxLogged = 3
    MaxPosted = 1
    DownUsed = TRUE
    DeafUsed = TRUE
CHECK_DEADLOCK FALSE
INVARIANTS TypeOK FreshAfterCommand NoMessageMissed
PROPERTIES ImplementsChannel
