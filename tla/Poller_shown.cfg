SPECIFICATION FairSpec
CONSTANTS
    StateEvery = 2
    LogMax = 2
    MaxStarts = 2
    MaxCommands = 0
    MaxSessions = 3
    MaxLogged = 0
    MaxPosted = 1
    DownUsed = TRUE
    DeafUsed = TRUE
CHECK_DEADLOCK FALSE
PROPERTIES DownIsShown UpIsShown RetiredEnd
