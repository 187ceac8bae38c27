SPECIFICATION DialogsFairSpec
CONSTANTS
    MaxPollers = 2
    MaxCommands = 4
    MaxEdits = 2
    Kinds = {"config", "proxy", "prefs"}
    Fields = {"hours", "days"}
    Pinned = {"hours"}
CHECK_DEADLOCK FALSE
INVARIANTS DialogsTypeOK
PROPERTIES  OverridesKept AppsWriteKeepsRest
