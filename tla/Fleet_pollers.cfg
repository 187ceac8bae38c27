SPECIFICATION Spec
CONSTANTS
    e1 = e1
    e2 = e2
    n1 = n1
    n2 = n2
    localhost = localhost
    remote = remote
    Entries <- MCEntries
    Names <- MCNames
    Addrs <- MCAddrs
    LocalAddr = localhost
    MaxStarts = 2
    MaxPosted = 1
    ImportUsed = TRUE
    Unlisted = Unlisted
    NoPoller = NoPoller
CHECK_DEADLOCK FALSE
SYMMETRY Interchangeable
INVARIANTS
    TypeOK
    PollersMatchList
    IndexIsLive
    RetiredAreSignalled
    SidebarIsCurrent
PROPERTY
    UniqueNames
