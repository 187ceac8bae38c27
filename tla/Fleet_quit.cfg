SPECIFICATION Spec
CONSTANTS
    e1 = e1
    e2 = e2
    n1 = n1
    n2 = n2
    localhost = localhost
    remote = remote
    Entries <- MCEntry
    Names <- MCNames
    Addrs <- MCLocal
    LocalAddr = localhost
    MaxStarts = 1
    MaxPosted = 1
    ImportUsed = FALSE
    Unlisted = Unlisted
    NoPoller = NoPoller
CHECK_DEADLOCK FALSE
INVARIANT QuitIsPosted
