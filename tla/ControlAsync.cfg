SPECIFICATION FairSpec
CONSTANTS
    c1 = c1
    c2 = c2
    c3 = c3
    Chan = {c1, c2}
    NoChan = NoChan
    MaxReattach = 2
    MaxCommands = 1
    SyncClose = FALSE
INVARIANT Recovering
PROPERTY Recovers
