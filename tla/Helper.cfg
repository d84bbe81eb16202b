SPECIFICATION Spec
CONSTANTS
    MaxHelper = 2
    MaxService = 3
    MaxConn = 2
    MaxActors = 3
    MaxCall = 1
    Backlog = 1
    MaxPipe = 1
INVARIANTS OwnAnswer NewestHoldsPath
PROPERTIES NotHeldUp
CHECK_DEADLOCK FALSE
