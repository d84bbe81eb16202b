SPECIFICATION Spec
CONSTANTS
    web = web
    api = api
    Projects <- MCProjects
    MaxPane = 3
    FirstWindow = 8
    MaxWindow = 11
    MaxCrash = 1
    Outcomes = {"ok", "start", "shadow"}
    Zoomable = {}
    KillFails = FALSE
SYMMETRY Symmetry
INVARIANTS Consistent SelectionDurable
PROPERTIES OrderKept ClosingSelectsNeighbour
CHECK_DEADLOCK FALSE
