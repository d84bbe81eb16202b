SPECIFICATION SyncSpec
CONSTANTS
    root = root
    a = a
    b = b
    Trees = {root, a, b}
    External = {a, b}
    None = None
    MaxStep = 3
    MaxNow = 2
    MaxSession = 2
    Spans = FALSE
SYMMETRY Symmetry
INVARIANTS PanelCoherent RefreshReflected WatchFollowsSelection
CHECK_DEADLOCK FALSE
