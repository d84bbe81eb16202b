CONSTANTS
    Panes = {p1, p2}
    None = None
    MaxTry = 2
    MaxOut = 1
    Nested = FALSE
SPECIFICATION Spec
CHECK_DEADLOCK FALSE
INVARIANT OneReader NothingElseLost UpgradeKeepsPanes MarkerNotAhead NothingStuck
