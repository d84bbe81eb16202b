SPECIFICATION Spec

CONSTANTS
    laptop = laptop
    server = server
    i1 = i1
    i2 = i2
    Projects = {server}
    LocalProjects = {}
    Inst = {i1, i2}
    NoInst = NoInst
    NoProject = NoProject
    MaxStarts = 2
    MaxPending = 0

SYMMETRY Symmetry

INVARIANTS
    OneWatchPerSession
