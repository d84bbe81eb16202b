SPECIFICATION FairSpec

CONSTANTS
    laptop = laptop
    server = server
    i1 = i1
    i2 = i2
    Projects = {laptop, server}
    LocalProjects = {laptop}
    Inst = {i1, i2}
    NoInst = NoInst
    NoProject = NoProject
    MaxStarts = 2
    MaxPending = 4

INVARIANTS RecordsAgree WatchFollowsStatus ListenerOwned ListenerServes
PROPERTIES OrphanListenerCloses
