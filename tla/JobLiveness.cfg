CONSTANTS
    Ids = {j1, j2}
    Workers = {w1, w2}
    Owners = {alice}
    QueueCap = 1
    MaxJobs = 2
    Retention = 1
    TimeoutOn = TRUE
    Faults = {"open"}
    Stops = {"sender"}
    MaxRestarts = 0
SPECIFICATION FairSpec
CHECK_DEADLOCK FALSE
INVARIANTS
    NoOrphanFile
PROPERTIES
    ImplementsService
    EverythingReclaimed
    DrainsOnClose
