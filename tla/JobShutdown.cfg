CONSTANTS
    Ids = {j1, j2, j3}
    Workers = {w1, w2}
    Owners = {alice}
    QueueCap = 1
    MaxJobs = 2
    Retention = 1
    TimeoutOn = TRUE
    Faults = {"open", "write", "remove"}
    Stops = {"sender", "guards"}
    MaxRestarts = 1
SYMMETRY Symmetry
SPECIFICATION Spec
CHECK_DEADLOCK FALSE
INVARIANTS
    CompletedHasFile
    DownloadAnswers
    JobsHeldOnce
PROPERTIES
    StatusForward
