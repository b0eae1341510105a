SPECIFICATION Spec
CONSTANTS
    NR_TASKS = 5
    NPages = 5
    MaxPid = 20
    NULL = NULL
    MaxJobs = 2
    JobTasks = 3
INVARIANTS
    TreeOK
    UniquePids
PROPERTIES
    OrphanedJobsGoOn
    WaitReturns
CHECK_DEADLOCK FALSE
