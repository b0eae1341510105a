SPECIFICATION FairSpec
CONSTANTS
    Task = {t1, t2}
    Idle = Idle
    MaxPriority = 2
    Waits = {0}
INVARIANTS
    SliceBounded
    OnlyRunnableRuns
PROPERTIES
    NoStarvation
    TimeoutEndsSleep
