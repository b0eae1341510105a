SPECIFICATION DrvSpec
CONSTANTS
    t1 = t1
    t2 = t2
    Task = {t1, t2}
    Block = {1, 2, 3}
    Uses <- MCUses
    Paging = TRUE
    NR_REQUEST = 3
    NoTask = NoTask
    NR_HD = 1
    MAX_ERRORS = 3
    NrSects = 4
    FirstSector = {0, 2}
    Fails = {"read", "write", "restore", "specify"}
    Setups <- MCSetups
    TIME_REQUESTS = 3
    Delay = {0, 1, 3}
    MaxNested = 2
    MaxLate = 2
    Parts = {"timer", "queue", "hd"}
INVARIANTS
    TimersOnTime
    Elevator
    SomeoneGoesOn
    
PROPERTIES
    AllTimersFire
    RequestsServed
    EveryRequestEnds
CHECK_DEADLOCK FALSE
