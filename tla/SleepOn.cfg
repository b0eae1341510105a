SPECIFICATION Spec
CONSTANTS
    Task = {t1, t2, t3}
    NoTask = NoTask
INVARIANTS
    Chain
    NoLostWakeup
PROPERTIES
    LastInFirstOut
    ImplementsWakeLock
