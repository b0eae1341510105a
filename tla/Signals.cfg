SPECIFICATION Spec
CONSTANTS
    Setups <- MCSetups
    MaxDepth = 2
INVARIANTS
    MaskKept
    CallsGoOn
PROPERTIES
    KillEnds
CHECK_DEADLOCK FALSE
