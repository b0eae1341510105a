SPECIFICATION Spec
CONSTANTS
    Setups <- Ignores
    MaxDepth = 2
INVARIANTS
    NoRawRestart
CHECK_DEADLOCK FALSE
