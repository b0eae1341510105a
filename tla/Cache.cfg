SPECIFICATION Spec
CONSTANTS
    Task = {t1, t2}
    NBuf = 2
    Block = {k1, k2, k3}
    NoBlock = NoBlock
    Setups <- MCSetups
INVARIANTS
    References
    NothingLost
    BreadReturnsContents
PROPERTIES
    HeldBufferKeepsBlock
SYMMETRY Symmetry
CHECK_DEADLOCK FALSE
