SPECIFICATION DvSpec
CONSTANTS
    t1 = t1
    t2 = t2
    p1 = p1
    p2 = p2
    Task = {t1, t2}
    Prog = {p1, p2}
    NoProg = NoProg
    NFrames = 4
    Zero = Zero
    Args = Args
    NSlots = 1
    Setups <- MmForks
    NoTask = NoTask
    Parts = {"mm"}
    TtSetups <- TtWorks
    CnSetups <- CnWorks
    FdSetups <- FdWorks
INVARIANT NoPanic
CHECK_DEADLOCK FALSE
