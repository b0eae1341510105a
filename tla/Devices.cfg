SPECIFICATION DvSpec
CONSTANTS
    t1 = t1
    t2 = t2
    p1 = p1
    p2 = p2
    Task = {t1, t2}
    Prog = {p1, p2}
    NoProg = NoProg
    NFrames = 7
    Zero = Zero
    Args = Args
    NSlots = 2
    Setups <- MmWorks
    NoTask = NoTask
    Parts = {"tt", "cn", "fd", "mm"}
    TtSetups <- TtWorks
    CnSetups <- CnWorks
    FdSetups <- FdWorks
INVARIANTS TerminalsSound FloppySound PagesAccounted
PROPERTIES ImplementsScreen OwnMemory
CHECK_DEADLOCK FALSE
