SPECIFICATION FsSpec
CONSTANTS
    t1 = t1
    t2 = t2
    t3 = t3
    f1 = f1
    f2 = f2
    n1 = n1
    n2 = n2
    dir = dir
    other = other
    Parts = {"names", "files", "blocks", "inodes"}
    NmSetups <- NmWorks
    Proc = {t1, t2}
    init = t1
    NR_OPEN = 2
    NR_FILE = 3
    InodeSlot = {n1, n2}
    OfSetups <- OfWorks
    Task = {t1, t2, t3}
    NR_INODE = 3
    Root = root
    NoInode = NoInode
    Inode = {dir, other, root}
    Setups <- ItWorks
SYMMETRY SlotSymmetry
INVARIANTS
    NamesSound
    DescriptorsSound
    BlocksSound
    InodesSound
    NothingLost
