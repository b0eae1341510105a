SPECIFICATION SSpec
CONSTANTS
    Reader = {r1, r2}
    Writer = {w1}
    PAGE_SIZE = 3
    MaxCount = 3
    Faulting = {r1, w1}
    Selector = {r2}
INVARIANTS
    StreamIntact
    NobodyWaitsForEachOther
PROPERTIES
    ReadersAndWritersWake
    SelectorsReturn
