SPECIFICATION FairSpec
CONSTANTS
    PageSize = 2
    BrkPages = 2
    MmapPages = 3
    TableSpan = 2
    HostSizes = {4, 6}
    Slots = 3
    FirstAlloc = 2
    MaxAlloc = 4
    Breaks <- MCBreaks
    Addrs <- MCAddrs
    Lens <- MCLens
INVARIANTS
    MemoryAccounted
    FailsOnlyExhausted
PROPERTIES
    ReturnsUnlessExhausted
