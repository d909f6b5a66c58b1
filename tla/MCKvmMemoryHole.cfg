SPECIFICATION Spec
CONSTANTS
    PageSize = 2
    BrkPages = 2
    MmapPages = 3
    TableSpan = 2
    HostSizes = {16}
    Slots = 4
    FirstAlloc = 1
    MaxAlloc = 4
    Breaks = {0, 2, 6}
    Addrs = {6, 8}
    Lens = {2, 6}
INVARIANT
    MunmapComplete
