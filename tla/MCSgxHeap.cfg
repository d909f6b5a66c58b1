SPECIFICATION HeapSpec
CONSTANTS
    NPages = 3
    PageSize = 2
    Capacity = 2
    Addrs <- MCAddrs
    Lens <- MCLens
    Prots <- MCProts
INVARIANTS
    HeapAccounted
    HonestHostTrusted
    KeepEndsOnlyOverLost
PROPERTIES
    NoAliasing
