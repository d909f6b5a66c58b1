SPECIFICATION FairSpec
CONSTANTS
    NumBlocks = 2
    Dbg = TRUE
    MaxCalls = 2
INVARIANTS
    BlocksSound
    SpinsOnlyRefused
PROPERTIES
    FailureEndsKeep
    ServiceSpec
