SPECIFICATION Spec
CONSTANTS
    BlockLen = 128
    Calls <- MCCalls
INVARIANTS
    StagingSound
    RoundTripSound
PROPERTIES
    NoLateEnomem
    ServiceSpec
